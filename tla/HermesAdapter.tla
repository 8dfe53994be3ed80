---------------------------- MODULE HermesAdapter ----------------------------
(***************************************************************************)
(* HermesAdapter of src/humanlike_agent/adapters/hermes.py: the hooks that *)
(* Hermes calls around a model call, over a runtime of its own.  Each hook *)
(* runs under the adapter's lock.  Hermes may drop, repeat or delay any of *)
(* them, and interleave sessions.  Identifiers are in the canonical form   *)
(* in which the runtime keeps them.                                        *)
(***************************************************************************)
EXTENDS RuntimeState

CONSTANT MaxActiveSessions

VARIABLES runtime,
          active,   \* per session, the turn whose answer is awaited
          prepared  \* per session, the scope that turn was prepared with

vars == <<runtime, active, prepared>>

\* The adapter asks for no scope, has no router and adds no stance probe.
ASSUME AdapterAssumption ==
    /\ MaxActiveSessions \in Nat \ {0}
    /\ \A input \in TurnInputs :
          input.asked = "default" /\ input.foreign = None /\ input.stance = None

Init ==
    /\ runtime = NewRuntime
    /\ active = [s \in Sessions |-> None]
    /\ prepared = [s \in Sessions |-> None]

\* The outcomes reported from the hooks: an error, no probe and no record.
Unsuccessful == [success |-> FALSE, error |-> TRUE, unknown |-> FALSE, chain |-> None,
                 probe |-> None, records |-> {}]

\* observe returns the receipt of a turn in progress, or of one completed.
Observable(state, t, s) ==
    CanObserve(state, t, s) \/ (t \in Completed(state) /\ state.owners[t] = s)
Observed(state, t) ==
    IF t \in DOMAIN state.pending THEN Observe(state, t, Unsuccessful, {}, FALSE) ELSE state

Active == {s \in Sessions : active[s] # None}

Idle(s) == active' = [active EXCEPT ![s] = None] /\ prepared' = [prepared EXCEPT ![s] = None]

-----------------------------------------------------------------------------
(* pre_llm_call *)

\* The turn whose answer never came is reported as cancelled.
Retired(s) == IF active[s] = None THEN runtime ELSE Observed(runtime, active[s])

CanBegin(s, t) ==
    /\ active[s] # t
    /\ IF active[s] = None THEN Cardinality(Active) < MaxActiveSessions
                           ELSE Observable(runtime, active[s], s)
Begins(s, t) == CanBegin(s, t) /\ CanPrepare(Retired(s), t, s)

PreRefused(s, t) ==
    /\ CanBegin(s, t) /\ ~CanPrepare(Retired(s), t, s)
    /\ runtime' = Retired(s)
    /\ Idle(s)

PreRaises(s, t) ==
    /\ Begins(s, t)
    /\ \E input \in TurnInputs :
          runtime' \in {Opened(Retired(s), s, input), Selected(Retired(s), s, input)}
    /\ Idle(s)

\* A slip: the turn whose context is not returned stays in progress.
OverAtOnceKept(state, t) == state
OverAtOnce(state, t) == Observed(state, t)

\* The context does not fit into a hook's answer.
PreOutOfBounds(s, t) ==
    /\ Begins(s, t)
    /\ \E input \in TurnInputs :
          runtime' = OverAtOnce(Prepare(Retired(s), t, s, input), t)
    /\ Idle(s)

PrePrepares(s, t) ==
    /\ Begins(s, t)
    /\ \E input \in TurnInputs :
          /\ runtime' = Prepare(Retired(s), t, s, input)
          /\ prepared' = [prepared EXCEPT ![s] = PlanOf(Retired(s), s, input).scope]
    /\ active' = [active EXCEPT ![s] = t]

-----------------------------------------------------------------------------
(* post_llm_call and on_session_finalize *)

\* A slip: an answer is taken for the session's turn, whichever it is for.
AwaitsAny(s, t) == TRUE
Awaits(s, t) == active[s] \in {None, t}

PostLlmCall(s, t) ==
    /\ Awaits(s, t) /\ Observable(runtime, t, s)
    /\ runtime' = Observed(runtime, t)
    /\ Idle(s)

OnSessionFinalize(s) == runtime' = Finalize(runtime, s) /\ Idle(s)

Next ==
    \E s \in Sessions :
        \/ \E t \in Turns :
              \/ PreRefused(s, t) \/ PreRaises(s, t)
              \/ PreOutOfBounds(s, t) \/ PrePrepares(s, t)
              \/ PostLlmCall(s, t)
        \/ OnSessionFinalize(s)

Spec == Init /\ [][Next]_vars

-----------------------------------------------------------------------------
(***************************************************************************)
(* The turns the runtime has in progress are exactly the ones whose answer *)
(* the adapter awaits, with the scope they were prepared with.  So no turn *)
(* takes up the runtime's room that nothing will ever report, a session    *)
(* never keeps a turn that can neither be answered nor given up, and no    *)
(* scope outlives its turn.                                                *)
(***************************************************************************)
ActiveIsPending ==
    /\ \A s \in Sessions : prepared[s] = None <=> active[s] = None
    /\ Cardinality(Active) <= MaxActiveSessions
    /\ \A s \in Active :
          /\ active[s] \in DOMAIN runtime.pending
          /\ runtime.pending[active[s]].session = s
          /\ runtime.pending[active[s]].scope = prepared[s]
    /\ \A t \in DOMAIN runtime.pending : active[runtime.pending[t].session] = t

(***************************************************************************)
(* A turn stops being awaited only when it has its receipt or when its     *)
(* session is over: a late answer to an earlier turn of the session, or    *)
(* one for another session, does not end it.                               *)
(***************************************************************************)
EndsWithReceipt ==
    [][\A s \in Active :
          active'[s] # active[s]
              => active[s] \in Completed(runtime') \/ s \notin DOMAIN runtime'.sessions]_vars

=============================================================================
