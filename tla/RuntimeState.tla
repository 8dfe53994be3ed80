----------------------------- MODULE RuntimeState -----------------------------
(***************************************************************************)
(* The state of a HumanlikeRuntime (src/humanlike_agent/runtime.py) and    *)
(* what prepare, observe and finalize make of it.  Each of them runs under *)
(* the runtime's lock, so each is one operator on that state.  Of a        *)
(* component that failed only that one did is followed, of a receipt only  *)
(* what it says of the records written and whether it names an error.      *)
(***************************************************************************)
EXTENDS DriftSentinel, DiscourseGuard, TurnPlans, FiniteSets

CONSTANTS Turns,           \* turn ids
          Sessions,        \* session ids
          RecordNames,     \* memory records, in each session
          Chains,          \* tactic chains a host may report
          Outcomes,        \* what a host may report
          ActiveTurnLimit, SessionLimit

ASSUME RuntimeAssumption ==
    /\ ActiveTurnLimit \in 1..1024 /\ SessionLimit \in 1..256
    /\ Chains \subseteq TacticChain
    /\ None \notin Turns \cup Sessions \cup Scopes
    /\ None \notin Chains \cup Probes

\* A durable record a host supplies, and the session it names.
Record == [name : RecordNames, session : Sessions]

SessionState == [noSave : BOOLEAN, reanchor : BOOLEAN, drift : Sentinel,
                 discourse : Seq(Chains)]
PendingTurn == [session : Sessions, mode : Modes, scope : Scopes, save : BOOLEAN,
                failed : BOOLEAN, fragments : SUBSET Fragments, chars : Nat]
Receipt == [turn : Turns, session : Sessions, writes : Nat, failed : BOOLEAN]

NewSession == [noSave |-> FALSE, reanchor |-> FALSE, drift |-> NewSentinel,
               discourse |-> <<>>]
NewRuntime == [sessions |-> <<>>, pending |-> <<>>, completed |-> <<>>, owners |-> <<>>]

With(f, x, y) == [z \in DOMAIN f \cup {x} |-> IF z = x THEN y ELSE f[z]]
Without(f, S) == [z \in DOMAIN f \ S |-> f[z]]

Session(runtime, s) ==
    IF s \in DOMAIN runtime.sessions THEN runtime.sessions[s] ELSE NewSession

-----------------------------------------------------------------------------
(* prepare *)

\* A slip: only the turns in progress keep their id.
CanPrepareAgain(runtime, t, s) ==
    /\ t \notin DOMAIN runtime.pending
    /\ Cardinality(DOMAIN runtime.pending) < ActiveTurnLimit
    /\ s \in DOMAIN runtime.sessions \/ Cardinality(DOMAIN runtime.sessions) < SessionLimit

CanPrepare(runtime, t, s) ==
    /\ t \notin DOMAIN runtime.owners
    /\ Cardinality(DOMAIN runtime.pending) < ActiveTurnLimit
    /\ s \in DOMAIN runtime.sessions \/ Cardinality(DOMAIN runtime.sessions) < SessionLimit

PlanOf(runtime, s, input) ==
    LET state == Session(runtime, s) IN Plans[state.noSave][state.reanchor][input]

\* The session once the turn is routed, which outlives a prepare that raises.
Opened(runtime, s, input) ==
    LET state == Session(runtime, s)
        scope == PlanOf(runtime, s, input).scope
    IN [runtime EXCEPT !.sessions =
           With(@, s, [state EXCEPT !.noSave = @ \/ scope = "session"])]

\* A slip: an anchor that was due is taken for delivered.
NeverDueAgain(due, context) == FALSE
StillDue(due, context) == due /\ "reanchor" \notin context

\* The context is chosen, and what it carries is no longer due.
Selected(runtime, s, input) ==
    [Opened(runtime, s, input) EXCEPT
        !.sessions[s].reanchor = StillDue(@, PlanOf(runtime, s, input).fragments)]

Prepare(runtime, t, s, input) ==
    LET plan == PlanOf(runtime, s, input)
    IN [Selected(runtime, s, input) EXCEPT
           !.pending = With(@, t,
               [session |-> s, mode |-> plan.mode, scope |-> plan.scope, save |-> plan.save,
                failed |-> plan.failed, fragments |-> plan.fragments,
                chars |-> plan.chars]),
           !.owners = With(@, t, s)]

-----------------------------------------------------------------------------
(* observe *)

TurnsOf(receipts) == {receipts[i].turn : i \in DOMAIN receipts}
Completed(runtime) == TurnsOf(runtime.completed)
CanObserve(runtime, t, s) ==
    t \in DOMAIN runtime.pending /\ runtime.pending[t].session = s

\* What a host reports: whether the turn succeeded, whether it names an error,
\* whether some tactic or tool it names is unknown, the known tactics, a probe
\* of the behaviour, and the records to remember.  "invalid" is no probe.
Outcome == [success : BOOLEAN, error : BOOLEAN, unknown : BOOLEAN, chain : Chains \cup {None},
            probe : Probes \cup {"invalid", None}, records : SUBSET Record]
ASSUME OutcomesAssumption ==
    /\ Outcomes \subseteq Outcome
    /\ \A outcome \in Outcomes : IsFiniteSet(outcome.records)

Blocked(outcome) == outcome.error \/ outcome.probe = "invalid"

\* Faults a slip in this code would make; no definition uses them.
FailedBesidesMemory(runtime, t, outcome, raised) ==
    runtime.pending[t].failed \/ Blocked(outcome) \/ outcome.unknown
MayWriteByTurn(runtime, t, outcome) ==
    LET turn == runtime.pending[t]
    IN outcome.success /\ ~Blocked(outcome) /\ turn.save /\ ~turn.failed

\* Whether a turn's records may be written, and then whether they are.
MayWrite(runtime, t, outcome) ==
    LET turn == runtime.pending[t]
    IN /\ outcome.success /\ ~Blocked(outcome)
       /\ turn.save /\ turn.scope = "default" /\ ~turn.failed
       /\ ~runtime.sessions[turn.session].noSave
Belong(records, s) == \A record \in records : record.session = s
Writes(runtime, t, outcome) ==
    IF MayWrite(runtime, t, outcome) /\ Belong(outcome.records, runtime.pending[t].session)
    THEN outcome.records ELSE {}
WriteRejected(runtime, t, outcome) ==
    /\ MayWrite(runtime, t, outcome)
    /\ ~Belong(outcome.records, runtime.pending[t].session)

Failed(runtime, t, outcome, raised) ==
    runtime.pending[t].failed \/ Blocked(outcome) \/ outcome.unknown \/ raised
    \/ WriteRejected(runtime, t, outcome)

Probed(state, probe) ==
    IF probe \in Probes
    THEN [state EXCEPT !.drift = Evaluate(@, probe),
                       !.reanchor = @ \/ Anchors(state.drift, probe)]
    ELSE state

Heard(state, chain) ==
    IF chain = None THEN state
    ELSE [state EXCEPT !.discourse = Remembered(@, chain)]

\* A slip: the evicted turn keeps its owner.
EvictKeepingOwner(runtime) == [runtime EXCEPT !.completed = Tail(@)]
Evict(runtime) ==
    [runtime EXCEPT !.owners = Without(@, {Head(runtime.completed).turn}),
                    !.completed = Tail(@)]

\* added: records remembered; raised: the memory failed on some record.
Observe(runtime, t, outcome, added, raised) ==
    LET turn == runtime.pending[t]
        receipt == [turn |-> t, session |-> turn.session, writes |-> Cardinality(added),
                    failed |-> Failed(runtime, t, outcome, raised)]
        room == IF Len(runtime.completed) < ActiveTurnLimit THEN runtime ELSE Evict(runtime)
    IN [sessions |-> [runtime.sessions EXCEPT ![turn.session] =
                         Heard(Probed(@, outcome.probe), outcome.chain)],
        pending |-> Without(room.pending, {t}),
        completed |-> Append(room.completed, receipt),
        owners |-> room.owners]

-----------------------------------------------------------------------------
(* finalize *)

\* The receipts of the other sessions, in their order.
KeptReceipts(receipts, s) ==
    LET kept[i \in 0..Len(receipts)] ==
            IF i = 0 THEN <<>>
            ELSE IF receipts[i].session = s THEN kept[i - 1]
            ELSE Append(kept[i - 1], receipts[i])
    IN kept[Len(receipts)]

Finalize(runtime, s) ==
    LET kept == KeptReceipts(runtime.completed, s)
        pending == {t \in DOMAIN runtime.pending : runtime.pending[t].session = s}
        dropped == pending \cup (Completed(runtime) \ TurnsOf(kept))
    IN [sessions |-> Without(runtime.sessions, {s}),
        pending |-> Without(runtime.pending, pending),
        completed |-> kept,
        owners |-> Without(runtime.owners, dropped)]
=============================================================================
