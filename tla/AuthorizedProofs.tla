--------------------------- MODULE AuthorizedProofs ---------------------------
(***************************************************************************)
(* For any number of callers, sessions, turns and messages, and any limits *)
(* of the runtime and the adapter: what a host that prepares authorized    *)
(* turns beside the usual hooks can rely on.                               *)
(***************************************************************************)
EXTENDS AuthorizedTurns, RuntimeStateProofs

-----------------------------------------------------------------------------
(***************************************************************************)
(* The adapter and its runtime: the runtime is sound, and the adapter      *)
(* awaits exactly the turns it has in progress.                            *)
(***************************************************************************)
Typed ==
    /\ active \in [Sessions -> Turns \cup {None}]
    /\ prepared \in [Sessions -> Scopes \cup {None}]
    /\ IsFiniteSet(Active)

Awaited == Sound(runtime) /\ Typed /\ ActiveIsPending

\* What a step must not take from a session: a turn that is awaited no longer
\* has its receipt, unless the session is over.
Ended ==
    \A s \in Active :
        active'[s] # active[s]
            => active[s] \in Completed(runtime') \/ s \notin DOMAIN runtime'.sessions

LEMMA AwaitedFacts ==
    ASSUME Awaited, NEW s \in Sessions
    PROVE  /\ active[s] \in Turns \cup {None} /\ prepared[s] \in Scopes \cup {None}
           /\ active[s] # None => /\ active[s] \in DOMAIN runtime.pending
                                  /\ runtime.pending[active[s]].session = s
           /\ \A t \in DOMAIN runtime.pending :
                 /\ t \in Turns /\ t # None /\ runtime.pending[t].session \in Sessions
                 /\ runtime.pending[t].session = s <=> t = active[s]
<1>1. /\ active[s] \in Turns \cup {None} /\ prepared[s] \in Scopes \cup {None}
      /\ active[s] # None => /\ active[s] \in DOMAIN runtime.pending
                             /\ runtime.pending[active[s]].session = s
  BY DEF Awaited, Typed, ActiveIsPending, Active
<1>2. ASSUME NEW t \in DOMAIN runtime.pending
      PROVE  /\ t \in Turns /\ t # None /\ runtime.pending[t].session \in Sessions
             /\ runtime.pending[t].session = s <=> t = active[s]
  <2>1. t \in Turns /\ runtime.pending[t] \in PendingTurn
    BY PartialFun DEF Awaited, Sound, Live
  <2>2. t # None /\ runtime.pending[t].session \in Sessions
    BY <2>1, RuntimeAssumption DEF PendingTurn
  <2>3. active[runtime.pending[t].session] = t
    BY DEF Awaited, ActiveIsPending
  <2> QED BY <1>1, <2>1, <2>2, <2>3
<1> QED BY <1>1, <1>2

\* Which sessions await an answer after one of them begins to, or stops.
LEMMA ActiveAfter ==
    ASSUME Typed, NEW s \in Sessions, NEW t, active' = [active EXCEPT ![s] = t]
    PROVE  /\ active'[s] = t
           /\ \A z \in Sessions \ {s} : active'[z] = active[z]
           /\ Active' = IF t = None THEN Active \ {s} ELSE Active \cup {s}
<1>1. active'[s] = t /\ \A z \in Sessions \ {s} : active'[z] = active[z]
  BY DEF Typed
<1> QED BY <1>1 DEF Active

-----------------------------------------------------------------------------
(* What the hooks make of the runtime *)

LEMMA OutcomeType == Unsuccessful \in Outcome /\ IsFiniteSet({}) /\ FALSE \in BOOLEAN
BY FS_EmptySet DEF Unsuccessful, Outcome

\* The turn that was observed last.
Latest(r, t) == Len(r.completed) > 0 /\ r.completed[Len(r.completed)].turn = t

LEMMA LatestIsCompleted ==
    ASSUME NEW r, Sound(r), NEW t, Latest(r, t)
    PROVE  t \in Completed(r)
<1>1. r.completed \in Seq(Receipt)
  BY DEF Sound, ReceiptsKept
<1>2. Len(r.completed) \in DOMAIN r.completed
  BY <1>1 DEF Latest
<1> QED BY <1>2 DEF Latest, Completed, TurnsOf

\* A turn given up leaves the turns in progress and has its receipt; the one
\* given up before it keeps its own.
GivenUp(next, r, t) ==
    /\ next.pending = Without(r.pending, {t})
    /\ t \in DOMAIN r.pending => Latest(next, t)
    /\ \A a : ActiveTurnLimit > 1 /\ Latest(r, a) => a \in Completed(next)

LEMMA ObservedFacts ==
    ASSUME NEW r, Sound(r), NEW t,
           NEW next, next = Observed(r, t)
    PROVE  Sound(next) /\ GivenUp(next, r, t)
<1>1. CASE t \notin DOMAIN r.pending
  <2>1. next = r
    BY <1>1 DEF Observed
  <2>2. Without(r.pending, {t}) = r.pending
    <3>1. r.pending \in Partial(Turns, PendingTurn)
      BY DEF Sound, Live
    <3>2. r.pending = [z \in DOMAIN r.pending |-> r.pending[z]]
      BY <3>1, PartialFun
    <3> QED BY <1>1, <3>2, WithoutIsSame
  <2> QED BY <1>1, <2>1, <2>2, LatestIsCompleted DEF GivenUp
<1>2. CASE t \in DOMAIN r.pending
  <2> DEFINE s == r.pending[t].session
             receipt == ReceiptOf(r, t, Cardinality({}), Failed(r, t, Unsuccessful, FALSE))
  <2>1. next = Observe(r, t, Unsuccessful, {}, FALSE)
    BY <1>2 DEF Observed
  <2>2. Sound(next) /\ ObservedAs(next, r, t, Unsuccessful, receipt)
    BY <1>2, <2>1, OutcomeType, ObserveKeepsSound
  <2>3. receipt.turn = t
    BY DEF ReceiptOf
  <2> HIDE DEF receipt
  <2>4. Room(r) \in Seq(Receipt) /\ Len(Room(r)) \in Nat
    BY RoomFacts
  <2>5. next.pending = Without(r.pending, {t}) /\ next.completed = Append(Room(r), receipt)
    BY <2>2 DEF ObservedAs
  <2>6. receipt \in Receipt
    <3>1. next.completed \in Seq(Receipt)
      BY <2>2 DEF Sound, ReceiptsKept
    <3>2. \E i \in DOMAIN next.completed : next.completed[i] = receipt
      BY <2>4, <2>5
    <3> QED BY <3>1, <3>2
  <2>7. /\ Len(next.completed) = Len(Room(r)) + 1
        /\ next.completed[Len(Room(r)) + 1] = receipt
        /\ \A i \in 1..Len(Room(r)) : next.completed[i] = Room(r)[i]
                                     /\ i \in DOMAIN next.completed
    BY <2>4, <2>5, <2>6
  <2>8. ASSUME NEW a, ActiveTurnLimit > 1, Latest(r, a)
        PROVE  a \in Completed(next)
    <3> DEFINE n == Len(r.completed)
    <3>1. r.completed \in Seq(Receipt) /\ n \in Nat /\ n <= ActiveTurnLimit
          /\ ActiveTurnLimit \in Nat
      BY RuntimeAssumption DEF Sound, ReceiptsKept
    <3>2. \E i \in 1..Len(Room(r)) : Room(r)[i] = r.completed[n]
      <4>1. CASE n < ActiveTurnLimit
        BY <2>8, <3>1, <4>1 DEF Room, Latest
      <4>2. CASE ~(n < ActiveTurnLimit)
        <5>1. Room(r) = Tail(r.completed) /\ n > 1
          BY <2>8, <3>1, <4>2 DEF Room
        <5>2. Len(Room(r)) = n - 1 /\ Room(r)[n - 1] = r.completed[n] /\ n - 1 \in 1..n - 1
          BY <3>1, <5>1
        <5> QED BY <5>2
      <4> QED BY <4>1, <4>2
    <3> QED BY <2>7, <2>8, <3>2 DEF Latest, Completed, TurnsOf
  <2>9. Latest(next, t)
    BY <2>3, <2>4, <2>7 DEF Latest
  <2> QED BY <2>2, <2>5, <2>8, <2>9 DEF GivenUp
<1> QED BY <1>1, <1>2

\* What pre_llm_call begins with: no turn of the session is in progress.
LEMMA RetiredFacts ==
    ASSUME Awaited, NEW s \in Sessions, NEW r, r = Retired(s)
    PROVE  /\ Sound(r)
           /\ \A t : t \in DOMAIN r.pending <=> t \in DOMAIN runtime.pending /\ t # active[s]
           /\ \A t \in DOMAIN r.pending :
                 r.pending[t] = runtime.pending[t] /\ r.pending[t].session # s
           /\ active[s] # None => Latest(r, active[s])
<1>1. \A t \in DOMAIN runtime.pending :
         t # None /\ (runtime.pending[t].session = s <=> t = active[s])
  BY AwaitedFacts
<1>2. CASE active[s] = None
  BY <1>1, <1>2 DEF Retired, Awaited
<1>3. CASE active[s] # None
  <2>1. r = Observed(runtime, active[s]) /\ active[s] \in DOMAIN runtime.pending
    BY <1>3, AwaitedFacts DEF Retired
  <2>2. Sound(r) /\ GivenUp(r, runtime, active[s])
    BY <2>1, ObservedFacts DEF Awaited
  <2> QED BY <1>1, <2>1, <2>2 DEF GivenUp, Without
<1> QED BY <1>2, <1>3

\* A hook that leaves no turn of its session in progress keeps to the awaited.
LEMMA IdleKeeps ==
    ASSUME Awaited, NEW s \in Sessions, Idle(s), Sound(runtime'),
           \A t : t \in DOMAIN runtime'.pending
                    <=> t \in DOMAIN runtime.pending /\ t # active[s],
           \A t \in DOMAIN runtime'.pending : runtime'.pending[t] = runtime.pending[t]
    PROVE  Awaited'
<1>1. Typed /\ ActiveIsPending
  BY DEF Awaited
<1>2. /\ active'[s] = None
      /\ \A z \in Sessions \ {s} : active'[z] = active[z]
      /\ Active' = Active \ {s}
  BY <1>1, ActiveAfter DEF Idle
<1>3. prepared'[s] = None /\ \A z \in Sessions \ {s} : prepared'[z] = prepared[z]
  BY <1>1 DEF Idle, Typed
<1>4. IsFiniteSet(Active') /\ Cardinality(Active') <= MaxActiveSessions
  <2>1. IsFiniteSet(Active) /\ Cardinality(Active) <= MaxActiveSessions
    BY <1>1 DEF Typed, ActiveIsPending
  <2>2. Active' \subseteq Active /\ MaxActiveSessions \in Nat
    BY <1>2, AdapterAssumption
  <2> HIDE DEF Active
  <2> QED BY <2>1, <2>2, NoMore
<1>5. Typed'
  <2>1. active' \in [Sessions -> Turns \cup {None}]
    BY <1>1 DEF Idle, Typed
  <2>2. prepared' \in [Sessions -> Scopes \cup {None}]
    BY <1>1 DEF Idle, Typed
  <2> QED BY <1>4, <2>1, <2>2 DEF Typed
<1>6. \A z \in Sessions : prepared'[z] = None <=> active'[z] = None
  BY <1>1, <1>2, <1>3 DEF ActiveIsPending
<1>7. \A z \in Active' :
         /\ active'[z] \in DOMAIN runtime'.pending
         /\ runtime'.pending[active'[z]].session = z
         /\ runtime'.pending[active'[z]].scope = prepared'[z]
  <2> SUFFICES ASSUME NEW z \in Active'
               PROVE  /\ active'[z] \in DOMAIN runtime'.pending
                      /\ runtime'.pending[active'[z]].session = z
                      /\ runtime'.pending[active'[z]].scope = prepared'[z]
    OBVIOUS
  <2>1. z \in Active /\ z # s /\ z \in Sessions
    BY <1>2 DEF Active
  <2>2. /\ active[z] \in DOMAIN runtime.pending
        /\ runtime.pending[active[z]].session = z
        /\ runtime.pending[active[z]].scope = prepared[z]
    BY <1>1, <2>1 DEF ActiveIsPending
  <2>3. active[z] # active[s]
    BY <2>1, <2>2, AwaitedFacts
  <2> QED BY <1>2, <1>3, <2>1, <2>2, <2>3
<1>8. \A t \in DOMAIN runtime'.pending : active'[runtime'.pending[t].session] = t
  <2> SUFFICES ASSUME NEW t \in DOMAIN runtime'.pending
               PROVE  active'[runtime'.pending[t].session] = t
    OBVIOUS
  <2>1. /\ t \in DOMAIN runtime.pending /\ t # active[s]
        /\ runtime'.pending[t] = runtime.pending[t]
    OBVIOUS
  <2>2. runtime.pending[t].session \in Sessions \ {s}
    BY <2>1, AwaitedFacts
  <2>3. active[runtime.pending[t].session] = t
    BY <1>1, <2>1 DEF ActiveIsPending
  <2> QED BY <1>2, <2>1, <2>2, <2>3
<1> QED BY <1>4, <1>5, <1>6, <1>7, <1>8 DEF Awaited, ActiveIsPending

\* A session whose turn is given up, or was not in progress, ends its turn well.
LEMMA IdleEnds ==
    ASSUME Awaited, NEW s \in Sessions, Idle(s),
           active[s] # None
               => active[s] \in Completed(runtime') \/ s \notin DOMAIN runtime'.sessions
    PROVE  Ended
<1>1. \A z \in Sessions \ {s} : active'[z] = active[z]
  BY ActiveAfter DEF Awaited, Idle
<1> QED BY <1>1 DEF Ended, Active

-----------------------------------------------------------------------------
(* The hooks *)

\* pre_llm_call without a turn: refused, raised, or given up at once.
LEMMA PreIdleKeeps ==
    ASSUME Awaited, NEW s \in Sessions, NEW t \in Turns,
           PreRefused(s, t) \/ PreRaises(s, t) \/ PreOutOfBounds(s, t)
    PROVE  Awaited' /\ (ActiveTurnLimit > 1 => Ended)
<1> DEFINE r == Retired(s)
<1>1. /\ Sound(r)
      /\ \A z : z \in DOMAIN r.pending <=> z \in DOMAIN runtime.pending /\ z # active[s]
      /\ \A z \in DOMAIN r.pending :
            r.pending[z] = runtime.pending[z] /\ r.pending[z].session # s
      /\ active[s] # None => Latest(r, active[s])
  BY RetiredFacts
<1>2. Idle(s)
  BY DEF PreRefused, PreRaises, PreOutOfBounds
<1>3. /\ Sound(runtime')
      /\ \A z : z \in DOMAIN runtime'.pending <=> z \in DOMAIN r.pending
      /\ \A z \in DOMAIN runtime'.pending : runtime'.pending[z] = r.pending[z]
      /\ ActiveTurnLimit > 1 /\ active[s] # None => active[s] \in Completed(runtime')
  <2>1. CASE PreRefused(s, t)
    <3>1. runtime' = r
      BY <2>1 DEF PreRefused
    <3> HIDE DEF r
    <3> QED BY <1>1, <3>1, LatestIsCompleted
  <2>2. CASE PreRaises(s, t)
    <3>1. PICK input \in TurnInputs : runtime' \in {Opened(r, s, input), Selected(r, s, input)}
      BY <2>2 DEF PreRaises
    <3>2. CanPrepare(r, t, s)
      BY <2>2 DEF PreRaises, Begins
    <3> HIDE DEF r
    <3>3. Sound(runtime') /\ RaisedAs(runtime', r, s, PlanOf(r, s, input).scope)
      BY <1>1, <3>1, <3>2, RaisesKeepsSound
    <3>4. runtime'.pending = r.pending /\ runtime'.completed = r.completed
      BY <3>3 DEF RaisedAs
    <3>5. active[s] # None => Latest(runtime', active[s])
      BY <1>1, <3>4 DEF Latest
    <3> QED BY <3>3, <3>4, <3>5, LatestIsCompleted
  <2>3. CASE PreOutOfBounds(s, t)
    <3>1. PICK input \in TurnInputs : runtime' = Observed(Prepare(r, t, s, input), t)
      BY <2>3 DEF PreOutOfBounds, OverAtOnce
    <3> DEFINE mid == Prepare(r, t, s, input)
    <3>2. CanPrepare(r, t, s)
      BY <2>3 DEF PreOutOfBounds, Begins
    <3>3. runtime' = Observed(mid, t)
      BY <3>1
    <3> HIDE DEF r
    <3>4. Sound(mid) /\ PreparedAs(mid, r, t, s, PlanOf(r, s, input))
      BY <1>1, <3>2, PrepareKeepsSound
    <3> HIDE DEF mid
    <3>5. Sound(runtime') /\ GivenUp(runtime', mid, t)
      BY <3>3, <3>4, ObservedFacts
    <3>6. t \notin DOMAIN r.pending
      BY <1>1, <3>2 DEF CanPrepare, Sound, Owned
    <3>7. /\ mid.completed = r.completed
          /\ mid.pending = With(r.pending, t, Begun(s, PlanOf(r, s, input)))
      BY <3>4 DEF PreparedAs
    <3>8. /\ \A z : z \in DOMAIN runtime'.pending <=> z \in DOMAIN r.pending
          /\ \A z \in DOMAIN runtime'.pending : runtime'.pending[z] = r.pending[z]
      BY <3>5, <3>6, <3>7 DEF GivenUp, With, Without
    <3>9. active[s] # None => Latest(mid, active[s])
      BY <1>1, <3>7 DEF Latest
    <3> QED BY <3>5, <3>8, <3>9 DEF GivenUp
  <2> QED BY <2>1, <2>2, <2>3
<1> HIDE DEF r
<1>4. /\ \A z : z \in DOMAIN runtime'.pending
                  <=> z \in DOMAIN runtime.pending /\ z # active[s]
      /\ \A z \in DOMAIN runtime'.pending : runtime'.pending[z] = runtime.pending[z]
  BY <1>1, <1>3
<1>5. Awaited'
  BY <1>2, <1>3, <1>4, IdleKeeps
<1>6. ASSUME ActiveTurnLimit > 1 PROVE Ended
  BY <1>2, <1>3, <1>6, IdleEnds
<1> QED BY <1>5, <1>6

\* post_llm_call: the turn that is awaited has its receipt, or there is none.
LEMMA PostKeeps ==
    ASSUME Awaited, NEW s \in Sessions, NEW t \in Turns, PostLlmCall(s, t)
    PROVE  Awaited' /\ Ended
<1>1. /\ active[s] \in {None, t} /\ Observable(runtime, t, s)
      /\ runtime' = Observed(runtime, t) /\ Idle(s)
  BY DEF PostLlmCall, Awaits
<1>2. Sound(runtime') /\ GivenUp(runtime', runtime, t)
  BY <1>1, ObservedFacts DEF Awaited
<1>3. \A z \in DOMAIN runtime.pending :
         z # None /\ (runtime.pending[z].session = s <=> z = active[s])
  BY AwaitedFacts
<1>4. t \in DOMAIN runtime.pending => t = active[s]
  <2>1. t \in DOMAIN runtime.pending => t \notin Completed(runtime)
    BY DEF Awaited, Sound, Owned, Has, Places, Completed, TurnsOf, ReceiptsKept
  <2> QED BY <1>1, <1>3, <2>1 DEF Observable, CanObserve
<1>5. /\ \A z : z \in DOMAIN runtime'.pending
                  <=> z \in DOMAIN runtime.pending /\ z # active[s]
      /\ \A z \in DOMAIN runtime'.pending : runtime'.pending[z] = runtime.pending[z]
  BY <1>1, <1>2, <1>3, <1>4 DEF GivenUp, Without
<1>6. Awaited'
  BY <1>1, <1>2, <1>5, IdleKeeps
<1>7. active[s] # None => active[s] \in Completed(runtime')
  <2>1. active[s] # None => active[s] = t /\ t \in DOMAIN runtime.pending
    BY <1>1, AwaitedFacts
  <2> QED BY <1>2, <2>1, LatestIsCompleted DEF GivenUp
<1> QED BY <1>1, <1>6, <1>7, IdleEnds

\* on_session_finalize: the session is over.
LEMMA FinalizeKeeps ==
    ASSUME Awaited, NEW s \in Sessions, OnSessionFinalize(s)
    PROVE  Awaited' /\ Ended
<1>1. runtime' = Finalize(runtime, s) /\ Idle(s)
  BY DEF OnSessionFinalize
<1>2. Sound(runtime') /\ FinalizedAs(runtime', runtime, s)
  BY <1>1, FinalizeKeepsSound DEF Awaited
<1>3. \A z \in DOMAIN runtime.pending : runtime.pending[z].session = s <=> z = active[s]
  BY AwaitedFacts
<1>4. /\ \A z : z \in DOMAIN runtime'.pending
                  <=> z \in DOMAIN runtime.pending /\ z # active[s]
      /\ \A z \in DOMAIN runtime'.pending : runtime'.pending[z] = runtime.pending[z]
  BY <1>2, <1>3 DEF FinalizedAs, Without
<1>5. Awaited'
  BY <1>1, <1>2, <1>4, IdleKeeps
<1>6. s \notin DOMAIN runtime'.sessions
  BY <1>2 DEF FinalizedAs, Without
<1> QED BY <1>1, <1>5, <1>6, IdleEnds

\* pre_llm_call with a turn, which is awaited from now on.
LEMMA BeginKeeps ==
    ASSUME Awaited, NEW s \in Sessions, NEW t \in Turns, PrePrepares(s, t)
    PROVE  /\ Awaited' /\ Ended
           /\ prepared'[s] # "default" <=> runtime'.pending[t].scope # "default"
           /\ runtime'.sessions[s].noSave => prepared'[s] = "session"
<1> DEFINE r == Retired(s)
<1>1. /\ Sound(r)
      /\ \A z : z \in DOMAIN r.pending <=> z \in DOMAIN runtime.pending /\ z # active[s]
      /\ \A z \in DOMAIN r.pending :
            r.pending[z] = runtime.pending[z] /\ r.pending[z].session # s
      /\ active[s] # None => Latest(r, active[s])
  BY RetiredFacts
<1>2. /\ CanBegin(s, t) /\ CanPrepare(r, t, s)
      /\ active' = [active EXCEPT ![s] = t]
  BY DEF PrePrepares, Begins
<1>3. PICK input \in TurnInputs :
         /\ runtime' = Prepare(r, t, s, input)
         /\ prepared' = [prepared EXCEPT ![s] = PlanOf(r, s, input).scope]
  BY DEF PrePrepares
<1> HIDE DEF r
<1> DEFINE plan == PlanOf(r, s, input)
           turn == Begun(s, plan)
<1>4. Sound(runtime') /\ PreparedAs(runtime', r, t, s, plan)
  BY <1>1, <1>2, <1>3, PrepareKeepsSound
<1>5. plan.scope \in Scopes
  BY <1>1, PlanGiven DEF PlanType
<1>6. turn.session = s /\ turn.scope = plan.scope
  BY DEF Begun
<1>7. Session(r, s).noSave => plan.scope = "session"
  BY <1>1, NoSaveStays
<1> HIDE DEF plan, turn
<1>8. /\ LeftBy(Session(r, s), Chosen(Session(r, s), plan), plan.scope)
      /\ runtime'.sessions = With(r.sessions, s, Chosen(Session(r, s), plan))
      /\ runtime'.pending = With(r.pending, t, turn)
      /\ runtime'.completed = r.completed
  BY <1>4 DEF PreparedAs, turn
<1>9. /\ Typed /\ ActiveIsPending /\ t # None
      /\ \A z \in Sessions \ {s} : active'[z] = active[z]
      /\ active'[s] = t /\ Active' = Active \cup {s}
  <2>1. t # None
    BY RuntimeAssumption
  <2> QED BY <1>2, <2>1, ActiveAfter DEF Awaited
<1>10. prepared'[s] = plan.scope /\ \A z \in Sessions \ {s} : prepared'[z] = prepared[z]
  BY <1>3, <1>9 DEF Typed, plan
<1>11. /\ DOMAIN runtime'.pending = DOMAIN r.pending \cup {t}
       /\ runtime'.pending[t] = turn
       /\ \A z \in DOMAIN r.pending \ {t} : runtime'.pending[z] = r.pending[z]
       /\ t \notin DOMAIN r.pending
  <2>1. t \notin DOMAIN r.pending
    BY <1>1, <1>2 DEF CanPrepare, Sound, Owned
  <2> QED BY <1>8, <2>1 DEF With
<1>12. IsFiniteSet(Active') /\ Cardinality(Active') <= MaxActiveSessions
  <2>1. IsFiniteSet(Active) /\ Cardinality(Active) <= MaxActiveSessions
        /\ MaxActiveSessions \in Nat
    BY <1>9, AdapterAssumption DEF Typed, ActiveIsPending
  <2>2. s \in Active \/ Cardinality(Active) < MaxActiveSessions
    BY <1>2 DEF CanBegin, Active
  <2> HIDE DEF Active
  <2>3. IsFiniteSet(Active \cup {s}) /\ Cardinality(Active \cup {s}) <= MaxActiveSessions
    BY <2>1, <2>2, OneMore
  <2> QED BY <1>9, <2>3
<1>13. Typed'
  <2>1. active' \in [Sessions -> Turns \cup {None}]
    BY <1>2, <1>9 DEF Typed
  <2>2. prepared' \in [Sessions -> Scopes \cup {None}]
    BY <1>3, <1>5, <1>9 DEF Typed, plan
  <2> QED BY <1>12, <2>1, <2>2 DEF Typed
<1>14. \A z \in Sessions : prepared'[z] = None <=> active'[z] = None
  <2>1. plan.scope # None
    BY <1>5, RuntimeAssumption
  <2> QED BY <1>9, <1>10, <2>1 DEF ActiveIsPending
<1>15. \A z \in Active' :
          /\ active'[z] \in DOMAIN runtime'.pending
          /\ runtime'.pending[active'[z]].session = z
          /\ runtime'.pending[active'[z]].scope = prepared'[z]
  <2> SUFFICES ASSUME NEW z \in Active'
               PROVE  /\ active'[z] \in DOMAIN runtime'.pending
                      /\ runtime'.pending[active'[z]].session = z
                      /\ runtime'.pending[active'[z]].scope = prepared'[z]
    OBVIOUS
  <2>1. CASE z = s
    BY <1>6, <1>9, <1>10, <1>11, <2>1
  <2>2. CASE z # s
    <3>1. z \in Active /\ z \in Sessions
      BY <1>9, <2>2 DEF Active
    <3>2. /\ active[z] \in DOMAIN runtime.pending
          /\ runtime.pending[active[z]].session = z
          /\ runtime.pending[active[z]].scope = prepared[z]
      BY <1>9, <3>1 DEF ActiveIsPending
    <3>3. active[z] # active[s]
      BY <2>2, <3>2, AwaitedFacts
    <3>4. active[z] \in DOMAIN r.pending /\ r.pending[active[z]] = runtime.pending[active[z]]
      BY <1>1, <3>2, <3>3
    <3> QED BY <1>9, <1>10, <1>11, <2>2, <3>1, <3>2, <3>4
  <2> QED BY <2>1, <2>2
<1>16. \A z \in DOMAIN runtime'.pending : active'[runtime'.pending[z].session] = z
  <2> SUFFICES ASSUME NEW z \in DOMAIN runtime'.pending
               PROVE  active'[runtime'.pending[z].session] = z
    OBVIOUS
  <2>1. CASE z = t
    BY <1>6, <1>9, <1>11, <2>1
  <2>2. CASE z # t
    <3>1. z \in DOMAIN r.pending /\ runtime'.pending[z] = r.pending[z]
      BY <1>11, <2>2
    <3>2. /\ z \in DOMAIN runtime.pending /\ runtime'.pending[z] = runtime.pending[z]
          /\ runtime.pending[z].session # s
      BY <1>1, <3>1
    <3>3. runtime.pending[z].session \in Sessions
      BY <3>2, AwaitedFacts
    <3>4. active[runtime.pending[z].session] = z
      BY <1>9, <3>2 DEF ActiveIsPending
    <3> QED BY <1>9, <3>2, <3>3, <3>4
  <2> QED BY <2>1, <2>2
<1>17. Awaited'
  BY <1>4, <1>12, <1>13, <1>14, <1>15, <1>16 DEF Awaited, ActiveIsPending
<1>18. Ended
  <2>1. active[s] # None => active[s] \in Completed(runtime')
    <3>1. active[s] # None => Latest(runtime', active[s])
      BY <1>1, <1>8 DEF Latest
    <3> QED BY <1>4, <3>1, LatestIsCompleted
  <2> QED BY <1>9, <2>1 DEF Ended, Active
<1>19. prepared'[s] # "default" <=> runtime'.pending[t].scope # "default"
  BY <1>6, <1>10, <1>11
<1>20. runtime'.sessions[s].noSave => prepared'[s] = "session"
  <2>1. runtime'.sessions[s] = Chosen(Session(r, s), plan)
    BY <1>8 DEF With
  <2>2. runtime'.sessions[s].noSave <=> Session(r, s).noSave \/ plan.scope = "session"
    BY <1>8, <2>1 DEF LeftBy
  <2> QED BY <1>7, <1>10, <2>2 DEF plan
<1> QED BY <1>17, <1>18, <1>19, <1>20

LEMMA HooksKeep ==
    ASSUME Awaited, Next
    PROVE  Awaited' /\ (ActiveTurnLimit > 1 => Ended)
<1> PICK s \in Sessions :
       \/ \E t \in Turns :
             \/ PreRefused(s, t) \/ PreRaises(s, t)
             \/ PreOutOfBounds(s, t) \/ PrePrepares(s, t)
             \/ PostLlmCall(s, t)
       \/ OnSessionFinalize(s)
  BY DEF Next
<1>1. CASE OnSessionFinalize(s)
  BY <1>1, FinalizeKeeps
<1>2. ASSUME NEW t \in Turns,
             \/ PreRefused(s, t) \/ PreRaises(s, t)
             \/ PreOutOfBounds(s, t) \/ PrePrepares(s, t)
             \/ PostLlmCall(s, t)
      PROVE  Awaited' /\ (ActiveTurnLimit > 1 => Ended)
  BY <1>2, PreIdleKeeps, BeginKeeps, PostKeeps
<1> QED BY <1>1, <1>2

-----------------------------------------------------------------------------
(* The memory *)

\* The records that are stored or were erased.
Known == Store!Ids(db.facts) \cup db.erased

ImageFields ==
    db = [policy |-> db.policy, consumed |-> db.consumed, facts |-> db.facts,
          erased |-> db.erased, replacements |-> db.replacements, modes |-> db.modes]

LEMMA ConsumeKnown ==
    ASSUME ImageFields, NEW stamp, db' = Store!Consume(db, stamp)
    PROVE  ImageFields' /\ Known' = Known
<1> DEFINE policy == [enabled |-> db.policy.enabled, epoch |-> db.policy.epoch,
                      watermark |-> stamp.sequence]
           consumed == [db.consumed EXCEPT ![stamp.event] = stamp.sequence]
<1>1. db' = [db EXCEPT !.consumed = consumed, !.policy = policy]
  BY DEF Store!Consume, ImageFields
<1> HIDE DEF policy, consumed
<1>2. ImageFields' /\ db'.facts = db.facts /\ db'.erased = db.erased
  BY <1>1 DEF ImageFields
<1> QED BY <1>2 DEF Known

LEMMA ConsentKnown ==
    ASSUME ImageFields, NEW enabled, db' = Store!SetConsent(db, enabled)
    PROVE  ImageFields' /\ Known' = Known
<1>1. ImageFields' /\ db'.facts = db.facts /\ db'.erased = db.erased
  BY DEF Store!SetConsent, ImageFields
<1> QED BY <1>1 DEF Known

LEMMA InsertKnown ==
    ASSUME ImageFields, NEW fact, db' = Store!Insert(db, fact)
    PROVE  ImageFields' /\ Known' = Known \cup {fact.id}
<1>1. ImageFields' /\ db'.facts = db.facts \cup {fact} /\ db'.erased = db.erased
  BY DEF Store!Insert, ImageFields
<1> QED BY <1>1 DEF Known, Store!Ids

LEMMA ForgetKnown ==
    ASSUME ImageFields, NEW id, db' = Store!Forget(db, id)
    PROVE  ImageFields' /\ Known \subseteq Known'
<1> DEFINE lineage == Store!Lineage(db, id)
           policy == Store!Revised(db.policy, db.policy.enabled, db.policy.watermark)
           facts == db.facts \ lineage
           erased == db.erased \cup Store!Ids(lineage)
<1>1. db' = [db EXCEPT !.policy = policy, !.facts = facts, !.erased = erased]
  BY DEF Store!Forget
<1> HIDE DEF policy, facts, erased, lineage
<1>2. ImageFields' /\ db'.facts = facts /\ db'.erased = erased
  BY <1>1 DEF ImageFields
<1> QED BY <1>2 DEF Known, Store!Ids, facts, erased

-----------------------------------------------------------------------------
(***************************************************************************)
(* The calls.  What a call answers is true of the memory; the owner's wish *)
(* was seen when its turn began, and a call that saw it captures nothing.  *)
(***************************************************************************)
CallFields(c) ==
    /\ call[c] = [stage |-> call[c].stage, turn |-> call[c].turn,
                  no_save |-> call[c].no_save, epoch |-> call[c].epoch,
                  capture |-> call[c].capture, asked |-> call[c].asked,
                  kept |-> call[c].kept]
    /\ call[c].kept \in BOOLEAN

Answered(c) ==
    /\ call[c].capture = "stored" => call[c].turn \in Known
    /\ call[c].kept => call[c].capture \in {"stored", "storage_unknown"}

Heeded(c) ==
    /\ call[c].asked => call[c].no_save
    /\ call[c].stage \in {"opened", "reserved"}
          => ~call[c].no_save /\ call[c].turn \notin MarkedNoSave

CallsKept ==
    /\ call = [c \in Callers |-> call[c]]
    /\ \A c \in Callers : CallFields(c) /\ Answered(c) /\ Heeded(c)

HostInv == Awaited /\ ImageFields /\ CallsKept

\* What a step must not do: keep a message whose owner asked not to.
KeptWell ==
    \A c \in Callers :
        call'[c].kept /\ ~call[c].kept
            => ~call[c].asked /\ call[c].turn \notin MarkedNoSave

\* One call moves, and it does so well.
LEMMA CallMoves ==
    ASSUME CallsKept, NEW c \in Callers, NEW next, call' = [call EXCEPT ![c] = next],
           Known \subseteq Known',
           (CallFields(c) /\ Answered(c) /\ Heeded(c))',
           next.kept /\ ~call[c].kept
               => ~call[c].asked /\ call[c].turn \notin MarkedNoSave
    PROVE  CallsKept' /\ KeptWell
<1>1. /\ call'[c] = next /\ call' = [d \in Callers |-> call'[d]]
      /\ \A d \in Callers \ {c} : call'[d] = call[d]
  BY DEF CallsKept
<1>2. \A d \in Callers \ {c} : (CallFields(d) /\ Answered(d) /\ Heeded(d))'
  BY <1>1 DEF CallsKept, CallFields, Answered, Heeded
<1> QED BY <1>1, <1>2 DEF CallsKept, KeptWell

\* No call moves.
LEMMA CallsStay ==
    ASSUME CallsKept, call' = call, Known \subseteq Known'
    PROVE  CallsKept' /\ KeptWell
BY DEF CallsKept, CallFields, Answered, Heeded, KeptWell

LEMMA NoCallIs ==
    NoCall = [stage |-> "idle", turn |-> None, no_save |-> FALSE, epoch |-> 0,
              capture |-> "not_configured", asked |-> FALSE, kept |-> FALSE]
BY DEF NoCall

\* A call that answers.
LEMMA EndsWell ==
    ASSUME CallsKept, NEW c \in Callers, NEW status, NEW kept \in BOOLEAN,
           Ends(c, status, kept), Known \subseteq Known',
           status = "stored" => call[c].turn \in Known',
           kept => status \in {"stored", "storage_unknown"} /\ call[c].stage = "reserved"
    PROVE  CallsKept' /\ KeptWell
<1> DEFINE next == [NoCall EXCEPT !.turn = call[c].turn, !.capture = status, !.kept = kept]
<1>1. call' = [call EXCEPT ![c] = next]
  BY DEF Ends
<1>2. next = [stage |-> "idle", turn |-> call[c].turn, no_save |-> FALSE, epoch |-> 0,
              capture |-> status, asked |-> FALSE, kept |-> kept]
  <2> DEFINE turn == call[c].turn
             stored == kept
  <2>1. next = [NoCall EXCEPT !.turn = turn, !.capture = status, !.kept = stored]
    OBVIOUS
  <2> HIDE DEF next, turn, stored
  <2>2. next = [stage |-> "idle", turn |-> turn, no_save |-> FALSE, epoch |-> 0,
                capture |-> status, asked |-> FALSE, kept |-> stored]
    BY <2>1, NoCallIs
  <2> QED BY <2>2 DEF turn, stored
<1> HIDE DEF next
<1>3. call'[c] = next
  BY <1>1 DEF CallsKept
<1>4. CallFields(c)'
  BY <1>2, <1>3 DEF CallFields
<1>5. Answered(c)'
  BY <1>2, <1>3 DEF Answered
<1>6. Heeded(c)'
  BY <1>2, <1>3 DEF Heeded
<1>7. next.kept => ~call[c].asked /\ call[c].turn \notin MarkedNoSave
  <2>1. next.kept = kept
    BY <1>2
  <2> QED BY <2>1 DEF CallsKept, Heeded
<1> QED BY <1>1, <1>4, <1>5, <1>6, <1>7, CallMoves

\* A call that goes on to another stage.
LEMMA GoesOnWell ==
    ASSUME CallsKept, NEW c \in Callers, NEW next, call' = [call EXCEPT ![c] = next],
           Known \subseteq Known',
           next = [stage |-> next.stage, turn |-> call[c].turn,
                   no_save |-> call[c].no_save, epoch |-> next.epoch,
                   capture |-> call[c].capture, asked |-> call[c].asked,
                   kept |-> call[c].kept],
           ~call[c].no_save, call[c].turn \notin MarkedNoSave
    PROVE  CallsKept' /\ KeptWell
<1>1. call'[c] = next /\ CallFields(c) /\ Answered(c) /\ Heeded(c)
  BY DEF CallsKept
<1>2. /\ next.turn = call[c].turn /\ next.no_save = call[c].no_save
      /\ next.capture = call[c].capture /\ next.asked = call[c].asked
      /\ next.kept = call[c].kept
  OBVIOUS
<1>3. CallFields(c)'
  BY <1>1 DEF CallFields
<1>4. Answered(c)'
  BY <1>1, <1>2 DEF Answered
<1>5. Heeded(c)'
  BY <1>1, <1>2 DEF Heeded
<1> QED BY <1>2, <1>3, <1>4, <1>5, CallMoves

LEMMA KeepsKnown ==
    ASSUME ImageFields, NEW c \in Callers, Keeps(c)
    PROVE  ImageFields' /\ Known \subseteq Known' /\ call[c].turn \in Known'
<1>1. PICK r \in Asks(c) : db' = Store!Insert(db, Store!NewFact(db, r))
  BY DEF Keeps
<1>2. Store!NewFact(db, r).id = call[c].turn
  <2>1. r.event = call[c].turn
    BY DEF Asks
  <2> QED BY <2>1 DEF Store!NewFact
<1> QED BY <1>1, <1>2, InsertKnown

LEMMA BeginTurnKeeps ==
    ASSUME HostInv, NEW c \in Callers, NEW t \in Turns, BeginTurn(c, t)
    PROVE  HostInv' /\ KeptWell /\ Ended
<1> DEFINE s == SessionOf[t]
           next == [NoCall EXCEPT !.stage = "prepared", !.turn = t,
                                  !.no_save = prepared'[s] # "default",
                                  !.asked = runtime'.pending[t].scope # "default"
                                            \/ runtime'.sessions[s].noSave]
<1>1. /\ PrePrepares(s, t) /\ call' = [call EXCEPT ![c] = next] /\ db' = db
      /\ s \in Sessions
  BY MessagesAssumption DEF BeginTurn
<1>2. next = [stage |-> "prepared", turn |-> t, no_save |-> prepared'[s] # "default",
              epoch |-> 0, capture |-> "not_configured",
              asked |-> runtime'.pending[t].scope # "default"
                        \/ runtime'.sessions[s].noSave,
              kept |-> FALSE]
  <2> DEFINE saved == prepared'[s] # "default"
             wished == runtime'.pending[t].scope # "default" \/ runtime'.sessions[s].noSave
  <2>1. next = [NoCall EXCEPT !.stage = "prepared", !.turn = t, !.no_save = saved,
                              !.asked = wished]
    OBVIOUS
  <2> HIDE DEF next, saved, wished
  <2>2. next = [stage |-> "prepared", turn |-> t, no_save |-> saved, epoch |-> 0,
                capture |-> "not_configured", asked |-> wished, kept |-> FALSE]
    BY <2>1, NoCallIs
  <2> QED BY <2>2 DEF saved, wished
<1> HIDE DEF s, next
<1>3. /\ Awaited' /\ Ended
      /\ prepared'[s] # "default" <=> runtime'.pending[t].scope # "default"
      /\ runtime'.sessions[s].noSave => prepared'[s] = "session"
  BY <1>1, BeginKeeps DEF HostInv
<1>4. ImageFields' /\ Known' = Known
  BY <1>1 DEF HostInv, ImageFields, Known
<1>5. call'[c] = next
  BY <1>1 DEF HostInv, CallsKept
<1>6. CallFields(c)'
  BY <1>2, <1>5 DEF CallFields
<1>7. Answered(c)'
  BY <1>2, <1>5 DEF Answered
<1>8. Heeded(c)'
  <2>1. /\ next.stage = "prepared"
        /\ next.no_save <=> prepared'[s] # "default"
        /\ next.asked <=> runtime'.pending[t].scope # "default"
                           \/ runtime'.sessions[s].noSave
    BY <1>2
  <2> QED BY <1>3, <1>5, <2>1 DEF Heeded
<1>9. ~next.kept
  BY <1>2
<1>10. CallsKept' /\ KeptWell
  BY <1>1, <1>4, <1>6, <1>7, <1>8, <1>9, CallMoves DEF HostInv
<1> QED BY <1>3, <1>4, <1>10 DEF HostInv

LEMMA CallKeeps ==
    ASSUME HostInv, NEW c \in Callers,
           NoCapture(c) \/ OpenCapture(c) \/ Reserve(c) \/ Keep(c) \/ Refused(c) \/ Raises(c)
    PROVE  HostInv' /\ KeptWell /\ Ended
<1>1. UNCHANGED vars /\ Awaited
  BY DEF HostInv, NoCapture, OpenCapture, Reserve, Keep, Refused, Raises
<1>2. Awaited' /\ Ended
  BY <1>1 DEF vars, Awaited, Typed, ActiveIsPending, Active, Ended
<1>3. CallsKept /\ ImageFields /\ CallFields(c) /\ Heeded(c)
  BY DEF HostInv, CallsKept
<1>4. ASSUME db' = db PROVE ImageFields' /\ Known \subseteq Known'
  BY <1>3, <1>4 DEF ImageFields, Known
<1>5. ASSUME NEW r, db' = Store!Consume(db, Stamp(r))
      PROVE  ImageFields' /\ Known \subseteq Known'
  BY <1>3, <1>5, ConsumeKnown
<1>6. CASE NoCapture(c) \/ Refused(c)
  <2>1. PICK status \in {"not_configured", "refused"} : Ends(c, status, FALSE) /\ db' = db
    BY <1>6 DEF NoCapture, Refused
  <2>2. CallsKept' /\ KeptWell
    BY <1>3, <1>4, <2>1, EndsWell
  <2> QED BY <1>2, <1>4, <2>1, <2>2 DEF HostInv
<1>7. CASE OpenCapture(c)
  <2> DEFINE next == [call[c] EXCEPT !.stage = "opened"]
  <2>1. call' = [call EXCEPT ![c] = next] /\ db' = db
    BY <1>7 DEF OpenCapture, Goto
  <2>2. ~call[c].no_save /\ call[c].turn \notin MarkedNoSave
    BY <1>7 DEF OpenCapture, NoSave
  <2>3. next = [stage |-> next.stage, turn |-> call[c].turn,
                no_save |-> call[c].no_save, epoch |-> next.epoch,
                capture |-> call[c].capture, asked |-> call[c].asked,
                kept |-> call[c].kept]
    BY <1>3 DEF CallFields
  <2> HIDE DEF next
  <2>4. CallsKept' /\ KeptWell
    BY <1>3, <1>4, <2>1, <2>2, <2>3, GoesOnWell
  <2> QED BY <1>2, <1>4, <2>1, <2>4 DEF HostInv
<1>8. CASE Reserve(c)
  <2> DEFINE next == [call[c] EXCEPT !.stage = "reserved", !.epoch = db.policy.epoch]
  <2>1. /\ call[c].stage = "opened"
        /\ call' = [call EXCEPT ![c].stage = "reserved", ![c].epoch = db.policy.epoch]
        /\ \E r \in Asks(c) : db' = Store!Consume(db, Stamp(r))
    BY <1>8 DEF Reserve, At
  <2>2. call' = [call EXCEPT ![c] = next]
    BY <1>3, <2>1 DEF CallsKept
  <2>3. ~call[c].no_save /\ call[c].turn \notin MarkedNoSave
    BY <1>3, <2>1 DEF Heeded
  <2>4. next = [stage |-> next.stage, turn |-> call[c].turn,
                no_save |-> call[c].no_save, epoch |-> next.epoch,
                capture |-> call[c].capture, asked |-> call[c].asked,
                kept |-> call[c].kept]
    <3> DEFINE old == call[c]
               epoch == db.policy.epoch
    <3>1. old = [stage |-> old.stage, turn |-> old.turn, no_save |-> old.no_save,
                 epoch |-> old.epoch, capture |-> old.capture, asked |-> old.asked,
                 kept |-> old.kept]
      BY <1>3 DEF CallFields
    <3>2. next = [old EXCEPT !.stage = "reserved", !.epoch = epoch]
      OBVIOUS
    <3> HIDE DEF old, epoch, next
    <3>3. next = [stage |-> next.stage, turn |-> old.turn, no_save |-> old.no_save,
                  epoch |-> next.epoch, capture |-> old.capture, asked |-> old.asked,
                  kept |-> old.kept]
      BY <3>1, <3>2
    <3> QED BY <3>3 DEF old
  <2> HIDE DEF next
  <2>5. CallsKept' /\ KeptWell
    BY <1>3, <1>5, <2>1, <2>2, <2>3, <2>4, GoesOnWell
  <2> QED BY <1>2, <1>5, <2>1, <2>5 DEF HostInv
<1>9. CASE Keep(c)
  <2>1. call[c].stage = "reserved" /\ Keeps(c) /\ Ends(c, "stored", TRUE)
    BY <1>9 DEF Keep, At
  <2>2. ImageFields' /\ Known \subseteq Known' /\ call[c].turn \in Known'
    BY <1>3, <2>1, KeepsKnown
  <2>3. CallsKept' /\ KeptWell
    BY <1>3, <2>1, <2>2, EndsWell
  <2> QED BY <1>2, <2>2, <2>3 DEF HostInv
<1>10. CASE Raises(c)
  <2>1. \/ db' = db /\ Ends(c, "storage_unknown", FALSE)
        \/ /\ \E r \in Asks(c) : db' = Store!Consume(db, Stamp(r))
           /\ Ends(c, "storage_unknown", FALSE)
        \/ call[c].stage = "reserved" /\ Keeps(c) /\ Ends(c, "storage_unknown", TRUE)
    BY <1>10 DEF Raises, Raised, At
  <2>2. ImageFields' /\ Known \subseteq Known'
    BY <1>3, <1>4, <1>5, <2>1, KeepsKnown
  <2>3. CallsKept' /\ KeptWell
    BY <1>3, <2>1, <2>2, EndsWell
  <2> QED BY <1>2, <2>2, <2>3 DEF HostInv
<1> QED BY <1>6, <1>7, <1>8, <1>9, <1>10

-----------------------------------------------------------------------------
(* The host *)

LEMMA InitHostInv == ASSUME HostInit PROVE HostInv
<1>1. /\ runtime = NewRuntime /\ db = Store!EmptyImage
      /\ active = [s \in Sessions |-> None] /\ prepared = [s \in Sessions |-> None]
      /\ call = [c \in Callers |-> NoCall]
  BY DEF HostInit, Init
<1>2. Sound(runtime) /\ DOMAIN runtime.pending = {}
  BY <1>1, NewRuntimeIsSound DEF NewRuntime
<1>3. Active = {}
  BY <1>1 DEF Active
<1>4. Typed /\ ActiveIsPending
  <2>1. IsFiniteSet({}) /\ Cardinality({}) = 0 /\ 0 <= MaxActiveSessions
    BY FS_EmptySet, AdapterAssumption
  <2> QED BY <1>1, <1>2, <1>3, <2>1 DEF Typed, ActiveIsPending
<1>5. ImageFields
  BY <1>1 DEF ImageFields, Store!EmptyImage
<1>6. CallsKept
  <2> SUFFICES ASSUME NEW c \in Callers PROVE CallFields(c) /\ Answered(c) /\ Heeded(c)
    BY <1>1 DEF CallsKept
  <2>1. call[c] = [stage |-> "idle", turn |-> None, no_save |-> FALSE, epoch |-> 0,
                   capture |-> "not_configured", asked |-> FALSE, kept |-> FALSE]
    BY <1>1, NoCallIs
  <2> QED BY <2>1 DEF CallFields, Answered, Heeded
<1> QED BY <1>2, <1>4, <1>5, <1>6 DEF HostInv, Awaited

\* The adapter, its runtime and the calls after the host is started again.
LEMMA RestartKeeps ==
    ASSUME HostInv, Restart
    PROVE  HostInv' /\ KeptWell /\ Ended
<1>1. /\ runtime' = NewRuntime /\ db' = db
      /\ active' = [s \in Sessions |-> None] /\ prepared' = [s \in Sessions |-> None]
      /\ call' = [c \in Callers |-> NoCall]
  BY DEF Restart
<1>2. Sound(runtime') /\ DOMAIN runtime'.pending = {} /\ DOMAIN runtime'.sessions = {}
  BY <1>1, NewRuntimeIsSound DEF NewRuntime
<1>3. Active' = {}
  BY <1>1 DEF Active
<1>4. (Typed /\ ActiveIsPending)'
  <2>1. IsFiniteSet({}) /\ Cardinality({}) = 0 /\ 0 <= MaxActiveSessions
    BY FS_EmptySet, AdapterAssumption
  <2> QED BY <1>1, <1>2, <1>3, <2>1 DEF Typed, ActiveIsPending
<1>5. ImageFields'
  BY <1>1 DEF HostInv, ImageFields
<1>6. \A c \in Callers :
         call'[c] = [stage |-> "idle", turn |-> None, no_save |-> FALSE, epoch |-> 0,
                     capture |-> "not_configured", asked |-> FALSE, kept |-> FALSE]
  BY <1>1, NoCallIs
<1>7. CallsKept' /\ KeptWell
  <2>1. \A c \in Callers : (CallFields(c) /\ Answered(c) /\ Heeded(c))'
    <3> SUFFICES ASSUME NEW c \in Callers PROVE (CallFields(c) /\ Answered(c) /\ Heeded(c))'
      OBVIOUS
    <3>1. call'[c] = [stage |-> "idle", turn |-> None, no_save |-> FALSE, epoch |-> 0,
                      capture |-> "not_configured", asked |-> FALSE, kept |-> FALSE]
      BY <1>6
    <3>2. CallFields(c)'
      BY <3>1 DEF CallFields
    <3>3. Answered(c)'
      BY <3>1 DEF Answered
    <3>4. Heeded(c)'
      BY <3>1 DEF Heeded
    <3> QED BY <3>2, <3>3, <3>4
  <2>2. call' = [c \in Callers |-> call'[c]]
    BY <1>1
  <2>3. \A c \in Callers : ~call'[c].kept
    BY <1>6
  <2> QED BY <2>1, <2>2, <2>3 DEF CallsKept, KeptWell
<1>8. Ended
  BY <1>2 DEF Ended
<1> QED BY <1>2, <1>4, <1>5, <1>7, <1>8 DEF HostInv, Awaited

LEMMA HostKeeps ==
    ASSUME HostInv, [HostNext]_hostVars
    PROVE  HostInv' /\ KeptWell /\ (ActiveTurnLimit > 1 => Ended)
<1>1. CASE UNCHANGED hostVars
  <2>1. UNCHANGED vars /\ db' = db /\ call' = call
    BY <1>1 DEF hostVars
  <2>2. Awaited' /\ Ended
    BY <2>1 DEF HostInv, vars, Awaited, Typed, ActiveIsPending, Active, Ended
  <2>3. ImageFields' /\ Known' = Known
    BY <2>1 DEF HostInv, ImageFields, Known
  <2>4. CallsKept' /\ KeptWell
    BY <2>1, <2>3, CallsStay DEF HostInv
  <2> QED BY <2>2, <2>3, <2>4 DEF HostInv
<1>2. CASE Hook
  <2>1. Next /\ db' = db /\ call' = call
    BY <1>2 DEF Hook
  <2>2. Awaited' /\ (ActiveTurnLimit > 1 => Ended)
    BY <2>1, HooksKeep DEF HostInv
  <2>3. ImageFields' /\ Known' = Known
    BY <2>1 DEF HostInv, ImageFields, Known
  <2>4. CallsKept' /\ KeptWell
    BY <2>1, <2>3, CallsStay DEF HostInv
  <2> QED BY <2>2, <2>3, <2>4 DEF HostInv
<1>3. ASSUME NEW c \in Callers,
             \/ \E t \in Turns : BeginTurn(c, t)
             \/ NoCapture(c) \/ OpenCapture(c) \/ Reserve(c) \/ Keep(c)
             \/ Refused(c) \/ Raises(c)
      PROVE  HostInv' /\ KeptWell /\ Ended
  BY <1>3, BeginTurnKeeps, CallKeeps
<1>4. ASSUME UNCHANGED <<vars, call>>, ImageFields', Known \subseteq Known'
      PROVE  HostInv' /\ KeptWell /\ Ended
  <2>1. Awaited' /\ Ended
    BY <1>4 DEF HostInv, vars, Awaited, Typed, ActiveIsPending, Active, Ended
  <2>2. CallsKept' /\ KeptWell
    BY <1>4, CallsStay DEF HostInv
  <2> QED BY <1>4, <2>1, <2>2 DEF HostInv
<1>5. CASE \E enabled \in BOOLEAN : OwnerSetsConsent(enabled)
  <2>1. PICK enabled \in BOOLEAN :
           db' = Store!SetConsent(db, enabled) /\ UNCHANGED <<vars, call>>
    BY <1>5 DEF OwnerSetsConsent
  <2> QED BY <1>4, <2>1, ConsentKnown DEF HostInv
<1>6. CASE \E id \in Turns : OwnerForgets(id)
  <2>1. PICK id \in Turns : db' = Store!Forget(db, id) /\ UNCHANGED <<vars, call>>
    BY <1>6 DEF OwnerForgets
  <2> QED BY <1>4, <2>1, ForgetKnown DEF HostInv
<1>7. CASE Restart
  BY <1>7, RestartKeeps
<1> QED BY <1>1, <1>2, <1>3, <1>5, <1>6, <1>7 DEF HostNext

\* The invariant the properties below rest on.
THEOREM HostInvHolds == HostSpec => []HostInv
<1>1. HostInit => HostInv
  BY InitHostInv
<1>2. HostInv /\ [HostNext]_hostVars => HostInv'
  BY HostKeeps
<1> QED BY <1>1, <1>2, PTL DEF HostSpec

\* The adapter awaits exactly the turns its runtime has in progress.
THEOREM ActiveIsAlwaysPending == HostSpec => []ActiveIsPending
<1>1. HostInv => ActiveIsPending
  BY DEF HostInv, Awaited
<1> QED BY <1>1, HostInvHolds, PTL

\* What a call answers about its message is what became of it.
THEOREM CapturesAreHonest == HostSpec => []CaptureHonest
<1>1. HostInv => CaptureHonest
  BY DEF HostInv, CallsKept, Answered, Known, CaptureHonest
<1> QED BY <1>1, HostInvHolds, PTL

\* A message is kept only if its owner had not asked otherwise when its turn began.
THEOREM NoSaveTurnsAreNotKept == HostSpec => NoSaveTurnsNotKept
<1>1. HostInv /\ [HostNext]_hostVars => [KeptWell]_hostVars
  BY HostKeeps
<1>2. [KeptWell]_hostVars
         => [\A c \in Callers :
               call'[c].kept /\ ~call[c].kept
                   => ~call[c].asked /\ call[c].turn \notin MarkedNoSave]_hostVars
  BY DEF KeptWell
<1>3. HostSpec => [][KeptWell]_hostVars
  BY <1>1, HostInvHolds, PTL DEF HostSpec
<1> QED BY <1>2, <1>3, PTL DEF NoSaveTurnsNotKept

(***************************************************************************)
(* A turn that is awaited no longer has its receipt, or its session is     *)
(* over, when the runtime keeps the receipts of two turns or more.  Where  *)
(* it keeps one only, a turn whose context does not fit takes the place of *)
(* the one it retired within the same hook.                                *)
(***************************************************************************)
THEOREM TurnsEndWithReceipt ==
    ASSUME ActiveTurnLimit > 1
    PROVE  HostSpec => EndsWithReceipt
<1>1. HostInv /\ [HostNext]_hostVars => [Ended]_hostVars
  BY HostKeeps
<1>2. HostSpec => [][Ended]_hostVars
  BY <1>1, HostInvHolds, PTL DEF HostSpec
<1>3. [Ended]_hostVars
         => [\A s \in Active :
                active'[s] # active[s]
                    => active[s] \in Completed(runtime') \/ s \notin DOMAIN runtime'.sessions]_vars
  BY DEF Ended, hostVars
<1> QED BY <1>2, <1>3, PTL DEF EndsWithReceipt
=============================================================================
