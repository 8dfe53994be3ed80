---------------------------- MODULE RuntimeProofs ----------------------------
(***************************************************************************)
(* What a runtime keeps to whatever its hosts do and in whatever order:    *)
(* its books and receipts, its contexts, its due re-anchors, the sessions  *)
(* told not to save, and the drift evidence it counts.                     *)
(***************************************************************************)
EXTENDS Runtime, RuntimeStateProofs

-----------------------------------------------------------------------------
(* The inductive invariant *)

\* A session that was told not to save remembers it.
FencesRemembered ==
    \A s \in fenced : s \in DOMAIN runtime.sessions /\ runtime.sessions[s].noSave

\* The probes since the last re-anchor and what is left of its cooldown.
CooldownCounted ==
    /\ hasty = {}
    /\ sinceAnchor \in [Sessions -> 0..CooldownTurns]
    /\ \A s \in Sessions :
          sinceAnchor[s] = CooldownTurns - Session(runtime, s).drift.cooldown

\* The plan of a turn in progress.
PlansRemembered == \A t \in DOMAIN runtime.pending : PlanKept(runtime.pending[t])

Inv ==
    /\ Sound(runtime) /\ memory \subseteq Record
    /\ PlansRemembered /\ FencesRemembered /\ CooldownCounted

\* Every receipt was one before, or is that of a turn that was in progress.
Carried ==
    \A i \in DOMAIN runtime'.completed :
       \/ runtime'.completed[i].turn \in DOMAIN runtime.pending
       \/ \E j \in Places(runtime) : runtime'.completed[i] = runtime.completed[j]

LEMMA CarriedOver ==
    ASSUME Inv, runtime'.completed = runtime.completed
    PROVE  Carried
<1>1. DOMAIN runtime.completed = Places(runtime)
  BY DEF Inv, Sound, ReceiptsKept, Places
<1> QED BY <1>1 DEF Carried

-----------------------------------------------------------------------------
(* prepare *)

\* Whatever prepare leaves of a session, the fences and the probes counted
\* are kept.
LEMMA PreparingKeeps ==
    ASSUME Inv, NEW s \in Sessions, NEW input \in TurnInputs, NEW state,
           LeftBy(Session(runtime, s), state, PlanOf(runtime, s, input).scope),
           runtime'.sessions = With(runtime.sessions, s, state),
           Fence(s, input), UNCHANGED <<sinceAnchor, hasty>>
    PROVE  FencesRemembered' /\ CooldownCounted'
<1> DEFINE before == runtime.sessions
           after == runtime'.sessions
<1>1. /\ state.drift = Session(runtime, s).drift
      /\ state.noSave <=> Session(runtime, s).noSave
                              \/ PlanOf(runtime, s, input).scope = "session"
  BY DEF LeftBy
<1>2. /\ DOMAIN after = DOMAIN before \cup {s}
      /\ after[s] = state
      /\ \A z \in DOMAIN before \ {s} : after[z] = before[z]
  BY DEF With
<1>3. FencesRemembered'
  <2> SUFFICES ASSUME NEW z \in fenced'
               PROVE  z \in DOMAIN after /\ after[z].noSave
    BY DEF FencesRemembered
  <2>1. CASE z = s
    <3>1. state.noSave
      BY <1>1, <2>1 DEF Fence, Inv, FencesRemembered, Session
    <3> QED BY <1>2, <2>1, <3>1
  <2>2. CASE z # s
    BY <1>2, <2>2 DEF Fence, Inv, FencesRemembered
  <2> QED BY <2>1, <2>2
<1>4. CooldownCounted'
  <2>1. \A z \in Sessions : Session(runtime, z)'.drift = Session(runtime, z).drift
    BY <1>1, <1>2 DEF Session
  <2> QED BY <2>1 DEF CooldownCounted, Inv
<1> QED BY <1>3, <1>4

LEMMA PrepareRaisesKeeps ==
    ASSUME Inv, NEW t \in Turns, NEW s \in Sessions, PrepareRaises(t, s)
    PROVE  /\ Inv'
           /\ runtime'.completed = runtime.completed
           /\ runtime'.pending = runtime.pending /\ memory' = memory
<1>1. PICK input \in TurnInputs :
         /\ CanPrepare(runtime, t, s)
         /\ runtime' \in {Opened(runtime, s, input), Selected(runtime, s, input)}
         /\ Fence(s, input)
         /\ UNCHANGED <<memory, sinceAnchor, hasty>>
  BY DEF PrepareRaises
<1> PICK scope : scope = PlanOf(runtime, s, input).scope
  OBVIOUS
<1>2. Sound(runtime') /\ RaisedAs(runtime', runtime, s, scope)
  BY <1>1, RaisesKeepsSound DEF Inv
<1>3. PICK state : /\ LeftBy(Session(runtime, s), state, scope)
                   /\ runtime'.sessions = With(runtime.sessions, s, state)
  BY <1>2 DEF RaisedAs
<1>4. FencesRemembered' /\ CooldownCounted'
  BY <1>1, <1>3, PreparingKeeps
<1>5. runtime'.pending = runtime.pending /\ runtime'.completed = runtime.completed
  BY <1>2 DEF RaisedAs
<1> QED BY <1>1, <1>2, <1>4, <1>5 DEF Inv, PlansRemembered

LEMMA PrepareTurnKeeps ==
    ASSUME Inv, NEW t \in Turns, NEW s \in Sessions, PrepareTurn(t, s)
    PROVE  /\ Inv'
           /\ memory' = memory
           /\ runtime'.completed = runtime.completed
           /\ t \in NewTurns
           /\ \E input \in TurnInputs :
                 PreparedAs(runtime', runtime, t, s, PlanOf(runtime, s, input))
<1>1. PICK input \in TurnInputs :
         /\ CanPrepare(runtime, t, s)
         /\ runtime' = Prepare(runtime, t, s, input)
         /\ Fence(s, input)
         /\ UNCHANGED <<memory, sinceAnchor, hasty>>
  BY DEF PrepareTurn
<1> PICK plan : plan = PlanOf(runtime, s, input)
  OBVIOUS
<1> PICK chosen : chosen = Chosen(Session(runtime, s), plan)
  OBVIOUS
<1> DEFINE turn == Begun(s, plan)
<1>2. Sound(runtime') /\ PreparedAs(runtime', runtime, t, s, plan)
  BY <1>1, PrepareKeepsSound DEF Inv
<1>3. /\ LeftBy(Session(runtime, s), chosen, plan.scope)
      /\ runtime'.sessions = With(runtime.sessions, s, chosen)
      /\ runtime'.pending = With(runtime.pending, t, turn)
      /\ runtime'.completed = runtime.completed
  BY <1>2 DEF PreparedAs
<1>4. FencesRemembered' /\ CooldownCounted'
  BY <1>1, <1>3, PreparingKeeps
<1>5. PlanKept(turn)
  <2>1. PlanKept(plan)
    BY PlanGiven DEF Inv
  <2> QED BY <2>1 DEF PlanKept, Begun
<1> HIDE DEF turn
<1>6. /\ DOMAIN runtime'.pending = DOMAIN runtime.pending \cup {t}
      /\ runtime'.pending[t] = turn
      /\ \A z \in DOMAIN runtime.pending \ {t} : runtime'.pending[z] = runtime.pending[z]
  BY <1>3 DEF With
<1>7. PlansRemembered'
  BY <1>5, <1>6 DEF Inv, PlansRemembered
<1>8. t \in NewTurns
  BY <1>1, <1>6 DEF CanPrepare, NewTurns
<1>9. Inv'
  BY <1>1, <1>2, <1>4, <1>7 DEF Inv
<1> QED BY <1>1, <1>2, <1>3, <1>8, <1>9

-----------------------------------------------------------------------------
(* observe *)

\* A turn is observed: the records the memory raised for, those of them it
\* kept, and what the runtime becomes.
Reported(t, outcome, lost, landed) ==
    LET written == Writes(runtime, t, outcome)
        counted == (written \ lost) \ memory
    IN /\ lost \subseteq written /\ landed \subseteq lost
       /\ memory' = memory \cup (written \ lost) \cup landed
       /\ ObservedAs(runtime', runtime, t, outcome,
                     ReceiptOf(runtime, t, Cardinality(counted),
                               Failed(runtime, t, outcome, lost # {})))

\* Every probe of a session is counted, and none asks too early.
Counted(s, outcome) ==
    LET asks == outcome.probe \in Probes
                /\ Anchors(runtime.sessions[s].drift, outcome.probe)
    IN /\ sinceAnchor' = [sinceAnchor EXCEPT ![s] =
             IF asks THEN 0
             ELSE IF outcome.probe \in Probes /\ @ < CooldownTurns THEN @ + 1 ELSE @]
       /\ hasty' = IF asks /\ sinceAnchor[s] < CooldownTurns
                   THEN hasty \cup {s} ELSE hasty

LEMMA ReportedTurn ==
    ASSUME Inv, NEW t \in Turns, NEW s \in Sessions, ObserveTurn(t, s)
    PROVE  /\ Sound(runtime') /\ memory' \subseteq Record /\ UNCHANGED fenced
           /\ t \in DOMAIN runtime.pending /\ runtime.pending[t].session = s
           /\ s \in DOMAIN runtime.sessions
           /\ \E outcome \in Outcomes : \E lost, landed :
                 Counted(s, outcome) /\ Reported(t, outcome, lost, landed)
<1>1. PICK outcome \in Outcomes :
         /\ CanObserve(runtime, t, s)
         /\ \E lost \in SUBSET Writes(runtime, t, outcome) : \E landed \in SUBSET lost :
               /\ runtime' = Observe(runtime, t, outcome,
                                     (Writes(runtime, t, outcome) \ lost) \ memory, lost # {})
               /\ memory' = memory \cup (Writes(runtime, t, outcome) \ lost) \cup landed
         /\ Counted(s, outcome) /\ UNCHANGED fenced
  BY DEF ObserveTurn, Counted
<1> PICK written : written = Writes(runtime, t, outcome)
  OBVIOUS
<1>2. PICK lost \in SUBSET written : \E landed \in SUBSET lost :
         /\ runtime' = Observe(runtime, t, outcome, (written \ lost) \ memory, lost # {})
         /\ memory' = memory \cup (written \ lost) \cup landed
  BY <1>1
<1>3. PICK landed \in SUBSET lost :
         /\ runtime' = Observe(runtime, t, outcome, (written \ lost) \ memory, lost # {})
         /\ memory' = memory \cup (written \ lost) \cup landed
  BY <1>2
<1>4. /\ t \in DOMAIN runtime.pending /\ runtime.pending[t].session = s
      /\ s \in DOMAIN runtime.sessions
  BY <1>1 DEF CanObserve, Inv, Sound, Live
<1>5. written \subseteq outcome.records /\ IsFiniteSet(outcome.records)
      /\ outcome.records \subseteq Record /\ outcome \in Outcome
  BY OutcomesAssumption DEF Writes, Outcome
<1> PICK counted : counted = (written \ lost) \ memory
  OBVIOUS
<1> PICK raised \in BOOLEAN : raised = (lost # {})
  OBVIOUS
<1>6. IsFiniteSet(counted)
  <2>1. counted \subseteq outcome.records
    BY <1>5
  <2> QED BY <1>5, <2>1, FS_Subset
<1>7. runtime' = Observe(runtime, t, outcome, counted, raised)
  BY <1>3
<1>8. /\ Sound(runtime')
      /\ ObservedAs(runtime', runtime, t, outcome,
                    ReceiptOf(runtime, t, Cardinality(counted),
                              Failed(runtime, t, outcome, raised)))
  BY <1>4, <1>5, <1>6, <1>7, ObserveKeepsSound DEF Inv
<1>9. memory' \subseteq Record
  BY <1>3, <1>5 DEF Inv
<1>10. Reported(t, outcome, lost, landed)
  BY <1>3, <1>8 DEF Reported
<1> QED BY <1>1, <1>4, <1>8, <1>9, <1>10

\* What an observed turn's session becomes, and that the other ones are kept.
LEMMA ReportedSession ==
    ASSUME Inv, NEW t, t \in DOMAIN runtime.pending, NEW outcome \in Outcomes,
           NEW s, s = runtime.pending[t].session, s \in DOMAIN runtime.sessions,
           NEW lost, NEW landed, Reported(t, outcome, lost, landed)
    PROVE  LET before == runtime.sessions[s]
               after == runtime'.sessions[s]
               probe == outcome.probe
           IN /\ DOMAIN runtime'.sessions = DOMAIN runtime.sessions
              /\ \A z \in DOMAIN runtime.sessions \ {s} :
                    runtime'.sessions[z] = runtime.sessions[z]
              /\ before \in SessionState /\ Sane(before.drift)
              /\ after.noSave = before.noSave
              /\ before.reanchor => after.reanchor
              /\ probe \in Probes => after.drift = Evaluate(before.drift, probe)
              /\ probe \notin Probes => after.drift = before.drift
<1> PICK before : before = runtime.sessions[s]
  OBVIOUS
<1> PICK left : left = Left(before, outcome)
  OBVIOUS
<1>1. runtime'.sessions = [runtime.sessions EXCEPT ![s] = left]
  BY DEF Reported, ObservedAs
<1>2. before \in SessionState /\ Sane(before.drift) /\ Len(before.discourse) <= DiscourseLimit
  BY SessionKept DEF Inv, Session
<1>3. outcome \in Outcome
  BY OutcomesAssumption
<1>4. /\ left.noSave = before.noSave
      /\ before.reanchor => left.reanchor
      /\ outcome.probe \in Probes => left.drift = Evaluate(before.drift, outcome.probe)
      /\ outcome.probe \notin Probes => left.drift = before.drift
  BY <1>2, <1>3, LeftKept
<1>5. /\ DOMAIN runtime'.sessions = DOMAIN runtime.sessions
      /\ runtime'.sessions[s] = left
      /\ \A z \in DOMAIN runtime.sessions \ {s} : runtime'.sessions[z] = runtime.sessions[z]
  BY <1>1
<1> QED BY <1>2, <1>4, <1>5

\* The count goes on as the cooldown does.
LEMMA CooldownKept ==
    ASSUME Inv, NEW s \in Sessions, s \in DOMAIN runtime.sessions, NEW outcome, NEW probe,
           probe = outcome.probe, Counted(s, outcome), NEW before, NEW after,
           before = runtime.sessions[s], after = runtime'.sessions[s], Sane(before.drift),
           probe \in Probes => after.drift = Evaluate(before.drift, probe),
           probe \notin Probes => after.drift = before.drift,
           DOMAIN runtime'.sessions = DOMAIN runtime.sessions,
           \A z \in DOMAIN runtime.sessions \ {s} : runtime'.sessions[z] = runtime.sessions[z]
    PROVE  CooldownCounted'
<1> PICK asks \in BOOLEAN : asks = (probe \in Probes /\ Anchors(before.drift, probe))
  OBVIOUS
<1>1. /\ sinceAnchor' = [sinceAnchor EXCEPT ![s] =
            IF asks THEN 0
            ELSE IF probe \in Probes /\ @ < CooldownTurns THEN @ + 1 ELSE @]
      /\ hasty' = IF asks /\ sinceAnchor[s] < CooldownTurns
                  THEN hasty \cup {s} ELSE hasty
  BY DEF Counted
<1>2. /\ asks => Anchors(before.drift, probe) /\ probe \in Probes
      /\ probe \in Probes =>
            /\ after.drift.cooldown =
                  IF asks THEN CooldownTurns ELSE CooledDown(before.drift)
            /\ asks => before.drift.cooldown = 0
  BY EvaluateSane
<1>3. sinceAnchor[s] = CooldownTurns - before.drift.cooldown
  BY DEF Inv, CooldownCounted, Session
<1>4. before.drift.cooldown \in 0..CooldownTurns /\ CooldownTurns \in 0..64
  BY SentinelAssumption DEF Sane, Sentinel
<1>5. hasty' = {}
  <2>1. ~(asks /\ sinceAnchor[s] < CooldownTurns)
    BY <1>2, <1>3, <1>4
  <2> QED BY <1>1, <2>1 DEF Inv, CooldownCounted
<1> PICK count : count = IF asks THEN 0
                         ELSE IF probe \in Probes /\ sinceAnchor[s] < CooldownTurns
                              THEN sinceAnchor[s] + 1 ELSE sinceAnchor[s]
  OBVIOUS
<1>6. sinceAnchor' = [sinceAnchor EXCEPT ![s] = count]
  BY <1>1
<1>7. count \in 0..CooldownTurns /\ count = CooldownTurns - after.drift.cooldown
  <2>1. CASE asks
    BY <1>2, <1>4, <2>1
  <2>2. CASE ~asks /\ probe \in Probes
    <3>1. after.drift.cooldown = CooledDown(before.drift)
      BY <1>2, <2>2
    <3> QED BY <1>3, <1>4, <2>2, <3>1 DEF CooledDown, CoolingDown
  <2>3. CASE probe \notin Probes
    BY <1>2, <1>3, <1>4, <2>3
  <2> QED BY <2>1, <2>2, <2>3
<1>8. sinceAnchor' \in [Sessions -> 0..CooldownTurns]
  BY <1>6, <1>7 DEF Inv, CooldownCounted
<1>9. \A z \in Sessions :
         sinceAnchor'[z] = CooldownTurns - Session(runtime, z)'.drift.cooldown
  <2> SUFFICES ASSUME NEW z \in Sessions
               PROVE  sinceAnchor'[z] = CooldownTurns - Session(runtime, z)'.drift.cooldown
    OBVIOUS
  <2>1. CASE z = s
    BY <1>6, <1>7, <2>1 DEF Inv, CooldownCounted, Session
  <2>2. CASE z # s
    <3>1. Session(runtime, z)' = Session(runtime, z)
      BY <2>2 DEF Session
    <3> QED BY <1>6, <2>2, <3>1 DEF Inv, CooldownCounted
  <2> QED BY <2>1, <2>2
<1> QED BY <1>5, <1>8, <1>9 DEF CooldownCounted

LEMMA ObserveTurnKeeps ==
    ASSUME Inv, NEW t \in Turns, NEW s \in Sessions, ObserveTurn(t, s)
    PROVE  /\ Inv' /\ Carried
           /\ \A z \in DOMAIN runtime.sessions :
                 runtime.sessions[z].reanchor => runtime'.sessions[z].reanchor
           /\ \A record \in memory' \ memory : record.session \notin fenced
<1>1. /\ Sound(runtime') /\ memory' \subseteq Record /\ fenced' = fenced
      /\ t \in DOMAIN runtime.pending /\ runtime.pending[t].session = s
      /\ s \in DOMAIN runtime.sessions
      /\ \E outcome \in Outcomes : \E lost, landed :
            Counted(s, outcome) /\ Reported(t, outcome, lost, landed)
  BY ReportedTurn
<1>2. PICK outcome \in Outcomes : \E lost, landed :
         Counted(s, outcome) /\ Reported(t, outcome, lost, landed)
  BY <1>1
<1>3. PICK lost, landed : Counted(s, outcome) /\ Reported(t, outcome, lost, landed)
  BY <1>2
<1> PICK before, after, probe :
       before = runtime.sessions[s] /\ after = runtime'.sessions[s] /\ probe = outcome.probe
  OBVIOUS
<1>4. /\ DOMAIN runtime'.sessions = DOMAIN runtime.sessions
      /\ \A z \in DOMAIN runtime.sessions \ {s} : runtime'.sessions[z] = runtime.sessions[z]
      /\ Sane(before.drift)
      /\ after.noSave = before.noSave
      /\ before.reanchor => after.reanchor
      /\ probe \in Probes => after.drift = Evaluate(before.drift, probe)
      /\ probe \notin Probes => after.drift = before.drift
  BY <1>1, <1>3, ReportedSession
<1>5. CooldownCounted'
  BY <1>1, <1>3, <1>4, CooldownKept
<1>6. FencesRemembered'
  BY <1>1, <1>4 DEF Inv, FencesRemembered
<1>7. PlansRemembered'
  <2>1. runtime'.pending = Without(runtime.pending, {t})
    BY <1>3 DEF Reported, ObservedAs
  <2> QED BY <2>1 DEF Without, Inv, PlansRemembered
<1>8. Carried
  <2> PICK receipt : receipt = ReceiptOf(runtime, t,
            Cardinality((Writes(runtime, t, outcome) \ lost) \ memory),
            Failed(runtime, t, outcome, lost # {}))
    OBVIOUS
  <2>1. receipt.turn = t
    BY DEF ReceiptOf
  <2>2. \A i \in DOMAIN runtime'.completed :
           \/ runtime'.completed[i] = receipt
           \/ \E j \in Places(runtime) : runtime'.completed[i] = runtime.completed[j]
    BY <1>3 DEF Reported, ObservedAs
  <2> QED BY <1>1, <2>1, <2>2 DEF Carried
<1>9. \A record \in memory' \ memory : record.session \notin fenced
  <2> SUFFICES ASSUME NEW record \in Writes(runtime, t, outcome)
               PROVE  record.session \notin fenced
    BY <1>3 DEF Reported
  <2>1. MayWrite(runtime, t, outcome) /\ Belong(Writes(runtime, t, outcome), s)
    BY <1>1 DEF Writes
  <2>2. ~runtime.sessions[s].noSave /\ record.session = s
    BY <1>1, <2>1 DEF MayWrite, Belong
  <2> QED BY <2>2 DEF Inv, FencesRemembered
<1> QED BY <1>1, <1>4, <1>5, <1>6, <1>7, <1>8, <1>9 DEF Inv

-----------------------------------------------------------------------------
(* finalize *)

LEMMA FinalizeSessionKeeps ==
    ASSUME Inv, NEW s \in Sessions, FinalizeSession(s)
    PROVE  /\ Inv'
           /\ memory' = memory
           /\ \A z \in DOMAIN runtime'.sessions :
                 z \in DOMAIN runtime.sessions
                 /\ runtime'.sessions[z] = runtime.sessions[z]
           /\ \A i \in DOMAIN runtime'.completed :
                 \E j \in Places(runtime) : runtime'.completed[i] = runtime.completed[j]
<1>1. Sound(runtime') /\ FinalizedAs(runtime', runtime, s)
  BY FinalizeKeepsSound DEF Inv, FinalizeSession
<1>2. /\ DOMAIN runtime'.sessions = DOMAIN runtime.sessions \ {s}
      /\ \A z \in DOMAIN runtime'.sessions : runtime'.sessions[z] = runtime.sessions[z]
  BY <1>1 DEF FinalizedAs, Without
<1>3. PlansRemembered'
  BY <1>1 DEF FinalizedAs, Without, Inv, PlansRemembered
<1>4. fenced' = fenced \ {s} /\ memory' = memory /\ hasty' = hasty
      /\ sinceAnchor' = [sinceAnchor EXCEPT ![s] = CooldownTurns]
  BY DEF FinalizeSession
<1>5. FencesRemembered'
  BY <1>2, <1>4 DEF Inv, FencesRemembered
<1>6. CooldownCounted'
  <2>1. CooldownTurns \in 0..64
    BY SentinelAssumption
  <2>2. sinceAnchor' \in [Sessions -> 0..CooldownTurns]
    BY <1>4, <2>1 DEF Inv, CooldownCounted
  <2>3. Session(runtime, s)' = NewSession /\ NewSession.drift.cooldown = 0
    BY <1>2 DEF Session, NewSession, NewSentinel
  <2>4. \A z \in Sessions \ {s} : Session(runtime, z)' = Session(runtime, z)
    BY <1>2 DEF Session
  <2>5. \A z \in Sessions :
           sinceAnchor'[z] = CooldownTurns - Session(runtime, z)'.drift.cooldown
    <3>1. sinceAnchor'[s] = CooldownTurns - Session(runtime, s)'.drift.cooldown
      BY <1>4, <2>1, <2>3 DEF Inv, CooldownCounted
    <3>2. \A z \in Sessions \ {s} : sinceAnchor'[z] = sinceAnchor[z]
      BY <1>4 DEF Inv, CooldownCounted
    <3> QED BY <2>4, <3>1, <3>2 DEF Inv, CooldownCounted
  <2> QED BY <1>4, <2>2, <2>5 DEF Inv, CooldownCounted
<1>7. \A i \in DOMAIN runtime'.completed :
         \E j \in Places(runtime) : runtime'.completed[i] = runtime.completed[j]
  BY <1>1 DEF FinalizedAs
<1> QED BY <1>1, <1>2, <1>3, <1>4, <1>5, <1>6, <1>7 DEF Inv

-----------------------------------------------------------------------------
(* Theorems *)

LEMMA InitInv == ASSUME Init PROVE Inv
<1>1. Sound(runtime)
  BY NewRuntimeIsSound DEF Init
<1>2. DOMAIN runtime.sessions = {} /\ DOMAIN runtime.pending = {}
  BY DEF Init, NewRuntime
<1>3. CooldownCounted
  <2>1. \A s \in Sessions : Session(runtime, s).drift.cooldown = 0
    BY <1>2 DEF Session, NewSession, NewSentinel
  <2>2. CooldownTurns \in 0..64
    BY SentinelAssumption
  <2> QED BY <2>1, <2>2 DEF Init, CooldownCounted
<1> QED BY <1>1, <1>2, <1>3 DEF Init, Inv, PlansRemembered, FencesRemembered

LEMMA NextKeeps == ASSUME Inv, [Next]_vars PROVE Inv' /\ Carried
<1>1. CASE UNCHANGED vars
  <2>1. runtime' = runtime /\ memory' = memory /\ ghosts' = ghosts
    BY <1>1 DEF vars
  <2>2. Inv'
    BY <2>1 DEF ghosts, Inv, PlansRemembered, FencesRemembered, CooldownCounted, Session
  <2> QED BY <2>1, <2>2, CarriedOver
<1>2. ASSUME NEW t \in Turns, NEW s \in Sessions,
             PrepareTurn(t, s) \/ PrepareRaises(t, s) \/ ObserveTurn(t, s)
      PROVE  Inv' /\ Carried
  <2>1. CASE PrepareTurn(t, s)
    BY <2>1, PrepareTurnKeeps, CarriedOver
  <2>2. CASE PrepareRaises(t, s)
    BY <2>2, PrepareRaisesKeeps, CarriedOver
  <2>3. CASE ObserveTurn(t, s)
    BY <2>3, ObserveTurnKeeps
  <2> QED BY <1>2, <2>1, <2>2, <2>3
<1>3. ASSUME NEW s \in Sessions, FinalizeSession(s)
      PROVE  Inv' /\ Carried
  BY <1>3, FinalizeSessionKeeps DEF Carried
<1> QED BY <1>1, <1>2, <1>3 DEF Next

(***************************************************************************)
(* A runtime keeps to its invariant: its sessions, turns, receipts and the *)
(* owners of their ids are what they should be, whatever turns a host      *)
(* prepares, reports and finalizes.                                        *)
(***************************************************************************)
THEOREM InvHolds == Spec => []Inv
<1>1. Init => Inv
  BY InitInv
<1>2. Inv /\ [Next]_vars => Inv'
  BY NextKeeps
<1> QED BY <1>1, <1>2, PTL DEF Spec


(***************************************************************************)
(* A turn id is known exactly as long as its turn is in progress or its    *)
(* receipt is kept, under its own session, which exists; and no map grows  *)
(* beyond its limit.                                                       *)
(***************************************************************************)
THEOREM OwnersAlwaysMatch == Spec => []OwnersMatch
<1>1. ASSUME Inv PROVE OwnersMatch
  <2>1. /\ DOMAIN runtime.sessions \subseteq Sessions
        /\ \A s \in DOMAIN runtime.sessions : runtime.sessions[s] \in SessionState
        /\ DOMAIN runtime.pending \subseteq Turns
        /\ \A t \in DOMAIN runtime.pending : runtime.pending[t] \in PendingTurn
    BY <1>1, PartialFun DEF Inv, Sound, Live
  <2>2. TypeOK
    BY <1>1, <2>1 DEF TypeOK, Inv, Sound, SessionsKept, TurnsKept, ReceiptsKept
  <2>3. DOMAIN runtime.completed = Places(runtime)
    BY <1>1 DEF Inv, Sound, ReceiptsKept, Places
  <2>4. \A t : t \in Completed(runtime) <=> Has(runtime, t)
    BY <2>3 DEF Completed, TurnsOf, Has
  <2>5. DOMAIN runtime.owners = DOMAIN runtime.pending \cup Completed(runtime)
    BY <1>1, <2>4 DEF Inv, Sound, Owned
  <2>6. DOMAIN runtime.pending \cap Completed(runtime) = {}
    BY <1>1, <2>4 DEF Inv, Sound, Owned
  <2> QED BY <1>1, <2>2, <2>3, <2>5, <2>6 DEF OwnersMatch, Inv, Sound, Owned
<1> QED BY <1>1, InvHolds, PTL

(***************************************************************************)
(* A receipt that is kept is never changed, and its turn never gets a      *)
(* second one, whatever is prepared and reported meanwhile.                *)
(***************************************************************************)
THEOREM ReceiptsAlwaysStand == Spec => ReceiptsStand
<1> DEFINE Standing == \A i \in DOMAIN runtime.completed : \A j \in DOMAIN runtime'.completed :
                       runtime.completed[i].turn = runtime'.completed[j].turn
                           => runtime.completed[i] = runtime'.completed[j]
<1>1. ASSUME Inv, [Next]_vars PROVE Standing
  <2> SUFFICES ASSUME NEW i \in DOMAIN runtime.completed, NEW j \in DOMAIN runtime'.completed,
                      runtime.completed[i].turn = runtime'.completed[j].turn
               PROVE  runtime.completed[i] = runtime'.completed[j]
    OBVIOUS
  <2>1. i \in Places(runtime)
    BY <1>1 DEF Inv, Sound, ReceiptsKept, Places
  <2>2. runtime'.completed[j].turn \notin DOMAIN runtime.pending
    BY <1>1, <2>1 DEF Inv, Sound, Owned, Has
  <2>3. PICK m \in Places(runtime) : runtime'.completed[j] = runtime.completed[m]
    BY <1>1, <2>2, NextKeeps DEF Carried
  <2>4. i = m
    BY <1>1, <2>1, <2>3 DEF Inv, Sound, ReceiptsKept, OneReceipt, Places
  <2> QED BY <2>3, <2>4
<1> HIDE DEF Standing
<1>2. Inv /\ [Next]_vars => [Standing]_vars
  BY <1>1
<1>3. Spec => [][Standing]_vars
  BY <1>2, InvHolds, PTL DEF Spec
<1> QED BY <1>3 DEF ReceiptsStand, Standing

(***************************************************************************)
(* The receipt that a turn gets counts the records that it added: all of   *)
(* them unless it names an error, and never more.                          *)
(***************************************************************************)
THEOREM ReceiptsAreHonest == Spec => ReceiptsHonest
<1> DEFINE Honest == \A i \in DOMAIN runtime'.completed :
                        LET receipt == runtime'.completed[i]
                            added == Cardinality(memory' \ memory)
                        IN receipt.turn \in DOMAIN runtime.pending
                              => /\ receipt.writes <= added
                                 /\ ~receipt.failed => receipt.writes = added
<1>1. ASSUME Inv PROVE \A j \in Places(runtime) :
                          runtime.completed[j].turn \notin DOMAIN runtime.pending
  BY <1>1 DEF Inv, Sound, Owned, Has
<1>2. ASSUME Inv, runtime'.completed = runtime.completed PROVE Honest
  <2>1. DOMAIN runtime'.completed = Places(runtime)
    BY <1>2 DEF Inv, Sound, ReceiptsKept, Places
  <2> QED BY <1>1, <1>2, <2>1
<1>3. ASSUME Inv, NEW t \in Turns, NEW s \in Sessions, ObserveTurn(t, s)
      PROVE  Honest
  <2>1. PICK outcome \in Outcomes : \E lost, landed : Reported(t, outcome, lost, landed)
    BY <1>3, ReportedTurn
  <2>2. PICK lost, landed : Reported(t, outcome, lost, landed)
    BY <2>1
  <2> PICK written : written = Writes(runtime, t, outcome)
    OBVIOUS
  <2> PICK counted : counted = (written \ lost) \ memory
    OBVIOUS
  <2> PICK receipt :
         receipt = ReceiptOf(runtime, t, Cardinality(counted),
                             Failed(runtime, t, outcome, lost # {}))
    OBVIOUS
  <2>3. /\ lost \subseteq written /\ landed \subseteq lost
        /\ memory' = memory \cup (written \ lost) \cup landed
        /\ ObservedAs(runtime', runtime, t, outcome, receipt)
    BY <2>2 DEF Reported
  <2>4. /\ receipt.writes = Cardinality(counted)
        /\ lost # {} => receipt.failed
    BY DEF ReceiptOf, Failed
  <2> PICK added : added = memory' \ memory
    OBVIOUS
  <2>5. counted \subseteq added /\ (lost = {} => counted = added)
    BY <2>3
  <2>6. IsFiniteSet(added)
    <3>1. IsFiniteSet(outcome.records) /\ added \subseteq outcome.records
      BY <2>3, OutcomesAssumption DEF Writes
    <3> QED BY <3>1, FS_Subset
  <2>7. Cardinality(counted) <= Cardinality(added)
    BY <2>5, <2>6, FS_Subset
  <2>8. /\ receipt.writes <= Cardinality(added)
        /\ ~receipt.failed => receipt.writes = Cardinality(added)
    BY <2>4, <2>5, <2>7
  <2>9. \A i \in DOMAIN runtime'.completed :
           runtime'.completed[i].turn \in DOMAIN runtime.pending
              => runtime'.completed[i] = receipt
    BY <1>1, <1>3, <2>3 DEF ObservedAs
  <2> QED BY <2>8, <2>9
<1>4. ASSUME Inv, NEW s \in Sessions, FinalizeSession(s)
      PROVE  Honest
  <2>1. \A i \in DOMAIN runtime'.completed :
           \E j \in Places(runtime) : runtime'.completed[i] = runtime.completed[j]
    BY <1>4, FinalizeSessionKeeps
  <2> QED BY <1>1, <1>4, <2>1
<1> HIDE DEF Honest
<1>5. ASSUME Inv, [Next]_vars PROVE Honest
  <2>1. CASE UNCHANGED vars
    BY <1>2, <1>5, <2>1 DEF vars
  <2>2. ASSUME NEW t \in Turns, NEW s \in Sessions,
               PrepareTurn(t, s) \/ PrepareRaises(t, s) \/ ObserveTurn(t, s)
        PROVE  Honest
    <3>1. CASE PrepareTurn(t, s)
      BY <1>2, <1>5, <3>1, PrepareTurnKeeps
    <3>2. CASE PrepareRaises(t, s)
      BY <1>2, <1>5, <3>2, PrepareRaisesKeeps
    <3>3. CASE ObserveTurn(t, s)
      BY <1>3, <1>5, <3>3
    <3> QED BY <2>2, <3>1, <3>2, <3>3
  <2> QED BY <1>4, <1>5, <2>1, <2>2 DEF Next
<1>6. Inv /\ [Next]_vars => [Honest]_vars
  BY <1>5
<1>7. Spec => [][Honest]_vars
  BY <1>6, InvHolds, PTL DEF Spec
<1> QED BY <1>7 DEF ReceiptsHonest, Honest

(***************************************************************************)
(* The checks of a drift decision and a drift snapshot never refuse what   *)
(* evaluate computed, however many probes are required, remembered and     *)
(* waited for.                                                             *)
(***************************************************************************)
THEOREM DriftIsNeverRefused == Spec => []DriftNeverRefused
<1>1. Inv => DriftNeverRefused
  BY EvaluateSane DEF Inv, Sound, SessionsKept, DriftNeverRefused, Sane
<1> QED BY <1>1, InvHolds, PTL

(***************************************************************************)
(* Two requests to re-anchor a session lie a whole cooldown of probes      *)
(* apart.                                                                  *)
(***************************************************************************)
THEOREM AnchorsAreSpaced == Spec => []AnchorsSpaced
<1>1. Inv => AnchorsSpaced
  BY DEF Inv, CooldownCounted, AnchorsSpaced
<1> QED BY <1>1, InvHolds, PTL

(***************************************************************************)
(* No record is written for a session that was told not to save, in        *)
(* whatever order its turns were prepared and reported.                    *)
(***************************************************************************)
THEOREM NoSaveIsHonoured == Spec => NoSaveHonoured
<1>1. ASSUME Inv, [Next]_vars
      PROVE  \A record \in memory' \ memory : record.session \notin fenced
  <2>1. CASE UNCHANGED vars
    BY <2>1 DEF vars
  <2>2. ASSUME NEW t \in Turns, NEW s \in Sessions,
               PrepareTurn(t, s) \/ PrepareRaises(t, s) \/ ObserveTurn(t, s)
        PROVE  \A record \in memory' \ memory : record.session \notin fenced
    BY <1>1, <2>2, PrepareTurnKeeps, PrepareRaisesKeeps, ObserveTurnKeeps
  <2>3. ASSUME NEW s \in Sessions, FinalizeSession(s)
        PROVE  \A record \in memory' \ memory : record.session \notin fenced
    BY <1>1, <2>3, FinalizeSessionKeeps
  <2> QED BY <1>1, <2>1, <2>2, <2>3 DEF Next
<1>2. Inv /\ [Next]_vars =>
         [\A record \in memory' \ memory : record.session \notin fenced]_vars
  BY <1>1
<1> QED BY <1>2, InvHolds, PTL DEF Spec, NoSaveHonoured

(***************************************************************************)
(* Every context that prepare chooses holds the mandatory rules of its     *)
(* turn and stays within its limit, whatever the components offered and    *)
(* the host's router answered.                                             *)
(***************************************************************************)
THEOREM ContextsAreKept == Spec => ContextKept
<1> DEFINE Kept == \A t \in NewTurns : PlanKept(runtime'.pending[t])
<1>1. ASSUME Inv, [Next]_vars
      PROVE  Kept
  <2>1. Inv'
    BY <1>1, NextKeeps
  <2> QED BY <2>1 DEF Inv, PlansRemembered, NewTurns
<1>2. Kept => \A t \in NewTurns :
          LET turn == runtime'.pending[t]
          IN /\ turn.chars <= Limit(turn.mode)
             /\ "truth" \in turn.fragments
             /\ turn.scope # "default" => "no_persistence" \in turn.fragments
             /\ turn.mode = "high_stakes" => "safety" \in turn.fragments
             /\ turn.scope # "default" \/ turn.mode = "high_stakes"
                   => "memory" \notin turn.fragments
  BY DEF PlanKept
<1>3. Inv /\ [Next]_vars =>
      [\A t \in NewTurns :
          LET turn == runtime'.pending[t]
          IN /\ turn.chars <= Limit(turn.mode)
             /\ "truth" \in turn.fragments
             /\ turn.scope # "default" => "no_persistence" \in turn.fragments
             /\ turn.mode = "high_stakes" => "safety" \in turn.fragments
             /\ turn.scope # "default" \/ turn.mode = "high_stakes"
                   => "memory" \notin turn.fragments]_vars
  <2> HIDE DEF Kept
  <2> QED BY <1>1, <1>2
<1> QED BY <1>3, InvHolds, PTL DEF Spec, ContextKept

(***************************************************************************)
(* A re-anchor that is due is carried by a turn of its session, or was in  *)
(* the very context that prepare had chosen when it raised; nothing else   *)
(* makes it forgotten while its session lives.                             *)
(***************************************************************************)
THEOREM AnchorsAreDelivered == Spec => AnchorsDelivered
<1>1. ASSUME Inv, [Next]_vars,
             NEW z \in DOMAIN runtime.sessions \cap DOMAIN runtime'.sessions,
             runtime.sessions[z].reanchor, ~runtime'.sessions[z].reanchor
      PROVE  \/ \E t \in NewTurns :
                   /\ runtime'.pending[t].session = z
                   /\ "reanchor" \in runtime'.pending[t].fragments
             \/ RaisedWithAnchor(z)
  <2>1. CASE UNCHANGED vars
    <3>1. runtime' = runtime
      BY <2>1 DEF vars
    <3> QED BY <1>1, <3>1
  <2>2. ASSUME NEW t \in Turns, NEW s \in Sessions, PrepareTurn(t, s)
        PROVE  \E u \in NewTurns : /\ runtime'.pending[u].session = z
                                   /\ "reanchor" \in runtime'.pending[u].fragments
    <3>1. t \in NewTurns /\ \E input \in TurnInputs :
             PreparedAs(runtime', runtime, t, s, PlanOf(runtime, s, input))
      BY <1>1, <2>2, PrepareTurnKeeps
    <3>2. PICK input \in TurnInputs :
             PreparedAs(runtime', runtime, t, s, PlanOf(runtime, s, input))
      BY <3>1
    <3> PICK plan : plan = PlanOf(runtime, s, input)
      OBVIOUS
    <3> PICK chosen : chosen = Chosen(Session(runtime, s), plan)
      OBVIOUS
    <3>3. /\ runtime'.sessions = With(runtime.sessions, s, chosen)
          /\ runtime'.pending = With(runtime.pending, t, Begun(s, plan))
      BY <3>2 DEF PreparedAs
    <3>4. z = s
      BY <1>1, <3>3 DEF With
    <3>5. runtime'.sessions[z] = chosen /\ Session(runtime, s) = runtime.sessions[z]
      BY <3>3, <3>4 DEF With, Session
    <3>6. Session(runtime, s) \in SessionState
      BY <1>1, SessionKept DEF Inv
    <3>7. "reanchor" \in plan.fragments
      <4>1. chosen.reanchor = StillDue(Session(runtime, s).reanchor, plan.fragments)
        BY <3>6, ChosenIs
      <4> QED BY <1>1, <3>5, <4>1 DEF StillDue
    <3>8. /\ runtime'.pending[t] = Begun(s, plan)
          /\ Begun(s, plan).session = s /\ Begun(s, plan).fragments = plan.fragments
      BY <3>3 DEF With, Begun
    <3> QED BY <3>1, <3>4, <3>7, <3>8
  <2>3. ASSUME NEW t \in Turns, NEW s \in Sessions, PrepareRaises(t, s)
        PROVE  RaisedWithAnchor(z)
    <3>1. PICK input \in TurnInputs :
             runtime' \in {Opened(runtime, s, input), Selected(runtime, s, input)}
      BY <2>3 DEF PrepareRaises
    <3>2. /\ Opened(runtime, s, input) =
               InState(runtime, s, Open(Session(runtime, s), PlanOf(runtime, s, input)))
          /\ Selected(runtime, s, input) =
               InState(runtime, s, Chosen(Session(runtime, s), PlanOf(runtime, s, input)))
      BY <1>1, OpenedIs, SelectedIs DEF Inv, Sound
    <3> PICK plan : plan = PlanOf(runtime, s, input)
      OBVIOUS
    <3> PICK state : state = Session(runtime, s)
      OBVIOUS
    <3>3. state \in SessionState
      BY <1>1, SessionKept DEF Inv
    <3> PICK opened : opened = Open(state, plan)
      OBVIOUS
    <3> PICK chosen : chosen = Chosen(state, plan)
      OBVIOUS
    <3>4. /\ opened.reanchor = state.reanchor
          /\ chosen.reanchor = StillDue(state.reanchor, plan.fragments)
      BY <3>3, OpenIs, ChosenIs
    <3>5. PICK left : /\ runtime' = InState(runtime, s, left)
                      /\ left # opened => left = chosen /\ runtime' = Selected(runtime, s, input)
      <4>1. CASE runtime' = Opened(runtime, s, input)
        BY <3>2, <4>1
      <4>2. CASE runtime' = Selected(runtime, s, input)
        BY <3>2, <4>2
      <4> QED BY <3>1, <4>1, <4>2
    <3>6. runtime'.sessions = With(runtime.sessions, s, left)
      BY <3>5 DEF InState
    <3>7. z = s
      BY <1>1, <3>6 DEF With
    <3>8. runtime'.sessions[z] = left /\ state = runtime.sessions[z]
      BY <1>1, <3>6, <3>7 DEF With, Session
    <3>9. runtime' = Selected(runtime, s, input) /\ "reanchor" \in plan.fragments
      BY <1>1, <3>4, <3>5, <3>8 DEF StillDue
    <3> QED BY <3>7, <3>9 DEF RaisedWithAnchor
  <2>4. ASSUME NEW t \in Turns, NEW s \in Sessions, ObserveTurn(t, s)
        PROVE  FALSE
    BY <1>1, <2>4, ObserveTurnKeeps
  <2>5. ASSUME NEW s \in Sessions, FinalizeSession(s)
        PROVE  FALSE
    BY <1>1, <2>5, FinalizeSessionKeeps
  <2> QED BY <1>1, <2>1, <2>2, <2>3, <2>4, <2>5 DEF Next
<1>2. Inv /\ [Next]_vars =>
      [\A s \in DOMAIN runtime.sessions \cap DOMAIN runtime'.sessions :
          runtime.sessions[s].reanchor /\ ~runtime'.sessions[s].reanchor
              => \/ \E t \in NewTurns :
                       /\ runtime'.pending[t].session = s
                       /\ "reanchor" \in runtime'.pending[t].fragments
                 \/ RaisedWithAnchor(s)]_vars
  BY <1>1
<1> QED BY <1>2, InvHolds, PTL DEF Spec, AnchorsDelivered
=============================================================================
