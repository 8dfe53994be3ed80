---------------------------- MODULE AtomicLedger ----------------------------
(***************************************************************************)
(* What SQLiteMemoryLedger promises the code above it: one value, changed  *)
(* by atomic updates and read atomically.  An update is visible before it  *)
(* is durable; it is answered "saved" only when nothing but itself can be  *)
(* found after a power loss.  An update that fails may or may not have     *)
(* taken effect.                                                           *)
(***************************************************************************)
CONSTANTS Threads, Items

VARIABLES value,      \* what the next update or read sees: a set of items
          possible,   \* what a power loss may leave
          job,        \* each thread's current or last call
          did,        \* threads whose update took effect, unanswered
          result      \* how each thread's last call ended

vars == <<value, possible, job, did, result>>

Jobs == [kind : {"put", "erase", "keep", "read"}, item : Items]
None == [kind |-> "none", seen |-> {}]

Effect(j, v) == IF j.kind = "put" THEN v \cup {j.item} ELSE v \ {j.item}

Init ==
    /\ value = {}
    /\ possible = {{}}
    /\ job \in [Threads -> Jobs]
    /\ did = {}
    /\ result = [t \in Threads |-> None]

Answer(t, kind, seen) == result' = [result EXCEPT ![t] = [kind |-> kind, seen |-> seen]]

Begin(t) ==
    /\ t \notin did
    /\ \E j \in Jobs : job' = [job EXCEPT ![t] = j]
    /\ Answer(t, "none", {})
    /\ UNCHANGED <<value, possible, did>>

Update(t) ==
    /\ result[t] = None /\ t \notin did
    /\ job[t].kind \in {"put", "erase"}
    /\ value' = Effect(job[t], value)
    /\ possible' = possible \cup {value'}
    /\ did' = did \cup {t}
    /\ UNCHANGED <<job, result>>

\* The caller's update, and all before it, are durable.
Saved(t) ==
    /\ t \in did
    /\ did' = did \ {t}
    /\ possible' = {value}
    /\ Answer(t, "saved", {})
    /\ UNCHANGED <<value, job>>

\* Values that were passed through settle on their own.
Settle == possible' = {value} /\ UNCHANGED <<value, job, did, result>>

Read(t) ==
    /\ job[t].kind = "read"
    /\ Answer(t, "read", value)
    /\ UNCHANGED <<value, possible, job, did>>

Keeps(t) ==
    /\ job[t].kind = "keep"
    /\ Answer(t, "unchanged", {})
    /\ UNCHANGED <<value, possible, job, did>>

\* A failure leaves it open whether the update will be found.
Fails(t) ==
    /\ \/ did' = did \ {t} /\ UNCHANGED result
       \/ t \notin did /\ Answer(t, "failed", {}) /\ UNCHANGED did
    /\ UNCHANGED <<value, possible, job>>

Dies(dead) ==
    /\ did' = did \ dead
    /\ result' = [t \in Threads |-> IF t \in dead THEN None ELSE result[t]]
    /\ UNCHANGED job

ProcessCrash == \E dead \in SUBSET Threads : Dies(dead) /\ UNCHANGED <<value, possible>>

PowerLoss ==
    /\ value' \in possible
    /\ possible' = {value'}
    /\ Dies(Threads)

Next ==
    \/ \E t \in Threads :
          Begin(t) \/ Update(t) \/ Saved(t) \/ Read(t) \/ Keeps(t) \/ Fails(t)
    \/ Settle
    \/ ProcessCrash
    \/ PowerLoss

Spec == Init /\ [][Next]_vars
=============================================================================
