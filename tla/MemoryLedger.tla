----------------------------- MODULE MemoryLedger -----------------------------
(***************************************************************************)
(* What one image of SQLiteMemoryLedger (src/humanlike_agent/memory.py)    *)
(* holds, and what remember, delete, recall and conflicts make of it.      *)
(* Each call is atomic, which LedgerFile shows; a call that raises may     *)
(* have taken effect nevertheless.  A call with no_save changes nothing    *)
(* and is no step.                                                         *)
(*                                                                         *)
(* Ranking, search terms and limits only choose among the records that     *)
(* recall may show, and are left out.  A tombstone keeps the digest of its *)
(* record; the record itself stands for that digest.                       *)
(***************************************************************************)
EXTENDS Naturals, FiniteSets

CONSTANTS Ids, Profiles, Sessions, Keys, Values,
          Candidates,   \* the records callers may want to remember
          MaxTime,      \* the last instant
          NoSession     \* the scope of records that hold in every session

ASSUME TimeAssumption == MaxTime \in Nat
ASSUME NoSessionAssumption == NoSession \notin Sessions

VARIABLES live,           \* records
          buried,         \* tombstones
          supersessions,  \* which record replaces which, and from when
          written         \* history: every record that took effect

tables == <<live, buried, supersessions>>
recordVars == <<tables, written>>

Instants == 0 .. MaxTime
Forever == MaxTime + 1

Record == [id : Ids, profile : Profiles, session : Sessions \cup {NoSession},
           key : Keys, value : Values,
           created : Instants, from : Instants, until : 1 .. Forever,
           supersedes : SUBSET Ids]
ASSUME CandidatesAssumption ==
    /\ Candidates \subseteq Record
    /\ \A r \in Candidates : r.from < r.until /\ r.id \notin r.supersedes

Supersession == [target : Ids, by : Ids, from : Instants]

RecordsTyped ==
    /\ live \subseteq Candidates /\ buried \subseteq Candidates
    /\ supersessions \subseteq Supersession
    /\ \A s, t \in supersessions : s.target = t.target => s = t
    /\ written \subseteq Candidates

RecordsInit == live = {} /\ buried = {} /\ supersessions = {} /\ written = {}

-----------------------------------------------------------------------------
(* recall and conflicts *)

ActiveAt(r, at) == r.from <= at /\ at < r.until
Superseded(id) == \E s \in supersessions : s.target = id
SupersededAt(id, at) == \E s \in supersessions : s.target = id /\ s.from <= at

\* Whether a record is shown to a query of its scope about some instant.
Shown(r, at) == r \in live /\ ActiveAt(r, at) /\ ~SupersededAt(r.id, at)

Query == [profile : Profiles, session : Sessions \cup {NoSession}, at : Instants]
InScope(r, query) ==
    r.profile = query.profile /\ r.session \in {NoSession, query.session}

Recall(query) == {r \in live : InScope(r, query) /\ Shown(r, query.at)}

\* The values in dispute.
Conflicts(query, key) ==
    LET values == {r.value : r \in {hit \in Recall(query) : hit.key = key}}
    IN IF Cardinality(values) > 1 THEN values ELSE {}

-----------------------------------------------------------------------------
(* remember *)

\* A slip: a tombstone does not take its id.
TakenByLive(id) == \E r \in live : r.id = id

Taken(id) == \E r \in live \cup buried : r.id = id
\* The answer is that the record is there, or was there and was deleted.
Known(r) == r \in live \cup buried

\* Slips: a record may replace one of another session, or one replaced before.
ReplaceableAnywhere(q, r) ==
    q.profile = r.profile /\ ~Superseded(q.id) /\ ActiveAt(q, r.created)
ReplaceableAgain(q, r) ==
    q.profile = r.profile /\ q.session = r.session /\ ActiveAt(q, r.created)

Replaceable(q, r) ==
    /\ q.profile = r.profile
    /\ q.session = r.session
    /\ ~Superseded(q.id)
    /\ ActiveAt(q, r.created)

\* _validate_supersessions
MaySupersede(r) ==
    r.supersedes # {} =>
        /\ ActiveAt(r, r.created)
        /\ \A id \in r.supersedes : \E q \in live : q.id = id /\ Replaceable(q, r)

\* A slip: what is replaced is hidden from the moment the new record is made.
EffectiveWhenCreated(r) == r.created
EffectiveFrom(r) == r.from

Insert(r) ==
    /\ live' = live \cup {r}
    /\ supersessions' = supersessions \cup
          {[target |-> id, by |-> r.id, from |-> EffectiveFrom(r)] : id \in r.supersedes}
    /\ written' = written \cup {r}
    /\ UNCHANGED buried

\* Whether remember answers True or raises, its record has taken effect.  A
\* record it knows, or refuses, changes nothing.
Remember(r) ==
    /\ ~Known(r)
    /\ ~Taken(r.id)
    /\ MaySupersede(r)
    /\ Insert(r)

-----------------------------------------------------------------------------
(* delete *)

\* A slip: what the record replaced is current again.
DeleteReviving(r) ==
    /\ live' = live \ {r}
    /\ buried' = buried \cup {r}
    /\ supersessions' = {s \in supersessions : s.by # r.id}
    /\ UNCHANGED written

\* The record leaves its tombstone and the supersessions it made.
Delete(r) ==
    /\ live' = live \ {r}
    /\ buried' = buried \cup {r}
    /\ UNCHANGED <<supersessions, written>>

-----------------------------------------------------------------------------
RecordsNext ==
    \/ \E r \in Candidates : Remember(r)
    \/ \E r \in live : Delete(r)

RecordsSpec == RecordsInit /\ [][RecordsNext]_recordVars

-----------------------------------------------------------------------------
(* Properties *)

\* An id names one record for ever: neither a retry after a failure nor a new
\* record after a deletion puts another one under it.
IdsNameOneRecord == \A r, q \in written : r.id = q.id => r = q

\* A remember that answers "not new" is about a record that did take effect,
\* so a caller that retries an uncertain one loses nothing.
KnownMeansWritten == \A r \in Candidates : Known(r) => r \in written

\* A record and the one that replaces it are never shown for the same instant,
\* although one may be made valid for a time before it was made.
NeverBothShown ==
    \A r, q \in live : \A at \in Instants :
        r.id \in q.supersedes => ~(Shown(r, at) /\ Shown(q, at))

\* What recall no longer shows for an instant it never shows for it again:
\* deleting a successor revives nothing, and nothing deleted comes back.
HiddenStaysHidden ==
    [][\A r \in written : \A at \in Instants : Shown(r, at)' => Shown(r, at)]_recordVars

\* What a caller sees depends on the records of its own scope only: no record
\* of another profile or session adds, hides or disputes anything.
ScopesIndependent ==
    [][\A query \in Query :
          (\A r \in Candidates : InScope(r, query) => (r \in live <=> r \in live'))
          => /\ Recall(query)' = Recall(query)
             /\ \A key \in Keys : Conflicts(query, key)' = Conflicts(query, key)]_recordVars
=============================================================================
