--------------------------- MODULE PersonalMemory ---------------------------
(***************************************************************************)
(* PersonalMemory of src/humanlike_agent/personal.py as several callers    *)
(* use it at once: threads, hosts or processes that share one namespace    *)
(* of one ledger.                                                          *)
(*                                                                         *)
(* capture is two transactions with the host's resolver before them and    *)
(* the extractor between them; the other operations are one transaction    *)
(* each.  A transaction is atomic: LedgerFile shows why.  A transaction    *)
(* that returns early commits the image it read, so it is no step at all   *)
(* when the caller keeps nothing of it.                                    *)
(***************************************************************************)
EXTENDS PersonalStore

CONSTANTS Callers,
          Requests,    \* the events hosts may resolve
          Stamps,      \* the references and sequences controls may carry
          MaxEpoch,    \* bound on revocations, for TLC
          NoRequest,
          NoPolicy

ASSUME RequestsAssumption ==
    /\ Requests \subseteq Request
    /\ \A r \in Requests : r.targets # {} => r.target = NoEvent
ASSUME StampsAssumption == Stamps \subseteq Stamp
ASSUME NoRequestAssumption == NoRequest \notin Request
ASSUME NoPolicyAssumption == NoPolicy \notin Policy
ASSUME MaxEpochAssumption == MaxEpoch \in Nat

VARIABLES db,       \* the current image
          held,     \* the policy triple a caller last read
          call,     \* the capture a caller has in flight
          revoked   \* history: who has been overtaken by a revocation

vars == <<db, held, call, revoked>>

(***************************************************************************)
(* How an operation is tied to an earlier look at the policy: not at all,  *)
(* by expected_policy, or (capture only) by expected_epoch.                *)
(***************************************************************************)
Ties == {"none", "policy", "epoch"}
Stages == {"idle", "opened", "extracting"}
Call == [stage : Stages, request : Requests \cup {NoRequest}, tie : Ties, epoch : Nat]
NoCall == [stage |-> "idle", request |-> NoRequest, tie |-> "none", epoch |-> 0]

TypeOK ==
    /\ db \in Image
    /\ held \in [Callers -> Policy \cup {NoPolicy}]
    /\ call \in [Callers -> Call]
    /\ \A c \in Callers : call[c].stage = "idle" <=> call[c].request = NoRequest
    /\ revoked \subseteq Callers

Init ==
    /\ db = EmptyImage
    /\ held = [c \in Callers |-> NoPolicy]
    /\ call = [c \in Callers |-> NoCall]
    /\ revoked = {}

Idle(c) == call[c].stage = "idle"

\* expected_policy and expected_epoch, against what the transaction reads.
Tied(c, tie) ==
    CASE tie = "policy" -> held[c] = db.policy
      [] tie = "epoch"  -> held[c].epoch = db.policy.epoch
      [] OTHER -> TRUE

-----------------------------------------------------------------------------
(* One-transaction operations *)

\* policy: what a host reads before it shows or asks the owner something.
ReadPolicy(c) ==
    /\ Idle(c)
    /\ held' = [held EXCEPT ![c] = db.policy]
    /\ revoked' = revoked \ {c}
    /\ UNCHANGED <<db, call>>

\* Every other caller's view of the policy is now out of date.
Revokes == revoked' = Callers

\* enable and disable.
ChangeConsent(c, enabled) ==
    /\ Idle(c)
    /\ db.policy.epoch < MaxEpoch
    /\ db' = SetConsent(db, enabled)
    /\ Revokes
    /\ UNCHANGED <<held, call>>

\* control that returns "applied"; refusals leave the image as it was.
ApplyControl(c, action, session, stamp, tie) ==
    /\ Idle(c)
    /\ db.policy.epoch < MaxEpoch
    /\ tie \in {"none", "policy"}
    /\ Tied(c, tie)
    /\ Fresh(db, stamp)
    /\ db' = Control(db, action, session, stamp)
    /\ Revokes
    /\ UNCHANGED <<held, call>>

\* forget without an event.
ForgetNow(c, id, tie) ==
    /\ Idle(c)
    /\ db.policy.epoch < MaxEpoch
    /\ tie \in {"none", "policy"}
    /\ Tied(c, tie)
    /\ db' = Forget(db, id)
    /\ Revokes
    /\ UNCHANGED <<held, call>>

\* forget that consumes the event that asked for it.
ForgetByEvent(c, id, stamp, tie) ==
    /\ Idle(c)
    /\ db.policy.epoch < MaxEpoch
    /\ tie \in {"none", "policy"}
    /\ Tied(c, tie)
    /\ Fresh(db, stamp)
    /\ db' = Forget(Consume(db, stamp), id)
    /\ Revokes
    /\ UNCHANGED <<held, call>>

-----------------------------------------------------------------------------
(* capture *)

\* The checks before the first transaction: consent is on, the event resolves.
OpenCapture(c, r, tie) ==
    /\ Idle(c)
    /\ tie # "none" => held[c] # NoPolicy
    /\ db.policy.enabled
    /\ call' = [call EXCEPT ![c] =
                   [stage |-> "opened", request |-> r, tie |-> tie, epoch |-> 0]]
    /\ UNCHANGED <<db, held, revoked>>

StampOf(r) == [event |-> r.event, sequence |-> r.sequence]

MayReserve(c) ==
    /\ Tied(c, call[c].tie)
    /\ db.policy.enabled
    /\ Fresh(db, StampOf(call[c].request))

\* The first transaction: consume the event and remember the epoch.
Reserve(c) ==
    /\ call[c].stage = "opened"
    /\ MayReserve(c)
    /\ db' = Consume(db, StampOf(call[c].request))
    /\ call' = [call EXCEPT ![c].stage = "extracting", ![c].epoch = db.policy.epoch]
    /\ revoked' = IF call[c].tie = "none" THEN revoked \ {c} ELSE revoked
    /\ UNCHANGED held

\* Fault: a later reservation does not stop an earlier one.
MayCommitOutOfOrder(c) ==
    /\ db.policy.enabled
    /\ db.policy.epoch = call[c].epoch
    /\ Storable(db, call[c].request)

MayCommit(c) ==
    /\ db.policy.enabled
    /\ db.policy.epoch = call[c].epoch
    /\ db.policy.watermark = call[c].request.sequence
    /\ Storable(db, call[c].request)

\* The second transaction: the candidate came back unchanged.
Commit(c) ==
    /\ call[c].stage = "extracting"
    /\ MayCommit(c)
    /\ Insertable(db, NewFact(db, call[c].request))
    /\ db' = Insert(db, NewFact(db, call[c].request))
    /\ call' = [call EXCEPT ![c] = NoCall]
    /\ UNCHANGED <<held, revoked>>

Ends(c) ==
    /\ call' = [call EXCEPT ![c] = NoCall]
    /\ UNCHANGED <<db, held, revoked>>

\* A transaction answers "revoked", "disabled", "replayed", "stale", ... or raises.
Refused(c) ==
    \/ /\ call[c].stage = "opened"
       /\ ~MayReserve(c)
       /\ Ends(c)
    \/ /\ call[c].stage = "extracting"
       /\ ~(MayCommit(c) /\ Insertable(db, NewFact(db, call[c].request)))
       /\ Ends(c)

(***************************************************************************)
(* The extractor fails or changes the candidate, the host withdraws its    *)
(* authorization or the event, an I/O error reaches the caller, or the     *)
(* process dies: whatever was reserved stays consumed.                     *)
(***************************************************************************)
Abandon(c) == ~Idle(c) /\ Ends(c)

-----------------------------------------------------------------------------
Next ==
    \E c \in Callers :
        \/ ReadPolicy(c)
        \/ \E enabled \in BOOLEAN : ChangeConsent(c, enabled)
        \/ \E action \in Actions, s \in Sessions, stamp \in Stamps, tie \in Ties :
              ApplyControl(c, action, s, stamp, tie)
        \/ \E id \in Events, tie \in Ties : ForgetNow(c, id, tie)
        \/ \E id \in Events, stamp \in Stamps, tie \in Ties :
              ForgetByEvent(c, id, stamp, tie)
        \/ \E r \in Requests, tie \in Ties : OpenCapture(c, r, tie)
        \/ Reserve(c)
        \/ Commit(c)
        \/ Refused(c)
        \/ Abandon(c)

Spec == Init /\ [][Next]_vars

-----------------------------------------------------------------------------
(* Safety *)

\* Replay fences: no sequence is consumed twice or above the watermark, and
\* every stored or erased record still has its event consumed.
FencesHold ==
    /\ \A e \in Events : db.consumed[e] <= db.policy.watermark
    /\ \A d, e \in Events : db.consumed[d] = db.consumed[e] /\ d # e => db.consumed[d] = 0
    /\ \A f \in db.facts : db.consumed[f.id] = f.sequence
    /\ \A e \in db.erased : db.consumed[e] # 0

\* A capture that _store accepts is never thrown out by the ledger: its id is
\* new and what it replaces is live and was never replaced before.
StoreNeverRaises ==
    \A c \in Callers :
        call[c].stage = "extracting" /\ MayCommit(c)
            => Insertable(db, NewFact(db, call[c].request))

\* The two ways the code decides which facts are active agree: _active, which
\* recall, corrections and native forgets use, and the SQL of inspect_page.
ActiveViewsAgree ==
    \A g \in Groups : \A f \in Group(db, g) :
        f \in Active(Group(db, g)) <=> ActiveInPage(db, f)

\* A lineage with live facts always has an active one, so management_targets
\* can offer it for correction and forgetting.
LineageReachable ==
    \A g \in Groups : Group(db, g) # {} => Representative(db, g) # {}

\* Relations point at live facts of the same lineage that came before, and a
\* confirmation repeats what it confirms.
RelationsResolve ==
    \A f \in db.facts :
        /\ f.target # NoEvent =>
              \E h \in Group(db, f.group) :
                  /\ h.id = f.target
                  /\ h.sequence < f.sequence
                  /\ h.at <= f.at
                  /\ f.relation = "confirms" => h.value = f.value /\ h.kind = f.kind
        /\ f.relation = "contradicts" =>
              \E h \in Group(db, f.group) :
                  h.sequence < f.sequence /\ (h.value # f.value \/ h.kind # f.kind)

-----------------------------------------------------------------------------
(* Action properties *)

\* A fact appears only while consent is on, through a reserved capture that no
\* consent change, control or forget has overtaken since it was reserved or,
\* when it is tied, since its caller read the policy.
StoreIsUnrevoked ==
    \A f \in db'.facts \ db.facts :
        /\ db.policy.enabled
        /\ \E c \in Callers \ revoked :
              call[c].stage = "extracting" /\ call[c].request.event = f.id

NoStoreAfterRevocation == [][StoreIsUnrevoked]_vars

\* Facts are stored in the order of their sequences, over all groups.
StoredInOrder ==
    [][\A f \in db'.facts \ db.facts : \A h \in db.facts : h.sequence < f.sequence]_vars

\* What was forgotten stays forgotten: its tombstone remains and no later
\* event, replay or late extractor brings a record back under that id.
ErasedStaysErased ==
    (Ids(db.facts) \ Ids(db'.facts)) \cup db.erased \subseteq db'.erased \ Ids(db'.facts)
ForgottenStaysForgotten == [][ErasedStaysErased]_vars
=============================================================================
