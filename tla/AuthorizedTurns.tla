--------------------------- MODULE AuthorizedTurns ---------------------------
(***************************************************************************)
(* prepare_authorized of src/humanlike_agent/adapters/hermes.py with the   *)
(* AuthorizedHost of src/humanlike_agent/host.py: a turn that is prepared  *)
(* under the adapter's lock and then, the lock released, captures its own  *)
(* message into the PersonalMemory.  Several callers do so at once, for    *)
(* messages of several sessions, beside the usual hooks; the owner changes *)
(* consent and forgets, the host withdraws messages, storage fails.        *)
(*                                                                         *)
(* An event id is its turn's id.  A call that is refused before its turn   *)
(* is prepared does what the hook does.  What is recalled for the context  *)
(* afterwards is only read; whether that succeeds, the answer names the    *)
(* same capture.                                                           *)
(***************************************************************************)
EXTENDS HermesAdapter

CONSTANTS Callers,
          SessionOf,     \* the session each message belongs to
          Requests,      \* the explicit messages, as personal memory reads them
          MarkedNoSave,  \* messages the host itself marks as not to be saved
          Groups, Values, Kinds, MaxSequence, GroupLimit, NoEvent,
          MaxEpoch       \* bound on changes of consent, for TLC

Store == INSTANCE PersonalStore WITH Events <- Turns

ASSUME MessagesAssumption ==
    /\ SessionOf \in [Turns -> Sessions]
    /\ Requests \subseteq Store!Request /\ MarkedNoSave \subseteq Turns
    /\ \A r, q \in Requests : r.event = q.event => r = q
ASSUME MaxEpochAssumption == MaxEpoch \in Nat

VARIABLES db,   \* the image of the personal memory all sessions share
          call  \* per caller, its prepare_authorized

hostVars == <<vars, db, call>>

\* Of the statuses a capture can have, "refused" stands for all that name a
\* reason: denied, disabled, not explicit, replayed, stale, revoked and so on.
Statuses == {"not_configured", "refused", "stored", "storage_unknown"}
Call == [stage : {"idle", "prepared", "opened", "reserved"},
         turn : Turns \cup {None},
         no_save : BOOLEAN,
         epoch : Nat,
         capture : Statuses,   \* what the last call answered
         asked : BOOLEAN,      \* history: the owner had asked not to save by then
         kept : BOOLEAN]       \* history: the call stored its message
NoCall == [stage |-> "idle", turn |-> None, no_save |-> FALSE, epoch |-> 0,
           capture |-> "not_configured", asked |-> FALSE, kept |-> FALSE]

HostInit == Init /\ db = Store!EmptyImage /\ call = [c \in Callers |-> NoCall]

At(c, stage) == call[c].stage = stage
Goto(c, stage) == call' = [call EXCEPT ![c].stage = stage]
\* The call answers; the message was kept or was not.
Ends(c, status, kept) ==
    call' = [call EXCEPT ![c] =
                [NoCall EXCEPT !.turn = call[c].turn, !.capture = status, !.kept = kept]]

-----------------------------------------------------------------------------
(* prepare_authorized *)

\* Under the adapter's lock: the turn, and whether it may be saved.
BeginTurn(c, t) ==
    LET s == SessionOf[t]
    IN /\ At(c, "idle")
       /\ PrePrepares(s, t)
       /\ call' = [call EXCEPT ![c] =
              [NoCall EXCEPT !.stage = "prepared", !.turn = t,
                             !.no_save = prepared'[s] # "default",
                             !.asked = runtime'.pending[t].scope # "default"
                                       \/ runtime'.sessions[s].noSave]]
       /\ UNCHANGED db

\* A slip: the scope is looked up when it is needed, the lock released.
NoSaveByNow(c) ==
    call[c].turn \in MarkedNoSave \/ prepared[SessionOf[call[c].turn]] # "default"
NoSave(c) == call[c].turn \in MarkedNoSave \/ call[c].no_save

\* The host has no memory, or does not resolve the message any more.
NoCapture(c) ==
    /\ At(c, "prepared")
    /\ Ends(c, "not_configured", FALSE)
    /\ UNCHANGED <<vars, db>>

-----------------------------------------------------------------------------
(* capture *)

\* The message, if it is an explicit one.
Asks(c) == {r \in Requests : r.event = call[c].turn}
Stamp(r) == [event |-> r.event, sequence |-> r.sequence]

OpenCapture(c) ==
    /\ At(c, "prepared")
    /\ ~NoSave(c) /\ db.policy.enabled /\ Asks(c) # {}
    /\ Goto(c, "opened")
    /\ UNCHANGED <<vars, db>>

Reservable(r) == db.policy.enabled /\ Store!Fresh(db, Stamp(r))

Reserve(c) ==
    /\ At(c, "opened")
    /\ \E r \in Asks(c) : Reservable(r) /\ db' = Store!Consume(db, Stamp(r))
    /\ call' = [call EXCEPT ![c].stage = "reserved", ![c].epoch = db.policy.epoch]
    /\ UNCHANGED vars

MayKeep(c, r) ==
    /\ db.policy.enabled
    /\ db.policy.epoch = call[c].epoch
    /\ db.policy.watermark = r.sequence
    /\ Store!Storable(db, r)
    /\ Store!Insertable(db, Store!NewFact(db, r))
Keeps(c) ==
    \E r \in Asks(c) : MayKeep(c, r) /\ db' = Store!Insert(db, Store!NewFact(db, r))

Keep(c) ==
    /\ At(c, "reserved")
    /\ Keeps(c)
    /\ Ends(c, "stored", TRUE)
    /\ UNCHANGED vars

\* capture returns for a reason that it finds or the host gives.
Refused(c) ==
    /\ \/ At(c, "prepared")
       \/ At(c, "opened") /\ \A r \in Asks(c) : ~Reservable(r)
       \/ At(c, "reserved")
    /\ Ends(c, "refused", FALSE)
    /\ UNCHANGED <<vars, db>>

\* A slip: the result that capture was to give is taken for granted.
RaisedTakenAsRefused == "refused"
Raised == "storage_unknown"

\* A transaction raises, before its image was replaced or after.
Raises(c) ==
    /\ ~At(c, "idle")
    /\ UNCHANGED vars
    /\ \/ UNCHANGED db /\ Ends(c, Raised, FALSE)
       \/ /\ At(c, "opened")
          /\ \E r \in Asks(c) : Reservable(r) /\ db' = Store!Consume(db, Stamp(r))
          /\ Ends(c, Raised, FALSE)
       \/ /\ At(c, "reserved")
          /\ Keeps(c)
          /\ Ends(c, Raised, TRUE)

-----------------------------------------------------------------------------
(* Around the calls *)

\* A usual hook of Hermes, or a prepare_authorized whose turn is not prepared.
Hook == Next /\ UNCHANGED <<db, call>>

OwnerSetsConsent(enabled) ==
    /\ db.policy.epoch < MaxEpoch
    /\ db' = Store!SetConsent(db, enabled)
    /\ UNCHANGED <<vars, call>>

OwnerForgets(id) ==
    /\ db.policy.epoch < MaxEpoch
    /\ db' = Store!Forget(db, id)
    /\ UNCHANGED <<vars, call>>

\* The host's process is started again: only the ledger is still there.
Restart ==
    /\ runtime' = NewRuntime
    /\ active' = [s \in Sessions |-> None]
    /\ prepared' = [s \in Sessions |-> None]
    /\ call' = [c \in Callers |-> NoCall]
    /\ UNCHANGED db

HostNext ==
    \/ Hook
    \/ \E c \in Callers :
          \/ \E t \in Turns : BeginTurn(c, t)
          \/ NoCapture(c) \/ OpenCapture(c) \/ Reserve(c) \/ Keep(c)
          \/ Refused(c) \/ Raises(c)
    \/ \E enabled \in BOOLEAN : OwnerSetsConsent(enabled)
    \/ \E id \in Turns : OwnerForgets(id)
    \/ Restart

HostSpec == HostInit /\ [][HostNext]_hostVars

-----------------------------------------------------------------------------
(* Properties *)

(***************************************************************************)
(* A message is kept only if, when its turn was prepared, neither it nor   *)
(* its session was one not to be saved, whatever turns of that session     *)
(* were answered, prepared or given up between its preparation and its     *)
(* capture, and whatever the adapter remembers of the session by then.     *)
(***************************************************************************)
NoSaveTurnsNotKept ==
    [][\A c \in Callers :
          call'[c].kept /\ ~call[c].kept
              => ~call[c].asked /\ call[c].turn \notin MarkedNoSave]_hostVars

(***************************************************************************)
(* The capture that a turn reports is what became of its message: one that *)
(* was stored is in the memory until it is forgotten, and one that was not *)
(* reported as stored or unknown was not kept.                             *)
(***************************************************************************)
CaptureHonest ==
    \A c \in Callers : At(c, "idle") =>
        /\ call[c].capture = "stored"
              => call[c].turn \in Store!Ids(db.facts) \cup db.erased
        /\ call[c].kept => call[c].capture \in {"stored", "storage_unknown"}
=============================================================================
