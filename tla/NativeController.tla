--------------------------- MODULE NativeController ---------------------------
(***************************************************************************)
(* NativeController of src/humanlike_agent/native.py for one chat of one   *)
(* owner: slash commands, admitted chat messages, proposals, one-use       *)
(* challenges, and the context prepared for a model.  The controller runs  *)
(* one handler at a time under its lock, but every look at the ledger is a *)
(* transaction of its own: another process that uses the same ledger, the  *)
(* outsider, may act between any two of them.                              *)
(*                                                                         *)
(* The other chats only matter because the maps are bounded: their entries *)
(* push this chat's out.  A text is what parse_request makes of it; an     *)
(* event id is the digest of the message number, which stands for it.      *)
(***************************************************************************)
EXTENDS PersonalStore

CONSTANTS Texts,        \* the parsed requests the owner may send
          AskedAt,      \* the numbers of messages that ask or propose
          Questions,    \* ordinary messages
          Outside,      \* captures the outsider may make
          OutsideModes, \* session controls the outsider may apply
          MaxEpoch,     \* bound on revocations, for TLC
          MaxEvictions, \* bound on entries pushed out of the maps, for TLC
          AnyGroup,     \* "forget that" names no group
          None

ASSUME MessagesAreEvents == Events = Sequences
ASSUME TextsAssumption ==
    /\ Texts \subseteq [action : {"consent", "remember", "correct", "forget", "resume",
                               "confirm", "cancel", "disable", "no_save", "no_recall"},
                     group : Groups \cup {AnyGroup}, value : Values]
    /\ \A text \in Texts : text.group = AnyGroup => text.action = "forget"
ASSUME AskedAtAssumption == AskedAt \subseteq Sequences
ASSUME OutsideAssumption ==
    /\ Outside \subseteq Request /\ OutsideModes \subseteq {"no_save", "no_recall"}
    /\ \A r \in Outside : r.targets # {} => r.target = NoEvent
ASSUME PreferenceIsKind == "preference" \in Kinds
ASSUME NoneAssumption == None \notin Policy /\ None \notin Sessions \cup Questions
ASSUME NativeBounds == {MaxEpoch, MaxEvictions} \subseteq Nat

VARIABLES db,         \* the ledger's image
          bound,      \* sessions bound to this chat
          pending,    \* a proposal made in chat
          challenge,  \* the request a token was shown for
          tickets,    \* per session, the admitted question a context may be prepared for
          used,       \* what the last context was prepared from
          expired,    \* the approvals whose deadline has passed
          op,         \* the handler in progress
          joining,    \* the session whose turn the bridge adds a context to
          outsider,   \* the outsider's reserved capture
          revoked,    \* history: approvals made before the policy last moved
          cancelled,  \* history: approvals made before the owner last cancelled
          spent,      \* history: approvals that were taken up
          strayed,    \* history: a binding was pushed out since the proposal was made
          evictions

maps == <<bound, pending, challenge, tickets, used, expired>>
ghosts == <<revoked, cancelled, spent, strayed>>
vars == <<db, maps, op, joining, outsider, ghosts, evictions>>

Approvals == {"challenge", "pending"}
Optional(S) == S \cup {None}

\* A proposal's deadline, which no two of them share, tells them apart; a name
\* stands for it.  from: history, the session a proposal was made in.
Names == {"a", "b"}
Proposal == [text : Texts, policy : Policy, targets : SUBSET Events,
             name : Names, from : Sessions]
Challenge == [session : Sessions, text : Texts, policy : Policy, n : Sequences,
              pending : Optional(Names)]
Stages == {"idle", "ask", "verify", "require", "modes", "control", "policy", "targets",
           "recheck", "open", "reserve", "commit", "erase",
           "context", "context_modes", "recall", "context_recheck"}
Op == [stage : Stages,
       session : Optional(Sessions), text : Optional(Texts), direct : BOOLEAN,
       n : 0 .. MaxSequence, question : Optional(Questions),
       required : Optional(Policy),   \* the policy an approval was given under
       policy : Optional(Policy),     \* the policy as read by this handler
       no_save : BOOLEAN,             \* the session's flag as read by this handler
       targets : SUBSET Events, rows : SUBSET Fact, epoch : Nat,
       basis : SUBSET Approvals,      \* history: what the handler acts on
       from : Optional(Sessions)]

TypeOK ==
    /\ db \in Image
    /\ bound \subseteq Sessions
    /\ pending \in Optional(Proposal)
    /\ challenge \in Optional(Challenge)
    /\ tickets \in [Sessions -> Optional(Questions)]
    /\ used = None \/ used \in [policy : Policy, rows : SUBSET Fact, added : BOOLEAN]
    /\ joining \in Optional(Sessions)
    /\ expired \subseteq Approvals
    /\ op \in Op
    /\ outsider = None \/ outsider \in [request : Outside, epoch : Nat]
    /\ revoked \subseteq Approvals /\ cancelled \subseteq Approvals
    /\ spent \subseteq Approvals /\ strayed \in BOOLEAN
    /\ evictions \in 0 .. MaxEvictions

NoOp == [stage |-> "idle", session |-> None, text |-> None, direct |-> FALSE, n |-> 0,
         question |-> None, required |-> None, policy |-> None, no_save |-> FALSE,
         targets |-> {}, rows |-> {}, epoch |-> 0, basis |-> {}, from |-> None]

Init ==
    /\ db = EmptyImage
    /\ bound = {} /\ pending = None /\ challenge = None /\ used = None
    /\ tickets = [s \in Sessions |-> None]
    /\ expired = {}
    /\ op = NoOp /\ joining = None
    /\ outsider = None
    /\ revoked = {} /\ cancelled = {} /\ spent = {} /\ strayed = FALSE
    /\ evictions = 0

Idle == op.stage = "idle"
At(stage) == op.stage = stage
Goto(stage) == op' = [op EXCEPT !.stage = stage]
Done == op' = NoOp

\* The message a handler acts on, as an event of the ledger.
StampNow == [event |-> op.n, sequence |-> op.n]

\* The approvals a step takes up.
Taken == op'.basis \ op.basis

PendingName == IF pending = None THEN None ELSE pending.name

DropPending == pending' = None /\ expired' = expired \ {"pending"}
KeepPending == UNCHANGED <<pending, expired>>

-----------------------------------------------------------------------------
(* command *)

\* Fault: the conversation that was bound before is not finalized.
FinalizesNothing(s) == FALSE

\* A command finalizes the other session of this chat that was bound.
FinalizesOther(s) == bound \ {s} # {}

\* A command binds its session.
Bind(s) ==
    /\ bound' = {s}
    /\ IF FinalizesOther(s)
       THEN /\ DropPending /\ used' = None
            /\ tickets' = [t \in Sessions |-> IF t \in bound \ {s} THEN None ELSE tickets[t]]
       ELSE KeepPending /\ UNCHANGED <<used, tickets>>

ChallengeAfterBind(s) == IF FinalizesOther(s) THEN None ELSE challenge

Handle(s, text, direct, n) ==
    [NoOp EXCEPT !.stage = "modes", !.session = s, !.text = text, !.direct = direct, !.n = n]

\* Actions that need a fresh answer to a challenge.
Guarded == {"consent", "remember", "correct", "forget", "resume", "confirm"}

CommandAsks(s, text, n) ==
    /\ Idle
    /\ text.action \in Guarded
    /\ Bind(s)
    /\ challenge' = ChallengeAfterBind(s)
    /\ op' = [Handle(s, text, TRUE, n) EXCEPT !.stage = "ask"]
    /\ UNCHANGED <<db, outsider, ghosts, evictions>>

\* A new approval has no history.
Renew(approval) ==
    /\ revoked' = revoked \ {approval}
    /\ cancelled' = cancelled \ {approval}
    /\ spent' = spent \ {approval}

\* _challenge
Ask ==
    /\ At("ask")
    /\ challenge' = [session |-> op.session, text |-> op.text, policy |-> db.policy,
                     n |-> op.n, pending |-> PendingName]
    /\ expired' = expired \ {"challenge"}
    /\ Renew("challenge") /\ UNCHANGED strayed
    /\ Done
    /\ UNCHANGED <<db, bound, pending, tickets, used, outsider, evictions>>

\* cancel, disable, no_save and no_recall take effect without a challenge.
CommandTightens(s, text, n) ==
    /\ Idle
    /\ text.action \notin Guarded
    /\ Bind(s)
    /\ challenge' = None
    /\ op' = Handle(s, text, TRUE, n)
    /\ UNCHANGED <<db, outsider, ghosts, evictions>>

\* Fault: an answer is accepted after its deadline.
AcceptableLate(s, n, right) ==
    /\ right
    /\ challenge # None
    /\ challenge.session = s
    /\ ~FinalizesOther(s)
    /\ PendingName = challenge.pending
    /\ n > challenge.n

\* The checks of a confirmation that do not need the ledger.
Acceptable(s, n, right) ==
    /\ right
    /\ challenge # None
    /\ challenge.session = s
    /\ "challenge" \notin expired
    /\ ~FinalizesOther(s)
    /\ PendingName = challenge.pending
    /\ n > challenge.n

\* "confirm TOKEN": a wrong or outdated token uses the challenge up as well.
CommandConfirms(s, n, right) ==
    /\ Idle
    /\ Bind(s)
    /\ challenge' = None
    /\ op' = IF Acceptable(s, n, right)
             THEN [Handle(s, challenge.text, TRUE, n) EXCEPT
                      !.stage = "verify", !.required = challenge.policy,
                      !.basis = {"challenge"}]
             ELSE NoOp
    /\ spent' = spent \cup Taken
    /\ UNCHANGED <<db, outsider, revoked, cancelled, strayed, evictions>>

Verify ==
    /\ At("verify")
    /\ IF db.policy = op.required THEN Goto("require") ELSE Done
    /\ UNCHANGED <<db, maps, outsider, ghosts, evictions>>

-----------------------------------------------------------------------------
(* admitted: a chat message of the one bound conversation *)

\* A chat message that reads as a request is handled, but not directly.
ChatRequests(text, n) ==
    /\ Idle
    /\ \E s \in Sessions : bound = {s} /\ op' = Handle(s, text, FALSE, n)
    /\ UNCHANGED <<db, maps, outsider, ghosts, evictions>>


\* An ordinary message gets a ticket.
ChatAsks(q) ==
    /\ Idle
    /\ \E s \in Sessions : bound = {s} /\ tickets' = [tickets EXCEPT ![s] = q]
    /\ UNCHANGED <<db, bound, pending, expired, challenge, used, op, outsider, ghosts, evictions>>

\* A message that also says not to save: first the control, then the ticket.
ChatAsksUnsaved(q, n) ==
    /\ Idle
    /\ \E s \in Sessions, text \in Texts :
          /\ bound = {s}
          /\ text.action = "no_save"
          /\ op' = [Handle(s, text, FALSE, n) EXCEPT !.question = q]
    /\ UNCHANGED <<db, maps, outsider, ghosts, evictions>>

-----------------------------------------------------------------------------
(* _handle *)

Require ==
    /\ At("require")
    /\ IF db.policy = op.required THEN Goto("modes") ELSE Done
    /\ UNCHANGED <<db, maps, outsider, ghosts, evictions>>

\* Fault: consent given in chat counts.
DirectOnlyButConsent == {"resume"}

\* Requests that chat cannot make.
DirectOnly == {"resume", "consent"}

\* session_mode, and what can be decided before the policy is read.
ReadModes ==
    /\ At("modes")
    /\ IF op.text.action \in DirectOnly /\ ~op.direct
       THEN Done /\ KeepPending /\ UNCHANGED cancelled
       ELSE IF op.text.action = "cancel"
       THEN Done /\ DropPending /\ cancelled' = Approvals
       ELSE /\ op' = [op EXCEPT
                  !.no_save = db.modes[op.session].no_save,
                  !.stage = IF op.text.action \in {"no_save", "no_recall", "resume"}
                            THEN "control" ELSE "policy"]
            /\ KeepPending /\ UNCHANGED cancelled
    /\ UNCHANGED <<db, bound, challenge, tickets, used, outsider, revoked, spent, strayed,
                   evictions>>

ControlApplies ==
    /\ op.required # None => op.required = db.policy
    /\ Fresh(db, StampNow)

\* control: an applied one drops the proposal; disabling drops what was used.
ApplyControl ==
    /\ At("control")
    /\ ControlApplies
    /\ db.policy.epoch < MaxEpoch
    /\ db' = Control(db, op.text.action, op.session, StampNow)
    /\ DropPending
    /\ used' = IF op.text.action = "disable" THEN None ELSE used
    /\ tickets' = IF op.question = None THEN tickets
                  ELSE [tickets EXCEPT ![op.session] = op.question]
    /\ revoked' = Approvals
    /\ Done
    /\ UNCHANGED <<bound, challenge, outsider, cancelled, spent, strayed, evictions>>

RefuseControl ==
    /\ At("control")
    /\ ~ControlApplies
    /\ Done
    /\ UNCHANGED <<db, maps, outsider, ghosts, evictions>>

\* A confirmed proposal that still stands.
ProposalStands ==
    /\ op.direct
    /\ pending # None
    /\ pending.policy = db.policy
    /\ "pending" \notin expired

\* Fault: the session's no-save is forgotten on the way.
MutedByPolicy == ~db.policy.enabled

\* Nothing may be saved.
Muted == ~db.policy.enabled \/ op.no_save

ReadPolicy ==
    /\ At("policy")
    /\ CASE op.text.action \in {"consent", "disable"} ->
              Goto("control") /\ KeepPending
         [] op.text.action \in {"remember", "correct"}
              /\ Muted ->
              Done /\ KeepPending
         [] op.text.action = "confirm" /\ ~ProposalStands ->
              Done /\ DropPending
         [] op.text.action = "confirm" /\ ProposalStands ->
              /\ IF pending.text.action # "forget" /\ Muted
                 THEN Done
                 ELSE op' = [op EXCEPT
                        !.stage = IF pending.text.action = "forget" THEN "erase" ELSE "open",
                        !.policy = db.policy, !.text = pending.text,
                        !.required = pending.policy, !.targets = pending.targets,
                        !.basis = @ \cup {"pending"}, !.from = pending.from]
              /\ DropPending
         [] OTHER ->
              op' = [op EXCEPT !.stage = "targets", !.policy = db.policy] /\ KeepPending
    /\ spent' = spent \cup Taken
    /\ UNCHANGED <<db, bound, challenge, tickets, used, outsider, revoked, cancelled, strayed,
                   evictions>>

Named(text) == IF text.group = AnyGroup THEN Groups ELSE {text.group}

\* management_targets: the active facts, or one of each lineage for a forget.
ReadTargets ==
    /\ At("targets")
    /\ op' = [op EXCEPT
         !.stage = "recheck",
         !.rows = UNION {IF op.text.action = "forget" THEN Representative(db, g)
                         ELSE Active(Group(db, g)) : g \in Named(op.text)}]
    /\ UNCHANGED <<db, maps, outsider, ghosts, evictions>>

Conflict == op.text.action = "remember" /\ \E f \in op.rows : f.value # op.text.value

\* One target for a forget, all of them for a correction.
NoTarget ==
    \/ op.text.action = "correct" /\ op.rows = {}
    \/ op.text.action = "forget" /\ Cardinality(op.rows) # 1
Targets == IF op.text.action = "remember" THEN {} ELSE Ids(op.rows)

NewName == CHOOSE name \in Names : challenge # None => challenge.pending # name

\* The policy is read again; then a direct request goes on, one made in chat
\* becomes a proposal.
RecheckTargets ==
    /\ At("recheck")
    /\ CASE db.policy # op.policy \/ (~Conflict /\ NoTarget) ->
              Done /\ KeepPending /\ UNCHANGED ghosts
         [] db.policy = op.policy /\ Conflict ->
              Done /\ DropPending /\ UNCHANGED ghosts
         [] db.policy = op.policy /\ ~Conflict /\ ~NoTarget /\ ~op.direct ->
              /\ pending' = [text |-> op.text, policy |-> op.policy, targets |-> Targets,
                             name |-> NewName, from |-> op.session]
              /\ expired' = expired \ {"pending"}
              /\ Renew("pending") /\ strayed' = FALSE
              /\ Done
         [] OTHER ->
              /\ op' = [op EXCEPT
                    !.stage = IF op.text.action = "forget" THEN "erase" ELSE "open",
                    !.targets = Targets, !.rows = {}]
              /\ KeepPending /\ UNCHANGED ghosts
    /\ UNCHANGED <<db, bound, challenge, tickets, used, outsider, evictions>>

-----------------------------------------------------------------------------
(* The ledger's part: forget and capture, tied to the approved policy *)

\* Fault: the transaction is not tied to the approved policy.
UntiedPolicy == TRUE

Expected == db.policy = op.required

Erase ==
    /\ At("erase")
    /\ IF Expected /\ Fresh(db, StampNow)
       THEN /\ db.policy.epoch < MaxEpoch
            /\ \E id \in op.targets : db' = Forget(Consume(db, StampNow), id)
            /\ revoked' = Approvals
       ELSE UNCHANGED <<db, revoked>>
    /\ DropPending
    /\ used' = None
    /\ Done
    /\ UNCHANGED <<bound, challenge, tickets, outsider, cancelled, spent, strayed, evictions>>

\* capture returns early, whatever the reason.
Unsaved == Done /\ used' = None /\ UNCHANGED <<db, revoked>>

Open ==
    /\ At("open")
    /\ IF db.policy.enabled THEN Goto("reserve") /\ UNCHANGED <<db, used, revoked>>
       ELSE Unsaved
    /\ UNCHANGED <<bound, pending, challenge, tickets, expired, outsider, cancelled, spent,
                   strayed, evictions>>

Reserve ==
    /\ At("reserve")
    /\ IF Expected /\ db.policy.enabled /\ Fresh(db, StampNow)
       THEN /\ db' = Consume(db, StampNow)
            /\ op' = [op EXCEPT !.stage = "commit", !.epoch = db.policy.epoch]
            /\ revoked' = revoked \cup (Approvals \ op.basis)
            /\ UNCHANGED used
       ELSE Unsaved
    /\ UNCHANGED <<bound, pending, challenge, tickets, expired, outsider, cancelled, spent,
                   strayed, evictions>>

Captured ==
    [event |-> op.n, sequence |-> op.n, at |-> op.n, group |-> op.text.group,
     op |-> op.text.action, value |-> op.text.value, kind |-> "preference",
     target |-> NoEvent, targets |-> op.targets]

MayStore(r, epoch) ==
    /\ db.policy.enabled
    /\ db.policy.epoch = epoch
    /\ db.policy.watermark = r.sequence
    /\ Storable(db, r)
    /\ Insertable(db, NewFact(db, r))

Commit ==
    /\ At("commit")
    /\ IF MayStore(Captured, op.epoch)
       THEN /\ db' = Insert(db, NewFact(db, Captured))
            /\ Done /\ used' = None /\ UNCHANGED revoked
       ELSE Unsaved
    /\ UNCHANGED <<bound, pending, challenge, tickets, expired, outsider, cancelled, spent,
                   strayed, evictions>>

-----------------------------------------------------------------------------
(* context: reference data for the model, once per ticket *)

ContextBegins(s, q) ==
    /\ Idle /\ joining = None /\ joining' = s
    /\ tickets' = [tickets EXCEPT ![s] = None]
    /\ used' = IF s \in bound THEN None ELSE used
    /\ op' = IF tickets[s] = q
             THEN [NoOp EXCEPT !.stage = "context", !.session = s, !.question = q]
             ELSE NoOp
    /\ UNCHANGED <<db, bound, pending, expired, challenge, outsider, ghosts, evictions>>

ContextPolicy ==
    /\ At("context")
    /\ op' = [op EXCEPT !.stage = "context_modes", !.policy = db.policy]
    /\ UNCHANGED <<db, maps, outsider, ghosts, evictions>>

ContextModes ==
    /\ At("context_modes")
    /\ IF db.modes[op.session].no_recall \/ ~op.policy.enabled THEN Done ELSE Goto("recall")
    /\ UNCHANGED <<db, maps, outsider, ghosts, evictions>>

\* An answer is drawn from one group.
ContextRecall ==
    /\ At("recall")
    /\ \E g \in Groups :
          op' = [op EXCEPT !.stage = "context_recheck", !.rows = Recall(db, g)]
    /\ UNCHANGED <<db, maps, outsider, ghosts, evictions>>

\* Fault: the policy is not read again.
PreparedUnchecked == TRUE
Prepared == db.policy = op.policy

ContextPrepared ==
    /\ At("context_recheck")
    /\ used' = IF Prepared THEN [policy |-> op.policy, rows |-> op.rows, added |-> FALSE]
             ELSE used
    /\ Done
    /\ UNCHANGED <<db, bound, pending, challenge, tickets, expired, outsider, ghosts,
                   evictions>>

-----------------------------------------------------------------------------
(* pre of hermes_plugin: the context joins what the adapter has for a turn *)

InContext == op.stage \in {"context", "context_modes", "recall", "context_recheck"}

ContextAdded ==
    /\ joining # None /\ ~InContext
    /\ used' = IF used = None THEN None ELSE [used EXCEPT !.added = TRUE]
    /\ joining' = None
    /\ UNCHANGED <<db, bound, pending, challenge, tickets, expired, op, outsider, ghosts,
                   evictions>>

\* A slip: what was prepared is kept.
NotAddedKept == joining # None /\ Idle /\ joining' = None
                /\ UNCHANGED <<db, maps, op, outsider, ghosts, evictions>>

\* The adapter has nothing to add to, or both are too long together.
ContextNotAdded ==
    /\ joining # None /\ Idle
    /\ used' = IF joining \in bound THEN None ELSE used
    /\ joining' = None
    /\ UNCHANGED <<db, bound, pending, challenge, tickets, expired, op, outsider, ghosts,
                   evictions>>

-----------------------------------------------------------------------------
(* The host's side *)

Finalize(s) ==
    /\ Idle
    /\ bound' = bound \ {s}
    /\ tickets' = [tickets EXCEPT ![s] = None]
    /\ IF s \in bound THEN DropPending /\ used' = None /\ challenge' = None
       ELSE KeepPending /\ UNCHANGED <<used, challenge>>
    /\ UNCHANGED <<db, op, outsider, ghosts, evictions>>

Restart ==
    /\ bound' = {} /\ DropPending /\ challenge' = None /\ used' = None /\ joining' = None
    /\ tickets' = [s \in Sessions |-> None]
    /\ Done
    /\ UNCHANGED <<db, outsider, ghosts, evictions>>

\* The ledger raises: handle drops the proposal, _challenge the challenge.
Fails ==
    /\ ~Idle
    /\ IF InContext \/ op.stage \in {"ask", "verify"}
       THEN KeepPending ELSE DropPending
    /\ challenge' = IF op.stage = "ask" THEN None ELSE challenge
    /\ Done
    /\ UNCHANGED <<db, bound, tickets, used, outsider, ghosts, evictions>>

\* The challenge was shown after the proposal was made; any other one before.
ShownFor == pending # None /\ challenge # None /\ challenge.pending = pending.name

\* Deadlines pass, of approvals in the order they were given.  A ticket past its
\* deadline is refused like a missing one.
Expire ==
    /\ \/ /\ pending # None /\ (ShownFor \/ challenge = None \/ "challenge" \in expired)
          /\ expired' = expired \cup {"pending"} /\ UNCHANGED tickets
       \/ /\ challenge # None /\ (ShownFor => "pending" \in expired)
          /\ expired' = expired \cup {"challenge"} /\ UNCHANGED tickets
       \/ \E s \in Sessions : /\ tickets[s] # None
                              /\ tickets' = [tickets EXCEPT ![s] = None]
                              /\ UNCHANGED expired
    /\ UNCHANGED <<db, bound, pending, challenge, used, op, outsider, ghosts, evictions>>

\* _bound: 128 younger entries of other chats push one of ours out.  For a
\* ticket that is the same as its deadline.
Evict ==
    /\ Idle
    /\ evictions < MaxEvictions
    /\ evictions' = evictions + 1
    /\ \/ /\ bound # {} /\ bound' = {} /\ strayed' = TRUE
          /\ KeepPending /\ UNCHANGED <<challenge, used>>
       \/ /\ pending # None /\ DropPending
          /\ UNCHANGED <<bound, challenge, used, strayed>>
       \/ /\ challenge # None /\ challenge' = None
          /\ KeepPending /\ UNCHANGED <<bound, used, strayed>>
       \/ /\ used # None /\ used' = None
          /\ KeepPending /\ UNCHANGED <<bound, challenge, strayed>>
    /\ UNCHANGED <<db, tickets, op, outsider, revoked, cancelled, spent>>

-----------------------------------------------------------------------------
(* Another process on the same ledger *)

Revoke ==
    revoked' = Approvals /\ UNCHANGED <<maps, op, cancelled, spent, strayed, evictions>>

OutsideConsent(enabled) ==
    /\ db.policy.epoch < MaxEpoch
    /\ db' = SetConsent(db, enabled)
    /\ Revoke /\ UNCHANGED outsider

OutsideControl(s, action, n) ==
    /\ db.policy.epoch < MaxEpoch
    /\ Fresh(db, [event |-> n, sequence |-> n])
    /\ db' = Control(db, action, s, [event |-> n, sequence |-> n])
    /\ Revoke /\ UNCHANGED outsider

OutsideForget(id) ==
    /\ db.policy.epoch < MaxEpoch
    /\ db' = Forget(db, id)
    /\ Revoke /\ UNCHANGED outsider

OutsideReserve(r) ==
    /\ outsider = None
    /\ db.policy.enabled
    /\ Fresh(db, [event |-> r.event, sequence |-> r.sequence])
    /\ db' = Consume(db, [event |-> r.event, sequence |-> r.sequence])
    /\ outsider' = [request |-> r, epoch |-> db.policy.epoch]
    /\ Revoke

OutsideCommit ==
    /\ outsider # None
    /\ db' = IF MayStore(outsider.request, outsider.epoch)
             THEN Insert(db, NewFact(db, outsider.request)) ELSE db
    /\ outsider' = None
    /\ UNCHANGED <<maps, op, ghosts, evictions>>

-----------------------------------------------------------------------------
Handles ==
    \/ \E s \in Sessions, text \in Texts :
          \/ \E n \in AskedAt : CommandAsks(s, text, n)
          \/ \E n \in Sequences : CommandTightens(s, text, n)
    \/ \E s \in Sessions, n \in Sequences, right \in BOOLEAN : CommandConfirms(s, n, right)
    \/ \E text \in Texts, n \in AskedAt : ChatRequests(text, n)
    \/ \E q \in Questions : ChatAsks(q)
    \/ \E q \in Questions, n \in Sequences : ChatAsksUnsaved(q, n)
    \/ Ask \/ Verify \/ Require \/ ReadModes \/ ApplyControl \/ RefuseControl
    \/ ReadPolicy \/ ReadTargets \/ RecheckTargets
    \/ Erase \/ Open \/ Reserve \/ Commit
    \/ ContextPolicy \/ ContextModes \/ ContextRecall \/ ContextPrepared
    \/ \E s \in Sessions : Finalize(s)
    \/ Fails \/ Expire \/ Evict
    \/ \E enabled \in BOOLEAN : OutsideConsent(enabled)
    \/ \E s \in Sessions, action \in OutsideModes, n \in Sequences :
          OutsideControl(s, action, n)
    \/ \E id \in Events : OutsideForget(id)
    \/ \E r \in Outside : OutsideReserve(r)
    \/ OutsideCommit

Next ==
    \/ Handles /\ UNCHANGED joining
    \/ \E s \in Sessions, q \in Questions : ContextBegins(s, q)
    \/ ContextAdded \/ ContextNotAdded \/ Restart

Spec == Init /\ [][Next]_vars

-----------------------------------------------------------------------------
(* Properties of a step the controller takes; an outsider's leaves op alone. *)

Stores == op' # op /\ db'.facts \ db.facts # {}

Expands ==
    /\ op' # op
    /\ \/ db'.facts # db.facts
       \/ db'.policy.enabled /\ ~db.policy.enabled
       \/ \E s \in Sessions :
             \/ db.modes[s].no_save /\ ~db'.modes[s].no_save
             \/ db.modes[s].no_recall /\ ~db'.modes[s].no_recall

\* Consent, resuming, saving and erasing only ever follow the answer to a
\* challenge; chat alone can propose and restrict.
OnlyAnswersExpand == [][Expands => op.direct /\ "challenge" \in op.basis]_vars

\* Nothing is saved or erased, and no consent given, on an approval that is
\* older than a move of the policy, in this process or another: a change of
\* consent, a control, an erasure, or the reservation of another event.  What
\* had its event reserved before the approval may still be stored after it and
\* does not count: the policy does not move.
NoOutdatedApproval == [][Expands => op.basis \cap revoked = {}]_vars

\* While a session is no-save, nothing is stored for it, whoever set the flag
\* and however late.
NoSaveHonoured == [][Stores => ~db.modes[op.session].no_save]_vars

\* A proposal is carried out only from the session it was made in, unless other
\* chats pushed that session's binding out of its map after it was made.
ApprovalsStayInSession ==
    [][Expands /\ "pending" \in op.basis /\ ~strayed => op.from = op.session]_vars

\* An approval is taken up at most once and never after its deadline, also when
\* a proposal's passes while the answer to its challenge is still being handled.
AnsweredOnceInTime == [][Taken \cap (spent \cup expired) = {}]_vars

\* Context is prepared only from facts that still exist, with consent on and
\* the session's no-recall off at that moment.
ContextHonoured ==
    [][used' # used /\ used' # None /\ ~used'.added =>
          /\ db.policy.enabled
          /\ ~db.modes[op.session].no_recall
          /\ used'.rows \subseteq db.facts]_vars

\* "Why did you use that" never shows a fact that has been forgotten since, for
\* the policy it compares has moved on, nor what did not become part of a turn,
\* unless other chats pushed the session's binding out meanwhile.
WhyIsCurrent ==
    TypeOK /\ (used # None =>
        /\ used.policy = db.policy => used.rows \subseteq db.facts
        /\ joining = None /\ evictions = 0 => used.added)

\* What the owner cancelled is not carried out.
CancelledStaysCancelled == [][Expands => op.basis \cap cancelled = {}]_vars

\* The controller never stores a preference that conflicts with an active one.
ConflictsNeverStored ==
    [][Stores => \A f \in db'.facts \ db.facts : f.relation # "contradicts"]_vars
=============================================================================
