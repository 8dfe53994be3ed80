---------------------------- MODULE PersonalStore ----------------------------
(***************************************************************************)
(* The relational image behind src/humanlike_agent/personal.py, for one    *)
(* namespace (owner, profile, session), and the transactions run on it.    *)
(*                                                                         *)
(* Every transaction of the code deserializes the image, changes it in     *)
(* memory and replaces the file, so an image is a value here: "db" is a    *)
(* record with one field per table, and a transaction is an operator that  *)
(* returns the next image.  PersonalMemory and NativeController hold the   *)
(* current image in a variable; LedgerFile models how it reaches the disk. *)
(*                                                                         *)
(* A record id is the digest of (namespace, event id), so the event id     *)
(* stands for it.  A group is a (key, domain, condition) triple.  The      *)
(* stored columns no transaction reads (digests, terms, confidence) are    *)
(* left out.                                                               *)
(***************************************************************************)
EXTENDS Naturals, FiniteSets

CONSTANTS Events,        \* host event ids, hence record ids
          Sessions,      \* sessions that own no-save / no-recall flags
          Groups,        \* (key, domain, condition) triples
          Values,        \* canonical values
          Kinds,         \* preference, goal, interest
          MaxSequence,   \* the largest sequence: 2^63 - 1 in the code
          GroupLimit,    \* the most live facts of a group: 256 in the code
          NoEvent        \* no target

ASSUME NoEventAssumption == NoEvent \notin Events
ASSUME BoundsAssumption == /\ MaxSequence \in Nat \ {0}
                           /\ GroupLimit \in Nat \ {0}

Sequences == 1 .. MaxSequence
Operations == {"remember", "change", "correct", "confirm"}
Relations == {"asserts", "contradicts", "confirms", "supersedes", "corrects"}
Actions == {"consent", "disable", "no_save", "no_recall", "resume"}

\* The (enabled, epoch, watermark) triple of personal_policy.
Policy == [enabled : BOOLEAN, epoch : Nat, watermark : 0 .. MaxSequence]

\* One host-attested event reference and its transport sequence.
Stamp == [event : Events, sequence : Sequences]

\* A resolved HumanEvent with the Candidate its text spells out.
Request == [event : Events, sequence : Sequences, at : Nat, group : Groups,
            op : Operations, value : Values, kind : Kinds,
            target : Events \cup {NoEvent}, targets : SUBSET Events]

\* A live memory_records row joined with its personal_records row.
Fact == [id : Events, group : Groups, value : Values, kind : Kinds,
         relation : Relations, target : Events \cup {NoEvent},
         supersedes : SUBSET Events, sequence : Sequences, at : Nat]

Modes == [no_save : BOOLEAN, no_recall : BOOLEAN]

(***************************************************************************)
(* consumed[e] is the sequence stored with event e, 0 while it is unused.  *)
(* replacements is memory_supersessions: its rows outlive both records.    *)
(***************************************************************************)
Image == [policy : Policy,
          consumed : [Events -> 0 .. MaxSequence],
          facts : SUBSET Fact,
          erased : SUBSET Events,
          replacements : SUBSET [target : Events, superseder : Events],
          modes : [Sessions -> Modes]]

EmptyImage ==
    [policy |-> [enabled |-> FALSE, epoch |-> 0, watermark |-> 0],
     consumed |-> [e \in Events |-> 0],
     facts |-> {},
     erased |-> {},
     replacements |-> {},
     modes |-> [s \in Sessions |-> [no_save |-> FALSE, no_recall |-> FALSE]]]

-----------------------------------------------------------------------------
(* Reads *)

Group(db, g) == {f \in db.facts : f.group = g}
Ids(F) == {f.id : f \in F}

\* Fault: replaced facts stay eligible.
ActiveOrReplaced(F) == {f \in F : f.relation # "confirms"}

\* PersonalMemory._active, over the facts of one group.
Active(F) ==
    {f \in F : f.relation # "confirms" /\ \A h \in F : f.id \notin h.supersedes}

\* inspect_page decides activity from the supersession table instead.
ActiveInPage(db, f) ==
    /\ f.relation # "confirms"
    /\ \A p \in db.replacements : p.target = f.id => p.superseder \notin Ids(db.facts)

Earliest(F) == CHOOSE f \in F : \A h \in F : f.sequence <= h.sequence

\* recall: one active fact when they all agree, nothing otherwise.
Recall(db, g) ==
    LET active == Active(Group(db, g)) IN
    IF db.policy.enabled /\ Cardinality({<<f.value, f.kind>> : f \in active}) = 1
    THEN {Earliest(active)}
    ELSE {}

\* management_targets for a forget: one representative of the lineage.
Representative(db, g) ==
    LET active == Active(Group(db, g)) IN
    IF active = {} THEN {} ELSE {Earliest(active)}

-----------------------------------------------------------------------------
(* The decision of _store *)

Full(db, r) == Cardinality(Group(db, r.group)) >= GroupLimit
Outdated(db, r) == \E f \in Group(db, r.group) : r.at < f.at

\* A correction that names the whole active group.
ReplacesGroup(db, r) ==
    LET active == Active(Group(db, r.group)) IN
    /\ r.targets # {}
    /\ r.op = "correct"
    /\ r.targets = Ids(active)
    /\ \A f \in active : f.kind = r.kind

\* Fault: the target is looked up in every lineage of the namespace.
ActsOnAnyLineage(db, r) ==
    /\ r.targets = {}
    /\ r.op # "remember"
    /\ \E f \in Active(db.facts) :
          /\ f.id = r.target
          /\ f.kind = r.kind
          /\ r.op = "confirm" => f.value = r.value
          /\ r.op = "change" => f.value # r.value

\* A change, correction or confirmation of one active fact.
ActsOnOne(db, r) ==
    /\ r.targets = {}
    /\ r.op # "remember"
    /\ \E f \in Active(Group(db, r.group)) :
          /\ f.id = r.target
          /\ f.kind = r.kind
          /\ r.op = "confirm" => f.value = r.value
          /\ r.op = "change" => f.value # r.value

Remembers(r) == r.targets = {} /\ r.op = "remember" /\ r.target = NoEvent

Storable(db, r) ==
    /\ ~Full(db, r)
    /\ ~Outdated(db, r)
    /\ ReplacesGroup(db, r) \/ ActsOnOne(db, r) \/ Remembers(r)

\* The active facts that already say what a "remember" says.
Same(db, r) ==
    {f \in Active(Group(db, r.group)) : f.value = r.value /\ f.kind = r.kind}

Relation(db, r) ==
    CASE r.op = "correct" -> "corrects"
      [] r.op = "change"  -> "supersedes"
      [] r.op = "confirm" -> "confirms"
      [] OTHER -> IF Same(db, r) # {} THEN "confirms"
                  ELSE IF Active(Group(db, r.group)) # {} THEN "contradicts"
                  ELSE "asserts"

TargetOf(db, r) ==
    IF r.op # "remember" THEN r.target
    ELSE IF Same(db, r) # {} THEN Earliest(Same(db, r)).id
    ELSE NoEvent

\* Fault: a confirmation replaces what it confirms.
SupersededByConfirmation(db, r) ==
    CASE r.targets # {} -> r.targets
      [] r.targets = {} /\ r.op # "remember" -> {r.target}
      [] OTHER -> {}

SupersededBy(db, r) ==
    CASE r.targets # {} -> r.targets
      [] r.targets = {} /\ r.op \in {"change", "correct"} -> {r.target}
      [] OTHER -> {}

NewFact(db, r) ==
    [id |-> r.event, group |-> r.group, value |-> r.value, kind |-> r.kind,
     relation |-> Relation(db, r), target |-> TargetOf(db, r),
     supersedes |-> SupersededBy(db, r), sequence |-> r.sequence, at |-> r.at]

(***************************************************************************)
(* What _validate_supersessions and the primary keys of the two tables     *)
(* demand of an insertion; the code raises when they are not met.  The     *)
(* profile and session checks compare the namespace with itself here.      *)
(***************************************************************************)
Insertable(db, f) ==
    /\ f.id \notin Ids(db.facts) \cup db.erased
    /\ f.id \notin f.supersedes
    /\ \A t \in f.supersedes :
          /\ \E h \in db.facts : h.id = t /\ h.at <= f.at
          /\ \A p \in db.replacements : p.target # t

-----------------------------------------------------------------------------
(* Transactions *)

\* Fault: only the event is fenced.
FreshEvent(db, stamp) == db.consumed[stamp.event] = 0

\* Both replay fences: the event is unused and its sequence is new.
Fresh(db, stamp) ==
    /\ db.consumed[stamp.event] = 0
    /\ stamp.sequence > db.policy.watermark

Consume(db, stamp) ==
    [db EXCEPT !.consumed[stamp.event] = stamp.sequence,
               !.policy = [enabled |-> @.enabled, epoch |-> @.epoch,
                           watermark |-> stamp.sequence]]

\* What every revoking transaction writes: the epoch always moves on.
Revised(policy, enabled, watermark) ==
    [enabled |-> enabled, epoch |-> policy.epoch + 1, watermark |-> watermark]

\* enable and disable of the Python API: no event, no sequence.
SetConsent(db, enabled) ==
    [db EXCEPT !.policy = Revised(@, enabled, @.watermark)]

EnabledAfter(enabled, action) ==
    action = "consent" \/ (enabled /\ action # "disable")

ModeAfter(mode, action) ==
    CASE action = "resume"    -> [no_save |-> FALSE, no_recall |-> FALSE]
      [] action = "no_save"   -> [mode EXCEPT !.no_save = TRUE]
      [] action = "no_recall" -> [mode EXCEPT !.no_recall = TRUE]
      [] OTHER -> mode

\* Fault: a session flag changes without revoking pending work.
ControlKeepingEpoch(db, action, session, stamp) ==
    IF action \in {"consent", "disable"}
    THEN [Consume(db, stamp) EXCEPT
             !.policy = Revised(@, EnabledAfter(@.enabled, action), @.watermark)]
    ELSE [Consume(db, stamp) EXCEPT !.modes[session] = ModeAfter(@, action)]

\* control, once its fences let the event through.
Control(db, action, session, stamp) ==
    [Consume(db, stamp) EXCEPT
        !.policy = Revised(@, EnabledAfter(@.enabled, action), @.watermark),
        !.modes[session] = ModeAfter(@, action)]

\* The last lines of _store: insert the record, its row and its supersessions.
Insert(db, f) ==
    [db EXCEPT !.facts = @ \cup {f},
               !.replacements = @ \cup
                   {[target |-> t, superseder |-> f.id] : t \in f.supersedes}]

\* The live lineage a forget of record id erases.
Lineage(db, id) ==
    {f \in db.facts : \E h \in db.facts : h.id = id /\ h.group = f.group}

\* Fault: rows are deleted without a tombstone.
ForgetUntraced(db, id) ==
    [db EXCEPT !.policy = Revised(@, @.enabled, @.watermark),
               !.facts = @ \ Lineage(db, id)]

\* Fault: an erasure leaves the epoch alone.
ForgetKeepingEpoch(db, id) ==
    [db EXCEPT !.facts = @ \ Lineage(db, id),
               !.erased = @ \cup Ids(Lineage(db, id))]

\* The epoch moves whether or not the record is found.
Forget(db, id) ==
    [db EXCEPT !.policy = Revised(@, @.enabled, @.watermark),
               !.facts = @ \ Lineage(db, id),
               !.erased = @ \cup Ids(Lineage(db, id))]
=============================================================================
