------------------------- MODULE PersonalStoreProofs -------------------------
(***************************************************************************)
(* What the transactions of PersonalStore change and keep, for every image *)
(* and every value of the constants.  The proofs about its users cite      *)
(* these facts and never expand a transaction.                             *)
(***************************************************************************)
EXTENDS PersonalStore, FiniteSetTheorems, WellFoundedInduction, TLAPS

\* A non-empty set of naturals has a least element: the sets 0..n-1 are
\* well-founded under strict inclusion.
LEMMA LeastNatural ==
    ASSUME NEW S, S \subseteq Nat, S # {}
    PROVE  \E x \in S : \A y \in S : x <= y
<1> DEFINE Below(n) == 0 .. n - 1
           T == {Below(n) : n \in S}
           R == StrictSubsetOrdering(Nat)
<1>1. \A n \in Nat : Below(n) \in FiniteSubsetsOf(Nat)
  <2> TAKE n \in Nat
  <2>1. IsFiniteSet(Below(n))
    BY FS_Interval, n - 1 \in Int, 0 \in Int
  <2>2. Below(n) \subseteq Nat
    OBVIOUS
  <2> QED BY <2>1, <2>2 DEF FiniteSubsetsOf
<1>2. T \subseteq FiniteSubsetsOf(Nat) /\ T # {}
  BY <1>1
<1>3. PICK X \in T : \A Y \in T : <<Y, X>> \notin R
  <2> HIDE DEF T, R
  <2>1. IsWellFoundedOn(R, FiniteSubsetsOf(Nat))
    BY FS_StrictSubsetOrderingWellFounded DEF R
  <2> QED BY <1>2, <2>1, WFMin
<1>4. PICK x \in S : X = Below(x)
  BY <1>3
<1>5. \A y \in S : x <= y
  <2> TAKE y \in S
  <2>1. SUFFICES ASSUME y < x PROVE FALSE
    BY S \subseteq Nat
  <2>2. Below(y) \subseteq Below(x) /\ Below(y) # Below(x)
    BY <2>1, y \in Nat, x \in Nat, y \in Below(x), y \notin Below(y)
  <2>3. <<Below(y), Below(x)>> \in R
    BY <2>2, <1>1, x \in Nat, y \in Nat DEF StrictSubsetOrdering, FiniteSubsetsOf
  <2> QED BY <2>3, <1>3, <1>4
<1> QED BY <1>5

\* recall, confirmations and native forgets pick a member of the set they are
\* given: the earliest fact exists.
LEMMA EarliestIsMember ==
    ASSUME NEW F, F \subseteq Fact, F # {}
    PROVE  Earliest(F) \in F /\ \A h \in F : Earliest(F).sequence <= h.sequence
<1> DEFINE S == {f.sequence : f \in F}
<1>1. S \subseteq Nat /\ S # {}
  BY BoundsAssumption DEF Fact, Sequences
<1>2. PICK x \in S : \A y \in S : x <= y
  <2> HIDE DEF S
  <2> QED BY <1>1, LeastNatural
<1>3. \E f \in F : \A h \in F : f.sequence <= h.sequence
  BY <1>2
<1> QED BY <1>3 DEF Earliest

-----------------------------------------------------------------------------
(* Types *)

LEMMA EmptyImageType == EmptyImage \in Image
<1>1. EmptyImage.policy \in Policy
  BY BoundsAssumption DEF EmptyImage, Policy
<1>2. EmptyImage.consumed \in [Events -> 0 .. MaxSequence]
  BY BoundsAssumption DEF EmptyImage
<1>3. EmptyImage.modes \in [Sessions -> Modes]
  BY DEF EmptyImage, Modes
<1> QED BY <1>1, <1>2, <1>3 DEF EmptyImage, Image

LEMMA RevisedType ==
    ASSUME NEW policy \in Policy, NEW enabled \in BOOLEAN, NEW watermark \in 0 .. MaxSequence
    PROVE  Revised(policy, enabled, watermark) \in Policy
BY DEF Revised, Policy

LEMMA RevisedFields ==
    ASSUME NEW policy, NEW enabled, NEW watermark
    PROVE  /\ Revised(policy, enabled, watermark).enabled = enabled
           /\ Revised(policy, enabled, watermark).epoch = policy.epoch + 1
           /\ Revised(policy, enabled, watermark).watermark = watermark
BY DEF Revised

LEMMA ConsumeFacts ==
    ASSUME NEW db \in Image, NEW stamp \in Stamp
    PROVE  /\ Consume(db, stamp) \in Image
           /\ Consume(db, stamp).policy =
                 [enabled |-> db.policy.enabled, epoch |-> db.policy.epoch,
                  watermark |-> stamp.sequence]
           /\ Consume(db, stamp).consumed =
                 [db.consumed EXCEPT ![stamp.event] = stamp.sequence]
           /\ Consume(db, stamp).facts = db.facts
           /\ Consume(db, stamp).erased = db.erased
           /\ Consume(db, stamp).replacements = db.replacements
           /\ Consume(db, stamp).modes = db.modes
<1> DEFINE policy == [enabled |-> db.policy.enabled, epoch |-> db.policy.epoch,
                      watermark |-> stamp.sequence]
           consumed == [db.consumed EXCEPT ![stamp.event] = stamp.sequence]
<1>1. stamp.sequence \in 0 .. MaxSequence /\ stamp.event \in Events
  BY BoundsAssumption DEF Stamp, Sequences
<1>2. policy \in Policy
  BY <1>1 DEF Image, Policy
<1>3. consumed \in [Events -> 0 .. MaxSequence]
  BY <1>1 DEF Image
<1>4. Consume(db, stamp) = [db EXCEPT !.consumed = consumed, !.policy = policy]
  BY DEF Consume, Image
<1> HIDE DEF policy, consumed
<1>5. Consume(db, stamp) \in Image /\ Consume(db, stamp).policy = policy
      /\ Consume(db, stamp).consumed = consumed
  BY <1>2, <1>3, <1>4 DEF Image
<1> QED BY <1>4, <1>5 DEF Image, policy, consumed

LEMMA SetConsentFacts ==
    ASSUME NEW db \in Image, NEW enabled \in BOOLEAN
    PROVE  /\ SetConsent(db, enabled) \in Image
           /\ SetConsent(db, enabled).policy = Revised(db.policy, enabled, db.policy.watermark)
           /\ SetConsent(db, enabled).consumed = db.consumed
           /\ SetConsent(db, enabled).facts = db.facts
           /\ SetConsent(db, enabled).erased = db.erased
           /\ SetConsent(db, enabled).replacements = db.replacements
           /\ SetConsent(db, enabled).modes = db.modes
<1>1. Revised(db.policy, enabled, db.policy.watermark) \in Policy
  BY RevisedType DEF Image, Policy
<1> QED BY <1>1 DEF Image, SetConsent

LEMMA ControlFacts ==
    ASSUME NEW db \in Image, NEW action \in Actions, NEW session \in Sessions,
           NEW stamp \in Stamp
    PROVE  /\ Control(db, action, session, stamp) \in Image
           /\ Control(db, action, session, stamp).policy =
                 Revised(db.policy, EnabledAfter(db.policy.enabled, action), stamp.sequence)
           /\ Control(db, action, session, stamp).consumed =
                 [db.consumed EXCEPT ![stamp.event] = stamp.sequence]
           /\ Control(db, action, session, stamp).facts = db.facts
           /\ Control(db, action, session, stamp).erased = db.erased
           /\ Control(db, action, session, stamp).replacements = db.replacements
<1> DEFINE mid == Consume(db, stamp)
           policy == Revised(mid.policy, EnabledAfter(mid.policy.enabled, action),
                             mid.policy.watermark)
           modes == [mid.modes EXCEPT ![session] = ModeAfter(@, action)]
<1>1. mid \in Image
  BY ConsumeFacts
<1>2. policy = Revised(db.policy, EnabledAfter(db.policy.enabled, action), stamp.sequence)
  <2>1. /\ mid.policy.enabled = db.policy.enabled
        /\ mid.policy.epoch = db.policy.epoch
        /\ mid.policy.watermark = stamp.sequence
    <3>1. mid.policy = [enabled |-> db.policy.enabled, epoch |-> db.policy.epoch,
                        watermark |-> stamp.sequence]
      BY ConsumeFacts
    <3> HIDE DEF mid
    <3> QED BY <3>1
  <2> HIDE DEF mid
  <2> QED BY <2>1 DEF Revised
<1>3. policy \in Policy
  <2>1. EnabledAfter(mid.policy.enabled, action) \in BOOLEAN
    BY DEF EnabledAfter
  <2>2. mid.policy \in Policy /\ mid.policy.watermark \in 0 .. MaxSequence
    BY <1>1 DEF Image, Policy
  <2> QED BY <2>1, <2>2, RevisedType
<1>4. modes \in [Sessions -> Modes]
  <2>1. \A m \in Modes : ModeAfter(m, action) \in Modes
    BY DEF ModeAfter, Modes, Actions
  <2> QED BY <1>1, <2>1 DEF Image
<1>5. Control(db, action, session, stamp) = [mid EXCEPT !.policy = policy, !.modes = modes]
  BY DEF Control
<1>6. /\ mid.facts = db.facts
      /\ mid.consumed = [db.consumed EXCEPT ![stamp.event] = stamp.sequence]
      /\ mid.erased = db.erased
      /\ mid.replacements = db.replacements
  BY ConsumeFacts
<1> HIDE DEF mid, policy, modes
<1>7. Control(db, action, session, stamp) \in Image
      /\ Control(db, action, session, stamp).policy = policy
      /\ Control(db, action, session, stamp).modes = modes
  BY <1>1, <1>3, <1>4, <1>5 DEF Image
<1> QED BY <1>1, <1>2, <1>5, <1>6, <1>7 DEF Image

LEMMA NewFactType ==
    ASSUME NEW db \in Image, NEW r \in Request, r.targets # {} => r.target = NoEvent,
           Storable(db, r)
    PROVE  /\ NewFact(db, r) \in Fact
           /\ NewFact(db, r).id = r.event
           /\ NewFact(db, r).sequence = r.sequence
           /\ NewFact(db, r).group = r.group
           /\ NewFact(db, r).at = r.at
           /\ NewFact(db, r).relation = Relation(db, r)
           /\ NewFact(db, r).supersedes = SupersededBy(db, r)
<1>1. Relation(db, r) \in Relations
  BY DEF Relation, Relations, Request, Operations
<1>2. TargetOf(db, r) \in Events \cup {NoEvent}
  <2>1. CASE r.op # "remember"
    BY <2>1 DEF TargetOf, Request
  <2>2. CASE r.op = "remember" /\ Same(db, r) # {}
    <3>1. Same(db, r) \subseteq Fact
      BY DEF Same, Active, Group, Image
    <3>2. Earliest(Same(db, r)) \in Fact
      BY <2>2, <3>1, EarliestIsMember
    <3> QED BY <2>2, <3>2 DEF TargetOf, Fact
  <2>3. CASE r.op = "remember" /\ Same(db, r) = {}
    BY <2>3 DEF TargetOf
  <2> QED BY <2>1, <2>2, <2>3
<1>3. SupersededBy(db, r) \in SUBSET Events
  <2>1. CASE r.targets # {}
    BY <2>1 DEF SupersededBy, Request
  <2>2. CASE r.targets = {} /\ r.op \in {"change", "correct"}
    <3>1. ActsOnOne(db, r)
      BY <2>2 DEF Storable, ReplacesGroup, Remembers
    <3>2. PICK f \in Fact : f.id = r.target
      BY <3>1 DEF ActsOnOne, Active, Group, Image
    <3> QED BY <2>2, <3>2 DEF SupersededBy, Fact
  <2>3. CASE r.targets = {} /\ r.op \notin {"change", "correct"}
    BY <2>3 DEF SupersededBy
  <2> QED BY <2>1, <2>2, <2>3
<1>4. /\ r.event \in Events /\ r.group \in Groups /\ r.value \in Values
      /\ r.kind \in Kinds /\ r.sequence \in Sequences /\ r.at \in Nat
  BY DEF Request
<1> QED BY <1>1, <1>2, <1>3, <1>4 DEF NewFact, Fact

LEMMA InsertFacts ==
    ASSUME NEW db \in Image, NEW f \in Fact
    PROVE  /\ Insert(db, f) \in Image
           /\ Insert(db, f).policy = db.policy
           /\ Insert(db, f).consumed = db.consumed
           /\ Insert(db, f).facts = db.facts \cup {f}
           /\ Insert(db, f).erased = db.erased
           /\ Insert(db, f).modes = db.modes
           /\ Insert(db, f).replacements = db.replacements \cup
                 {[target |-> t, superseder |-> f.id] : t \in f.supersedes}
<1> DEFINE facts == db.facts \cup {f}
           replacements == db.replacements \cup
              {[target |-> t, superseder |-> f.id] : t \in f.supersedes}
<1>1. facts \subseteq Fact
  BY DEF Image
<1>2. replacements \subseteq [target : Events, superseder : Events]
  BY DEF Image, Fact
<1>3. Insert(db, f) = [db EXCEPT !.facts = facts, !.replacements = replacements]
  BY DEF Insert
<1> HIDE DEF facts, replacements
<1>4. Insert(db, f) \in Image /\ Insert(db, f).facts = facts
      /\ Insert(db, f).replacements = replacements
  BY <1>1, <1>2, <1>3 DEF Image
<1> QED BY <1>3, <1>4 DEF Image, facts, replacements

LEMMA ForgetFacts ==
    ASSUME NEW db \in Image, NEW id \in Events
    PROVE  /\ Forget(db, id) \in Image
           /\ Forget(db, id).policy =
                 Revised(db.policy, db.policy.enabled, db.policy.watermark)
           /\ Forget(db, id).consumed = db.consumed
           /\ Forget(db, id).facts = db.facts \ Lineage(db, id)
           /\ Forget(db, id).erased = db.erased \cup Ids(Lineage(db, id))
           /\ Forget(db, id).replacements = db.replacements
           /\ Forget(db, id).modes = db.modes
<1> DEFINE policy == Revised(db.policy, db.policy.enabled, db.policy.watermark)
           facts == db.facts \ Lineage(db, id)
           erased == db.erased \cup Ids(Lineage(db, id))
<1>1. policy \in Policy
  BY RevisedType DEF Image, Policy
<1>2. facts \subseteq Fact
  BY DEF Image
<1>3. erased \subseteq Events
  BY DEF Image, Ids, Lineage, Fact
<1>4. Forget(db, id) = [db EXCEPT !.policy = policy, !.facts = facts, !.erased = erased]
  BY DEF Forget
<1> HIDE DEF policy, facts, erased
<1>5. Forget(db, id) \in Image /\ Forget(db, id).policy = policy
      /\ Forget(db, id).facts = facts /\ Forget(db, id).erased = erased
  BY <1>1, <1>2, <1>3, <1>4 DEF Image
<1> QED BY <1>4, <1>5 DEF Image, policy, facts, erased
-----------------------------------------------------------------------------
(***************************************************************************)
(* The replay fences of an image: sequences are consumed once, never above *)
(* the watermark, and every record that is or was stored consumed one.     *)
(***************************************************************************)
Fenced(db) ==
    /\ \A e \in Events : db.consumed[e] <= db.policy.watermark
    /\ \A d, e \in Events : db.consumed[d] = db.consumed[e] /\ d # e => db.consumed[d] = 0
    /\ \A f \in db.facts : db.consumed[f.id] = f.sequence
    /\ \A e \in db.erased : db.consumed[e] # 0

LEMMA EmptyImageIsFenced == Fenced(EmptyImage)
BY DEF Fenced, EmptyImage

\* Consuming a fresh stamp: the new sequence is above every consumed one.
LEMMA ConsumeIsFenced ==
    ASSUME NEW db \in Image, Fenced(db), NEW stamp \in Stamp, Fresh(db, stamp),
           NEW new \in Image,
           new.policy.watermark = stamp.sequence,
           new.consumed = [db.consumed EXCEPT ![stamp.event] = stamp.sequence],
           new.facts = db.facts, new.erased = db.erased
    PROVE  Fenced(new)
<1>1. /\ stamp.event \in Events /\ stamp.sequence \in Nat \ {0}
      /\ db.policy.watermark \in Nat
      /\ db.consumed \in [Events -> Nat]
      /\ \A f \in db.facts : f.id \in Events /\ f.sequence \in Nat \ {0}
      /\ db.erased \subseteq Events
  BY BoundsAssumption DEF Stamp, Sequences, Image, Policy, Fact
<1>2. db.consumed[stamp.event] = 0 /\ stamp.sequence > db.policy.watermark
  BY DEF Fresh
<1>3. \A e \in Events : new.consumed[e] =
         IF e = stamp.event THEN stamp.sequence ELSE db.consumed[e]
  BY <1>1
<1>4. \A e \in Events : db.consumed[e] \in Nat /\ db.consumed[e] < stamp.sequence
  BY <1>1, <1>2 DEF Fenced
<1>5. \A e \in Events : new.consumed[e] <= new.policy.watermark
  BY <1>1, <1>3, <1>4
<1>6. \A d, e \in Events : new.consumed[d] = new.consumed[e] /\ d # e => new.consumed[d] = 0
  BY <1>1, <1>3, <1>4 DEF Fenced
<1>7. \A f \in new.facts : new.consumed[f.id] = f.sequence
  BY <1>1, <1>2, <1>3 DEF Fenced
<1>8. \A e \in new.erased : new.consumed[e] # 0
  BY <1>1, <1>2, <1>3 DEF Fenced
<1> QED BY <1>5, <1>6, <1>7, <1>8 DEF Fenced

LEMMA InsertIsFenced ==
    ASSUME NEW db \in Image, Fenced(db), NEW f \in Fact, db.consumed[f.id] = f.sequence
    PROVE  Fenced(Insert(db, f))
BY InsertFacts DEF Fenced

LEMMA ForgetIsFenced ==
    ASSUME NEW db \in Image, Fenced(db), NEW id \in Events
    PROVE  Fenced(Forget(db, id))
<1>1. \A f \in db.facts : f.sequence # 0
  BY DEF Image, Fact, Sequences
<1>2. \A e \in Ids(Lineage(db, id)) : db.consumed[e] # 0
  BY <1>1 DEF Ids, Lineage, Fenced
<1>3. Forget(db, id).policy.watermark = db.policy.watermark
  BY ForgetFacts, RevisedFields
<1> QED BY <1>2, <1>3, ForgetFacts DEF Fenced
-----------------------------------------------------------------------------
(***************************************************************************)
(* The supersession structure: a record has one live row or a tombstone,   *)
(* what it supersedes is live and in its group, the supersession table     *)
(* says the same as the rows, and whole groups are erased at once.         *)
(***************************************************************************)
WellLinked(db) ==
    /\ \A f, h \in db.facts : f.id = h.id => f = h
    /\ \A f \in db.facts : f.id \notin db.erased
    /\ \A f \in db.facts : \A t \in f.supersedes :
          \E h \in db.facts : h.id = t /\ h.group = f.group
    /\ \A f \in db.facts : \A t \in f.supersedes :
          [target |-> t, superseder |-> f.id] \in db.replacements
    /\ \A p \in db.replacements :
          \/ \E f \in db.facts : f.id = p.superseder /\ p.target \in f.supersedes
          \/ p.superseder \in db.erased /\ p.target \in db.erased

\* Every live fact belongs to a group with an active fact.
Reachable(db) == \A f \in db.facts : Active(Group(db, f.group)) # {}

LEMMA EmptyImageIsLinked == WellLinked(EmptyImage) /\ Reachable(EmptyImage)
BY DEF WellLinked, Reachable, EmptyImage

\* What an accepted request supersedes is active in its own group.
LEMMA SupersedesActive ==
    ASSUME NEW db \in Image, NEW r \in Request, Storable(db, r),
           NEW t \in SupersededBy(db, r)
    PROVE  \E h \in Active(Group(db, r.group)) : h.id = t
<1>1. CASE r.targets # {}
  BY <1>1 DEF SupersededBy, Storable, ReplacesGroup, ActsOnOne, Remembers, Ids
<1>2. CASE r.targets = {} /\ r.op \in {"change", "correct"}
  BY <1>2 DEF SupersededBy, Storable, ReplacesGroup, ActsOnOne, Remembers
<1>3. CASE r.targets = {} /\ r.op \notin {"change", "correct"}
  BY <1>3 DEF SupersededBy
<1> QED BY <1>1, <1>2, <1>3

\* _store accepts only what the ledger's own checks let in.
LEMMA StorableIsInsertable ==
    ASSUME NEW db \in Image, WellLinked(db),
           NEW r \in Request, r.targets # {} => r.target = NoEvent, Storable(db, r),
           r.event \notin Ids(db.facts) \cup db.erased
    PROVE  Insertable(db, NewFact(db, r))
<1> DEFINE f == NewFact(db, r)
<1>1. f.id = r.event /\ f.at = r.at /\ f.supersedes = SupersededBy(db, r)
  BY NewFactType
<1> HIDE DEF f
<1>2. ASSUME NEW t \in f.supersedes
      PROVE  /\ t \in Ids(db.facts)
             /\ \E h \in db.facts : h.id = t /\ h.at <= f.at
             /\ \A p \in db.replacements : p.target # t
  <2>1. PICK h \in Active(Group(db, r.group)) : h.id = t
    BY <1>1, <1>2, SupersedesActive
  <2>2. h \in db.facts /\ h.group = r.group /\ h.at \in Nat /\ r.at \in Nat
    BY <2>1 DEF Active, Group, Image, Fact, Request
  <2>3. h.at <= f.at
    BY <1>1, <2>2 DEF Storable, Outdated, Group
  <2>4. ASSUME NEW p \in db.replacements, p.target = t
        PROVE  FALSE
    <3>1. t \notin db.erased
      BY <2>1, <2>2 DEF WellLinked
    <3>2. PICK k \in db.facts : t \in k.supersedes
      BY <2>4, <3>1 DEF WellLinked
    <3>3. k \in Group(db, r.group)
      <4>1. PICK h2 \in db.facts : h2.id = t /\ h2.group = k.group
        BY <3>2 DEF WellLinked
      <4>2. h2 = h
        BY <2>1, <2>2, <4>1 DEF WellLinked
      <4> QED BY <2>2, <4>1, <4>2 DEF Group
    <3> QED BY <2>1, <3>2, <3>3 DEF Active
  <2> QED BY <2>1, <2>2, <2>3, <2>4 DEF Ids
<1> QED BY <1>1, <1>2 DEF Insertable, f

\* A stored fact links to its group and is itself reachable.
LEMMA InsertIsLinked ==
    ASSUME NEW db \in Image, WellLinked(db), Reachable(db),
           NEW r \in Request, r.targets # {} => r.target = NoEvent, Storable(db, r),
           r.event \notin Ids(db.facts) \cup db.erased
    PROVE  WellLinked(Insert(db, NewFact(db, r))) /\ Reachable(Insert(db, NewFact(db, r)))
<1> DEFINE f == NewFact(db, r)
           new == Insert(db, f)
<1>1. /\ f \in Fact /\ f.id = r.event /\ f.group = r.group
      /\ f.relation = Relation(db, r) /\ f.supersedes = SupersededBy(db, r)
  BY NewFactType
<1> HIDE DEF f
<1>2. /\ new.facts = db.facts \cup {f} /\ new.erased = db.erased
      /\ new.replacements = db.replacements \cup
            {[target |-> t, superseder |-> f.id] : t \in f.supersedes}
  BY <1>1, InsertFacts
<1> HIDE DEF new
<1>3. \A t \in f.supersedes : \E h \in db.facts : h.id = t /\ h.group = f.group
  BY <1>1, SupersedesActive DEF Active, Group
<1>4. \A h \in db.facts : h.id # f.id
  BY <1>1 DEF Ids
<1>5. \A h \in new.facts : f.id \notin h.supersedes
  BY <1>2, <1>3, <1>4 DEF WellLinked
<1>6. WellLinked(new)
  <2>1. \A h, k \in new.facts : h.id = k.id => h = k
    BY <1>2, <1>4 DEF WellLinked
  <2>2. \A h \in new.facts : h.id \notin new.erased
    BY <1>1, <1>2 DEF WellLinked
  <2>3. \A h \in new.facts : \A t \in h.supersedes :
           \E k \in new.facts : k.id = t /\ k.group = h.group
    BY <1>2, <1>3 DEF WellLinked
  <2>4. \A h \in new.facts : \A t \in h.supersedes :
           [target |-> t, superseder |-> h.id] \in new.replacements
    BY <1>2 DEF WellLinked
  <2>5. ASSUME NEW p \in new.replacements
        PROVE  \/ \E h \in new.facts : h.id = p.superseder /\ p.target \in h.supersedes
               \/ p.superseder \in new.erased /\ p.target \in new.erased
    <3>1. CASE p \in db.replacements
      BY <1>2, <3>1 DEF WellLinked
    <3>2. CASE p \notin db.replacements
      BY <1>2, <3>2
    <3> QED BY <3>1, <3>2
  <2> QED BY <2>1, <2>2, <2>3, <2>4, <2>5 DEF WellLinked
<1>7. ASSUME f.relation # "confirms" PROVE Reachable(new)
  <2>1. f \in Active(Group(new, f.group))
    BY <1>2, <1>5, <1>7 DEF Active, Group
  <2>2. ASSUME NEW h \in new.facts PROVE Active(Group(new, h.group)) # {}
    <3>1. CASE h.group = f.group
      BY <2>1, <3>1
    <3>2. CASE h.group # f.group
      <4>1. Group(new, h.group) = Group(db, h.group) /\ h \in db.facts
        BY <1>2, <3>2 DEF Group
      <4> QED BY <4>1 DEF Reachable
    <3> QED BY <3>1, <3>2
  <2> QED BY <2>2 DEF Reachable
<1>8. ASSUME f.relation = "confirms" PROVE Reachable(new)
  <2>1. f.supersedes = {}
    BY <1>1, <1>8 DEF Relation, SupersededBy, Storable, ReplacesGroup, ActsOnOne, Remembers,
                      Request, Operations
  <2>2. Active(Group(db, f.group)) # {}
    BY <1>1, <1>8 DEF Relation, Storable, ReplacesGroup, ActsOnOne, Remembers, Same,
                      Request, Operations
  <2>3. \A g : Active(Group(db, g)) \subseteq Active(Group(new, g))
    BY <1>2, <2>1 DEF Active, Group
  <2>4. \A h \in new.facts : Active(Group(new, h.group)) # {}
    BY <1>2, <2>2, <2>3 DEF Reachable
  <2> QED BY <2>4 DEF Reachable
<1> QED BY <1>6, <1>7, <1>8 DEF f, new

\* Forgetting a whole group leaves the other groups exactly as they were.
LEMMA ForgetIsLinked ==
    ASSUME NEW db \in Image, WellLinked(db), Reachable(db), NEW id \in Events
    PROVE  WellLinked(Forget(db, id)) /\ Reachable(Forget(db, id))
<1> DEFINE new == Forget(db, id)
<1>1. /\ new.facts = db.facts \ Lineage(db, id)
      /\ new.erased = db.erased \cup Ids(Lineage(db, id))
      /\ new.replacements = db.replacements
  BY ForgetFacts
<1> HIDE DEF new
<1>2. \A f, h \in db.facts : f.group = h.group =>
         (f \in Lineage(db, id) <=> h \in Lineage(db, id))
  BY DEF Lineage
<1>3. Lineage(db, id) \subseteq db.facts
  BY DEF Lineage
<1>4. WellLinked(new)
  <2>1. \A f, h \in new.facts : f.id = h.id => f = h
    BY <1>1 DEF WellLinked
  <2>2. \A f \in new.facts : f.id \notin new.erased
    BY <1>1, <1>3 DEF WellLinked, Ids
  <2>3. \A f \in new.facts : \A t \in f.supersedes :
           \E h \in new.facts : h.id = t /\ h.group = f.group
    BY <1>1, <1>2 DEF WellLinked
  <2>4. \A f \in new.facts : \A t \in f.supersedes :
           [target |-> t, superseder |-> f.id] \in new.replacements
    BY <1>1 DEF WellLinked
  <2>5. ASSUME NEW p \in new.replacements
        PROVE  \/ \E f \in new.facts : f.id = p.superseder /\ p.target \in f.supersedes
               \/ p.superseder \in new.erased /\ p.target \in new.erased
    <3>1. CASE p.superseder \in db.erased /\ p.target \in db.erased
      BY <1>1, <3>1
    <3>2. ASSUME NEW f \in db.facts, f.id = p.superseder, p.target \in f.supersedes
          PROVE  \/ f \in new.facts
                 \/ p.superseder \in new.erased /\ p.target \in new.erased
      <4>1. PICK h \in db.facts : h.id = p.target /\ h.group = f.group
        BY <3>2 DEF WellLinked
      <4> QED BY <1>1, <1>2, <3>2, <4>1 DEF Ids
    <3> QED BY <1>1, <3>1, <3>2 DEF WellLinked
  <2> QED BY <2>1, <2>2, <2>3, <2>4, <2>5 DEF WellLinked
<1>5. ASSUME NEW f \in new.facts
      PROVE  Active(Group(new, f.group)) # {}
  <2>1. Group(new, f.group) = Group(db, f.group)
    BY <1>1, <1>2 DEF Group
  <2> QED BY <1>1, <2>1 DEF Reachable
<1> QED BY <1>4, <1>5 DEF Reachable, new

\* The two notions of an active fact coincide.
LEMMA ActiveAgrees ==
    ASSUME NEW db \in Image, WellLinked(db), NEW f \in db.facts
    PROVE  f \in Active(Group(db, f.group)) <=> ActiveInPage(db, f)
<1>1. ASSUME NEW p \in db.replacements, p.target = f.id, p.superseder \in Ids(db.facts)
      PROVE  \E h \in Group(db, f.group) : f.id \in h.supersedes
  <2>1. p.superseder \notin db.erased
    BY <1>1 DEF Ids, WellLinked
  <2>2. PICK h \in db.facts : f.id \in h.supersedes
    BY <1>1, <2>1 DEF WellLinked
  <2>3. h.group = f.group
    BY <2>2 DEF WellLinked
  <2> QED BY <2>2, <2>3 DEF Group
<1>2. ASSUME NEW h \in Group(db, f.group), f.id \in h.supersedes
      PROVE  \E p \in db.replacements : p.target = f.id /\ p.superseder \in Ids(db.facts)
  <2>1. h \in db.facts
    BY <1>2 DEF Group
  <2>2. [target |-> f.id, superseder |-> h.id] \in db.replacements
    BY <1>2, <2>1 DEF WellLinked
  <2> QED BY <2>1, <2>2 DEF Ids
<1>3. f \in Group(db, f.group)
  BY DEF Group
<1> QED BY <1>1, <1>2, <1>3 DEF Active, ActiveInPage

-----------------------------------------------------------------------------
(* Relations between facts *)

\* What fact f says of earlier facts is true of some of the facts in F.
Explained(f, F) ==
    /\ f.target # NoEvent =>
          \E h \in F :
              /\ h.id = f.target
              /\ h.sequence < f.sequence
              /\ h.at <= f.at
              /\ f.relation = "confirms" => h.value = f.value /\ h.kind = f.kind
    /\ f.relation = "contradicts" =>
          \E h \in F :
              h.sequence < f.sequence /\ (h.value # f.value \/ h.kind # f.kind)

Resolved(db) == \A f \in db.facts : Explained(f, Group(db, f.group))

\* More facts explain no less.
LEMMA ExplainedByMore ==
    ASSUME NEW f, NEW F, NEW G, F \subseteq G, Explained(f, F)
    PROVE  Explained(f, G)
BY DEF Explained

\* The relation and target _store gives a new fact hold of the facts its group
\* already has: its target is active there, no later observation is, and a
\* contradiction has something to contradict.
LEMMA NewFactIsExplained ==
    ASSUME NEW db \in Image, NEW r \in Request, r.targets # {} => r.target = NoEvent,
           Storable(db, r), \A h \in db.facts : h.sequence < r.sequence
    PROVE  Explained(NewFact(db, r), Group(db, r.group))
<1> DEFINE f == NewFact(db, r)
           F == Group(db, r.group)
<1>1. /\ f.sequence = r.sequence /\ f.at = r.at /\ f.value = r.value /\ f.kind = r.kind
      /\ f.relation = Relation(db, r) /\ f.target = TargetOf(db, r)
  BY DEF NewFact
<1>2. \A h \in F : h \in db.facts /\ h.sequence < r.sequence /\ h.at \in Nat /\ r.at \in Nat
  BY DEF Group, Image, Fact, Request
<1>3. \A h \in F : h.at <= r.at
  BY <1>2 DEF Storable, Outdated
<1>4. Active(F) \subseteq F /\ Same(db, r) \subseteq Active(F)
  BY DEF Active, Same
<1>5. r.op \in Operations
  BY DEF Request
<1> HIDE DEF f
<1>6. CASE r.op # "remember" /\ r.targets # {}
  <2>1. f.target = NoEvent /\ f.relation # "contradicts"
    BY <1>1, <1>5, <1>6 DEF TargetOf, Relation, Operations
  <2> QED BY <2>1 DEF Explained, f
<1>7. CASE r.op # "remember" /\ r.targets = {}
  <2>1. ActsOnOne(db, r)
    BY <1>7 DEF Storable, ReplacesGroup, Remembers
  <2>2. PICK h \in Active(F) :
           /\ h.id = r.target /\ h.kind = r.kind
           /\ r.op = "confirm" => h.value = r.value
    BY <2>1 DEF ActsOnOne
  <2>3. /\ f.target = r.target
        /\ f.relation # "contradicts"
        /\ f.relation = "confirms" => r.op = "confirm"
    BY <1>1, <1>5, <1>7 DEF TargetOf, Relation, Operations
  <2>4. h \in F
    BY <1>4, <2>2
  <2>5. h.sequence < f.sequence /\ h.at <= f.at
    BY <1>1, <1>2, <1>3, <2>4
  <2>6. f.relation = "confirms" => h.value = f.value /\ h.kind = f.kind
    BY <1>1, <2>2, <2>3
  <2>7. h.id = f.target
    BY <2>2, <2>3
  <2> HIDE DEF F
  <2>8. Explained(f, F)
    BY <2>3, <2>4, <2>5, <2>6, <2>7 DEF Explained
  <2> QED BY <2>8 DEF f, F
<1>8. CASE r.op = "remember" /\ Same(db, r) # {}
  <2>1. Same(db, r) \subseteq Fact
    BY DEF Same, Active, Group, Image
  <2>2. Earliest(Same(db, r)) \in Same(db, r)
    BY <1>8, <2>1, EarliestIsMember
  <2>3. PICK h \in Same(db, r) : h = Earliest(Same(db, r))
    BY <2>2
  <2>4. f.target = h.id /\ f.relation = "confirms"
    BY <1>1, <1>8, <2>3 DEF TargetOf, Relation
  <2>5. h \in F /\ h.value = r.value /\ h.kind = r.kind
    BY <1>4 DEF Same
  <2> HIDE DEF F
  <2>6. Explained(f, F)
    BY <1>1, <1>2, <1>3, <2>4, <2>5 DEF Explained
  <2> QED BY <2>6 DEF f, F
<1>9. CASE r.op = "remember" /\ Same(db, r) = {}
  <2>1. f.target = NoEvent /\ (f.relation = "contradicts" => Active(F) # {})
    BY <1>1, <1>9 DEF TargetOf, Relation
  <2>2. ASSUME NEW h \in Active(F) PROVE h.value # r.value \/ h.kind # r.kind
    BY <1>9 DEF Same
  <2> HIDE DEF F
  <2>3. Explained(f, F)
    BY <1>1, <1>2, <1>4, <2>1, <2>2 DEF Explained
  <2> QED BY <2>3 DEF f, F
<1> QED BY <1>6, <1>7, <1>8, <1>9

\* So a store keeps every relation resolved, ...
LEMMA InsertResolves ==
    ASSUME NEW db \in Image, Resolved(db), NEW r \in Request,
           r.targets # {} => r.target = NoEvent, Storable(db, r),
           \A h \in db.facts : h.sequence < r.sequence,
           NEW new, new.facts = db.facts \cup {NewFact(db, r)}
    PROVE  Resolved(new)
<1> DEFINE f == NewFact(db, r)
<1>1. Explained(f, Group(db, r.group)) /\ f.group = r.group
  BY NewFactIsExplained DEF NewFact
<1> HIDE DEF f
<1>2. \A g : Group(db, g) \subseteq Group(new, g)
  BY DEF Group, f
<1>3. ASSUME NEW h \in new.facts PROVE Explained(h, Group(new, h.group))
  <2>1. Explained(h, Group(db, h.group))
    BY <1>1, <1>3 DEF Resolved, f
  <2> QED BY <1>2, <2>1, ExplainedByMore
<1> QED BY <1>3 DEF Resolved

\* ... and so does a transaction that takes whole groups out, or nothing.
LEMMA WholeGroupsStayResolved ==
    ASSUME NEW db, Resolved(db), NEW new, new.facts \subseteq db.facts,
           \A f, h \in db.facts : f.group = h.group => (f \in new.facts <=> h \in new.facts)
    PROVE  Resolved(new)
<1>1. ASSUME NEW f \in new.facts PROVE Explained(f, Group(new, f.group))
  <2>1. f \in db.facts /\ Group(new, f.group) = Group(db, f.group)
    BY <1>1 DEF Group
  <2> QED BY <2>1 DEF Resolved
<1> QED BY <1>1 DEF Resolved

-----------------------------------------------------------------------------
(* Policies in time *)

\* Policies are never taken back: every revocation moves the epoch on, every
\* write the watermark.
Older(p, q) ==
    p.epoch < q.epoch \/ (p.epoch = q.epoch /\ p.watermark < q.watermark)
NotNewer(p, q) ==
    p.epoch < q.epoch \/ (p.epoch = q.epoch /\ p.watermark <= q.watermark)

\* Older is a strict order and NotNewer the weak one.
LEMMA OlderFacts ==
    ASSUME NEW p \in Policy, NEW q \in Policy, NEW r \in Policy
    PROVE  /\ ~Older(p, p) /\ NotNewer(p, p)
           /\ Older(p, q) => NotNewer(p, q)
           /\ Older(p, q) /\ NotNewer(q, r) => Older(p, r)
           /\ NotNewer(p, q) /\ Older(q, r) => Older(p, r)
           /\ NotNewer(p, q) /\ NotNewer(q, r) => NotNewer(p, r)
<1>1. /\ p.epoch \in Nat /\ q.epoch \in Nat /\ r.epoch \in Nat
      /\ p.watermark \in Nat /\ q.watermark \in Nat /\ r.watermark \in Nat
  BY DEF Policy
<1> QED BY <1>1 DEF Older, NotNewer

\* A revoking transaction makes the ledger younger.
LEMMA RevisedIsYounger ==
    ASSUME NEW p \in Policy, NEW enabled, NEW watermark
    PROVE  Older(p, Revised(p, enabled, watermark))
<1>1. p.epoch \in Nat
  BY DEF Policy
<1> QED BY <1>1, RevisedFields DEF Older

\* Consent or its withdrawal makes the ledger younger.
LEMMA ConsentMovesOn ==
    ASSUME NEW img \in Image, NEW enabled \in BOOLEAN
    PROVE  /\ SetConsent(img, enabled) \in Image
           /\ Older(img.policy, SetConsent(img, enabled).policy)
<1>1. img.policy \in Policy
  BY DEF Image
<1> QED BY <1>1, RevisedIsYounger, SetConsentFacts

\* So does an erasure, whether or not it finds the record.
LEMMA ForgetMovesOn ==
    ASSUME NEW img \in Image, NEW id \in Events
    PROVE  /\ Forget(img, id) \in Image
           /\ Older(img.policy, Forget(img, id).policy)
<1>1. img.policy \in Policy
  BY DEF Image
<1> QED BY <1>1, RevisedIsYounger, ForgetFacts

\* So does a session control, whichever flag it sets.
LEMMA ControlMovesOn ==
    ASSUME NEW img \in Image, NEW action \in Actions, NEW s \in Sessions, NEW stamp \in Stamp,
           NEW new, new = Control(img, action, s, stamp)
    PROVE  new \in Image /\ Older(img.policy, new.policy)
<1>1. img.policy \in Policy
  BY DEF Image
<1>2. /\ new \in Image
      /\ new.policy =
            Revised(img.policy, EnabledAfter(img.policy.enabled, action), stamp.sequence)
  BY ControlFacts
<1> QED BY <1>1, <1>2, RevisedIsYounger

\* A reservation makes the ledger younger by its watermark.
LEMMA ConsumeMovesOn ==
    ASSUME NEW img \in Image, NEW stamp \in Stamp, Fresh(img, stamp)
    PROVE  /\ Consume(img, stamp) \in Image
           /\ Older(img.policy, Consume(img, stamp).policy)
           /\ Consume(img, stamp).policy.watermark = stamp.sequence
           /\ Consume(img, stamp).policy.epoch = img.policy.epoch
<1>1. /\ img.policy.epoch \in Nat /\ img.policy.watermark \in Nat /\ stamp.sequence \in Nat
      /\ img.policy.watermark < stamp.sequence
  BY BoundsAssumption DEF Image, Policy, Stamp, Sequences, Fresh
<1>2. Consume(img, stamp) \in Image /\ Consume(img, stamp).policy =
          [enabled |-> img.policy.enabled, epoch |-> img.policy.epoch,
           watermark |-> stamp.sequence]
  BY ConsumeFacts
<1> QED BY <1>1, <1>2 DEF Older
=============================================================================
