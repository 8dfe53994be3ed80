------------------------ MODULE PersonalMemoryProofs ------------------------
(***************************************************************************)
(* The safety properties of PersonalMemory, for any number of callers,     *)
(* events, groups and revocations.                                         *)
(*                                                                         *)
(* IInv strengthens the type invariant with what the image keeps           *)
(* (Fenced, WellLinked, Reachable) and with what every caller in flight    *)
(* knows: its reserved event belongs to it alone and has no record yet,    *)
(* and a caller a revocation has overtaken holds an older epoch.           *)
(*                                                                         *)
(* The last section is about the pages of MemoryPages: PagesInv says what  *)
(* the list shown, the page being read and the cursor know of the image.   *)
(***************************************************************************)
EXTENDS MemoryPages, PersonalStoreProofs

Extracting(c) == call[c].stage = "extracting"

\* A reserved event is consumed, unrecorded and held by one caller.
Reservations ==
    /\ \A c \in Callers : Extracting(c) =>
          /\ db.consumed[call[c].request.event] = call[c].request.sequence
          /\ call[c].request.event \notin Ids(db.facts) \cup db.erased
    /\ \A c, d \in Callers : Extracting(c) /\ Extracting(d) /\ c # d =>
          call[c].request.event # call[d].request.event

\* Epochs a caller remembers are never ahead, and behind once it is overtaken.
Epochs ==
    \A c \in Callers :
        /\ held[c] # NoPolicy => held[c].epoch <= db.policy.epoch
        /\ ~Idle(c) /\ call[c].tie # "none" => held[c] # NoPolicy
        /\ Extracting(c) => call[c].epoch <= db.policy.epoch
        /\ c \in revoked =>
              /\ held[c] # NoPolicy => held[c].epoch < db.policy.epoch
              /\ Extracting(c) => call[c].epoch < db.policy.epoch

IInv ==
    /\ TypeOK
    /\ Fenced(db)
    /\ WellLinked(db)
    /\ Reachable(db)
    /\ Reservations
    /\ Epochs

-----------------------------------------------------------------------------
LEMMA InitIInv == Init => IInv
<1> SUFFICES ASSUME Init PROVE IInv
  OBVIOUS
<1>1. TypeOK
  BY EmptyImageType, RequestsAssumption, NoRequestAssumption
  DEF Init, TypeOK, Call, NoCall, Stages, Ties
<1>2. Reservations /\ Epochs
  BY DEF Init, Reservations, Epochs, Extracting, Idle, NoCall
<1> QED BY <1>1, <1>2, EmptyImageIsFenced, EmptyImageIsLinked DEF Init, IInv

\* A transaction of an idle caller that moves the epoch on and keeps every
\* record, or erases some, keeps what the callers in flight know.
LEMMA RevocationKeepsCallers ==
    ASSUME IInv, db' \in Image,
           db'.policy.epoch = db.policy.epoch + 1,
           Ids(db'.facts) \cup db'.erased = Ids(db.facts) \cup db.erased,
           \A e \in Events : db.consumed[e] # 0 => db'.consumed[e] = db.consumed[e],
           revoked' = Callers, UNCHANGED <<held, call>>
    PROVE  TypeOK' /\ Reservations' /\ Epochs'
<1>1. TypeOK'
  BY DEF IInv, TypeOK
<1>2. Reservations'
  <2>1. ASSUME NEW c \in Callers, Extracting(c)
        PROVE  call[c].request.event \in Events /\ call[c].request.sequence # 0
    BY <2>1, RequestsAssumption, NoRequestAssumption
    DEF IInv, TypeOK, Call, Extracting, Request, Sequences
  <2> QED BY <2>1 DEF IInv, Reservations, Extracting
<1>3. Epochs'
  <2>1. db.policy.epoch \in Nat
    BY DEF IInv, TypeOK, Image, Policy
  <2>2. \A c \in Callers : held[c] # NoPolicy => held[c].epoch \in Nat
    BY DEF IInv, TypeOK, Policy
  <2>3. \A c \in Callers : call[c].epoch \in Nat
    BY DEF IInv, TypeOK, Call
  <2> QED BY <2>1, <2>2, <2>3 DEF IInv, Epochs, Extracting, Idle
<1> QED BY <1>1, <1>2, <1>3

\* Changing one call to NoCall keeps everything.
LEMMA EndsKeepsIInv ==
    ASSUME IInv, NEW c \in Callers, Ends(c)
    PROVE  IInv'
<1>1. TypeOK'
  BY RequestsAssumption DEF IInv, TypeOK, Ends, Call, NoCall, Stages, Ties
<1>2. Reservations'
  BY DEF IInv, TypeOK, Reservations, Extracting, Ends, NoCall
<1>3. Epochs'
  BY DEF IInv, TypeOK, Epochs, Extracting, Idle, Ends, NoCall
<1> QED BY <1>1, <1>2, <1>3 DEF IInv, Ends, Fenced, WellLinked, Reachable

LEMMA RequestFacts ==
    ASSUME TypeOK, NEW c \in Callers, ~Idle(c)
    PROVE  /\ call[c].request \in Request
           /\ call[c].request.targets # {} => call[c].request.target = NoEvent
           /\ StampOf(call[c].request) \in Stamp
           /\ StampOf(call[c].request).event = call[c].request.event
           /\ StampOf(call[c].request).sequence = call[c].request.sequence
<1>1. call[c].request \in Requests
  BY DEF TypeOK, Call, Idle
<1>2. call[c].request \in Request
      /\ (call[c].request.targets # {} => call[c].request.target = NoEvent)
  BY <1>1, RequestsAssumption
<1> QED BY <1>2 DEF StampOf, Stamp, Request
-----------------------------------------------------------------------------
LEMMA ReadPolicyKeepsIInv ==
    ASSUME IInv, NEW c \in Callers, ReadPolicy(c)
    PROVE  IInv'
<1>1. TypeOK'
  BY DEF IInv, TypeOK, ReadPolicy, Image
<1>2. Reservations'
  BY DEF IInv, Reservations, Extracting, ReadPolicy
<1>3. Epochs'
  <2>1. db.policy.epoch \in Nat
    BY DEF IInv, TypeOK, Image, Policy
  <2> QED BY <2>1 DEF IInv, TypeOK, Epochs, Extracting, Idle, ReadPolicy
<1> QED BY <1>1, <1>2, <1>3 DEF IInv, ReadPolicy, Fenced, WellLinked, Reachable

LEMMA ChangeConsentKeepsIInv ==
    ASSUME IInv, NEW c \in Callers, NEW enabled \in BOOLEAN, ChangeConsent(c, enabled)
    PROVE  IInv'
<1>1. db \in Image /\ db' = SetConsent(db, enabled)
  BY DEF IInv, TypeOK, ChangeConsent
<1>2. /\ db' \in Image /\ db'.policy = Revised(db.policy, enabled, db.policy.watermark)
      /\ db'.consumed = db.consumed /\ db'.facts = db.facts /\ db'.erased = db.erased
      /\ db'.replacements = db.replacements
  BY <1>1, SetConsentFacts
<1>3. db'.policy.epoch = db.policy.epoch + 1 /\ db'.policy.watermark = db.policy.watermark
  BY <1>2, RevisedFields
<1>4. TypeOK' /\ Reservations' /\ Epochs'
  BY <1>2, <1>3, RevocationKeepsCallers DEF ChangeConsent, Revokes
<1>5. Fenced(db')
  BY <1>2, <1>3 DEF IInv, Fenced
<1>6. WellLinked(db') /\ Reachable(db')
  BY <1>2 DEF IInv, WellLinked, Reachable, Active, Group
<1> QED BY <1>4, <1>5, <1>6 DEF IInv

LEMMA ApplyControlKeepsIInv ==
    ASSUME IInv, NEW c \in Callers, NEW action \in Actions, NEW session \in Sessions,
           NEW stamp \in Stamps, NEW tie \in Ties,
           ApplyControl(c, action, session, stamp, tie)
    PROVE  IInv'
<1>1. db \in Image /\ stamp \in Stamp /\ db' = Control(db, action, session, stamp)
      /\ Fresh(db, stamp)
  BY StampsAssumption DEF IInv, TypeOK, ApplyControl
<1>2. /\ db' \in Image
      /\ db'.policy = Revised(db.policy, EnabledAfter(db.policy.enabled, action), stamp.sequence)
      /\ db'.consumed = [db.consumed EXCEPT ![stamp.event] = stamp.sequence]
      /\ db'.facts = db.facts /\ db'.erased = db.erased
      /\ db'.replacements = db.replacements
  BY <1>1, ControlFacts
<1>3. db'.policy.epoch = db.policy.epoch + 1 /\ db'.policy.watermark = stamp.sequence
  BY <1>2, RevisedFields
<1>4. \A e \in Events : db.consumed[e] # 0 => db'.consumed[e] = db.consumed[e]
  BY <1>1, <1>2 DEF Fresh, Image
<1>5. TypeOK' /\ Reservations' /\ Epochs'
  BY <1>2, <1>3, <1>4, RevocationKeepsCallers DEF ApplyControl, Revokes
<1>6. Fenced(db')
  BY <1>1, <1>2, <1>3, ConsumeIsFenced DEF IInv
<1>7. WellLinked(db') /\ Reachable(db')
  BY <1>2 DEF IInv, WellLinked, Reachable, Active, Group
<1> QED BY <1>5, <1>6, <1>7 DEF IInv

\* Both forms of forget erase one lineage of an image they may first stamp.
LEMMA ForgetKeepsIInv ==
    ASSUME IInv, NEW mid \in Image, NEW id \in Events,
           Fenced(mid), WellLinked(mid), Reachable(mid),
           mid.policy.epoch = db.policy.epoch,
           mid.facts = db.facts, mid.erased = db.erased,
           \A e \in Events : db.consumed[e] # 0 => mid.consumed[e] = db.consumed[e],
           db' = Forget(mid, id), revoked' = Callers, UNCHANGED <<held, call>>
    PROVE  IInv'
<1>1. /\ db' \in Image
      /\ db'.policy = Revised(mid.policy, mid.policy.enabled, mid.policy.watermark)
      /\ db'.consumed = mid.consumed
      /\ db'.facts = mid.facts \ Lineage(mid, id)
      /\ db'.erased = mid.erased \cup Ids(Lineage(mid, id))
  BY ForgetFacts
<1>2. db'.policy.epoch = db.policy.epoch + 1
  BY <1>1, RevisedFields
<1>3. Ids(db'.facts) \cup db'.erased = Ids(db.facts) \cup db.erased
  BY <1>1 DEF Ids, Lineage
<1>4. TypeOK' /\ Reservations' /\ Epochs'
  BY <1>1, <1>2, <1>3, RevocationKeepsCallers
<1>5. Fenced(db') /\ WellLinked(db') /\ Reachable(db')
  BY ForgetIsFenced, ForgetIsLinked
<1> QED BY <1>4, <1>5 DEF IInv

LEMMA ForgetNowKeepsIInv ==
    ASSUME IInv, NEW c \in Callers, NEW id \in Events, NEW tie \in Ties,
           ForgetNow(c, id, tie)
    PROVE  IInv'
<1>1. db \in Image /\ Fenced(db) /\ WellLinked(db) /\ Reachable(db)
  BY DEF IInv, TypeOK
<1> QED BY <1>1, ForgetKeepsIInv DEF ForgetNow, Revokes

LEMMA ForgetByEventKeepsIInv ==
    ASSUME IInv, NEW c \in Callers, NEW id \in Events, NEW stamp \in Stamps,
           NEW tie \in Ties, ForgetByEvent(c, id, stamp, tie)
    PROVE  IInv'
<1> DEFINE mid == Consume(db, stamp)
<1>1. db \in Image /\ stamp \in Stamp /\ Fresh(db, stamp)
  BY StampsAssumption DEF IInv, TypeOK, ForgetByEvent
<1>2. /\ mid \in Image
      /\ mid.policy = [enabled |-> db.policy.enabled, epoch |-> db.policy.epoch,
                       watermark |-> stamp.sequence]
      /\ mid.consumed = [db.consumed EXCEPT ![stamp.event] = stamp.sequence]
      /\ mid.facts = db.facts /\ mid.erased = db.erased
      /\ mid.replacements = db.replacements
  BY <1>1, ConsumeFacts
<1>3. db' = Forget(mid, id) /\ revoked' = Callers /\ UNCHANGED <<held, call>>
  BY DEF ForgetByEvent, Revokes
<1> HIDE DEF mid
<1>4. mid.policy.epoch = db.policy.epoch /\ mid.policy.watermark = stamp.sequence
  BY <1>2
<1>5. \A e \in Events : db.consumed[e] # 0 => mid.consumed[e] = db.consumed[e]
  BY <1>1, <1>2 DEF Fresh, Image
<1>6. Fenced(mid)
  BY <1>1, <1>2, <1>4, ConsumeIsFenced DEF IInv
<1>7. WellLinked(mid) /\ Reachable(mid)
  BY <1>2 DEF IInv, WellLinked, Reachable, Active, Group
<1> QED BY <1>2, <1>3, <1>4, <1>5, <1>6, <1>7, ForgetKeepsIInv

LEMMA OpenCaptureKeepsIInv ==
    ASSUME IInv, NEW c \in Callers, NEW r \in Requests, NEW tie \in Ties,
           OpenCapture(c, r, tie)
    PROVE  IInv'
<1>1. r # NoRequest
  BY RequestsAssumption, NoRequestAssumption
<1>2. TypeOK'
  BY <1>1 DEF IInv, TypeOK, OpenCapture, Call, Stages
<1>3. Reservations'
  BY DEF IInv, TypeOK, Reservations, Extracting, OpenCapture
<1>4. Epochs'
  BY DEF IInv, TypeOK, Epochs, Extracting, Idle, OpenCapture
<1> QED BY <1>2, <1>3, <1>4 DEF IInv, OpenCapture, Fenced, WellLinked, Reachable

LEMMA ReserveKeepsIInv ==
    ASSUME IInv, NEW c \in Callers, Reserve(c)
    PROVE  IInv'
<1> DEFINE r == call[c].request
           stamp == StampOf(r)
<1>1. /\ db \in Image /\ call \in [Callers -> Call] /\ db.policy.epoch \in Nat
      /\ call[c].stage = "opened"
  BY DEF IInv, TypeOK, Reserve, Image, Policy
<1>2. /\ r \in Request /\ stamp \in Stamp
      /\ stamp.event = r.event /\ stamp.sequence = r.sequence
  BY <1>1, RequestFacts DEF IInv, Idle
<1>3. Fresh(db, stamp) /\ db' = Consume(db, stamp)
  BY DEF Reserve, MayReserve
<1>4. /\ db' \in Image
      /\ db'.policy = [enabled |-> db.policy.enabled, epoch |-> db.policy.epoch,
                       watermark |-> stamp.sequence]
      /\ db'.consumed = [db.consumed EXCEPT ![stamp.event] = stamp.sequence]
      /\ db'.facts = db.facts /\ db'.erased = db.erased
      /\ db'.replacements = db.replacements
  BY <1>1, <1>2, <1>3, ConsumeFacts
<1>5. db'.policy.epoch = db.policy.epoch /\ db'.policy.watermark = stamp.sequence
  BY <1>4
<1>6. /\ call' = [call EXCEPT ![c].stage = "extracting", ![c].epoch = db.policy.epoch]
      /\ revoked' = IF call[c].tie = "none" THEN revoked \ {c} ELSE revoked
      /\ UNCHANGED held
      /\ Tied(c, call[c].tie)
  BY DEF Reserve, MayReserve
<1>7. /\ call' \in [Callers -> Call]
      /\ call'[c] = [call[c] EXCEPT !.stage = "extracting", !.epoch = db.policy.epoch]
      /\ \A d \in Callers : d # c => call'[d] = call[d]
  BY <1>1, <1>6 DEF Call, Stages
<1>8. /\ call'[c].stage = "extracting" /\ call'[c].request = r
      /\ call'[c].tie = call[c].tie /\ call'[c].epoch = db.policy.epoch
  BY <1>1, <1>7 DEF Call
<1>9. \A e \in Events : /\ db'.consumed[e] = IF e = r.event THEN r.sequence
                                            ELSE db.consumed[e]
                        /\ db.consumed[e] \in Nat
  BY <1>1, <1>2, <1>4 DEF Image
<1>10. db.consumed[r.event] = 0 /\ r.sequence # 0 /\ r.event \in Events
  BY <1>2, <1>3 DEF Fresh, Request, Sequences
<1> HIDE DEF r, stamp
<1>11. TypeOK'
  BY <1>1, <1>4, <1>6, <1>7, <1>8 DEF IInv, TypeOK, r
<1>12. Fenced(db')
  BY <1>1, <1>2, <1>3, <1>4, <1>5, ConsumeIsFenced DEF IInv
<1>13. WellLinked(db') /\ Reachable(db')
  BY <1>4 DEF IInv, WellLinked, Reachable, Active, Group
<1>14. \A d \in Callers : Extracting(d) =>
         /\ call[d].request.event \in Events /\ call[d].request.sequence # 0
         /\ db.consumed[call[d].request.event] = call[d].request.sequence
  BY RequestFacts DEF IInv, Reservations, Extracting, Idle, Request, Sequences
<1>15. Reservations'
  <2>1. r.event \notin Ids(db.facts) \cup db.erased
    <3>1. \A f \in db.facts : f.sequence # 0
      BY <1>1 DEF Image, Fact, Sequences
    <3> QED BY <1>10, <3>1 DEF IInv, Fenced, Ids
  <2>2. \A d \in Callers : Extracting(d) => call[d].request.event # r.event
    BY <1>10, <1>14
  <2>3. ASSUME NEW d \in Callers, Extracting(d)'
        PROVE  /\ db'.consumed[call'[d].request.event] = call'[d].request.sequence
               /\ call'[d].request.event \notin Ids(db'.facts) \cup db'.erased
    <3>1. CASE d = c
      BY <1>4, <1>8, <1>9, <1>10, <2>1, <3>1 DEF Ids
    <3>2. CASE d # c
      <4>1. Extracting(d) /\ call'[d] = call[d]
        BY <1>7, <2>3, <3>2 DEF Extracting
      <4> QED BY <1>4, <1>9, <1>14, <2>2, <4>1 DEF IInv, Reservations, Ids
    <3> QED BY <3>1, <3>2
  <2>4. ASSUME NEW d \in Callers, NEW e \in Callers, Extracting(d)', Extracting(e)', d # e
        PROVE  call'[d].request.event # call'[e].request.event
    <3>1. \A x \in Callers : x # c /\ Extracting(x)' =>
             Extracting(x) /\ call'[x].request = call[x].request
      BY <1>7 DEF Extracting
    <3>2. CASE d = c
      BY <1>8, <2>2, <2>4, <3>1, <3>2
    <3>3. CASE e = c
      BY <1>8, <2>2, <2>4, <3>1, <3>3
    <3>4. CASE d # c /\ e # c
      BY <2>4, <3>1, <3>4 DEF IInv, Reservations
    <3> QED BY <3>2, <3>3, <3>4
  <2> QED BY <2>3, <2>4 DEF Reservations
<1>16. Epochs'
  <2>1. ASSUME NEW d \in Callers
        PROVE  /\ held'[d] # NoPolicy => held'[d].epoch <= db'.policy.epoch
               /\ ~Idle(d)' /\ call'[d].tie # "none" => held'[d] # NoPolicy
               /\ Extracting(d)' => call'[d].epoch <= db'.policy.epoch
               /\ d \in revoked' =>
                     /\ held'[d] # NoPolicy => held'[d].epoch < db'.policy.epoch
                     /\ Extracting(d)' => call'[d].epoch < db'.policy.epoch
    <3>1. CASE d = c
      <4>1. c \in revoked' => FALSE
        BY <1>1, <1>6 DEF IInv, TypeOK, Epochs, Tied, Call, Ties, Idle
      <4> QED BY <1>1, <1>5, <1>6, <1>8, <3>1, <4>1 DEF IInv, Epochs, Idle
    <3>2. CASE d # c
      BY <1>5, <1>6, <1>7, <3>2 DEF IInv, Epochs, Extracting, Idle
    <3> QED BY <3>1, <3>2
  <2> QED BY <2>1 DEF Epochs
<1> QED BY <1>11, <1>12, <1>13, <1>15, <1>16 DEF IInv

\* What Commit stores: a fact of the caller's reserved event.
LEMMA CommitFacts ==
    ASSUME IInv, NEW c \in Callers, Extracting(c), MayCommit(c)
    PROVE  LET r == call[c].request  f == NewFact(db, r) IN
           /\ f \in Fact /\ f.id = r.event /\ f.sequence = r.sequence
           /\ Insertable(db, f)
           /\ Insert(db, f) \in Image
           /\ Insert(db, f).policy = db.policy
           /\ Insert(db, f).consumed = db.consumed
           /\ Insert(db, f).facts = db.facts \cup {f}
           /\ Insert(db, f).erased = db.erased
           /\ Fenced(Insert(db, f)) /\ WellLinked(Insert(db, f)) /\ Reachable(Insert(db, f))
<1> DEFINE r == call[c].request
           f == NewFact(db, r)
<1>1. /\ db \in Image /\ Fenced(db) /\ WellLinked(db) /\ Reachable(db)
      /\ r \in Request /\ (r.targets # {} => r.target = NoEvent)
      /\ Storable(db, r)
      /\ r.event \notin Ids(db.facts) \cup db.erased
      /\ db.consumed[r.event] = r.sequence
  BY RequestFacts DEF IInv, TypeOK, Reservations, Extracting, Idle, MayCommit
<1> HIDE DEF r
<1>2. f \in Fact /\ f.id = r.event /\ f.sequence = r.sequence
  BY <1>1, NewFactType
<1>3. Insertable(db, f)
  BY <1>1, StorableIsInsertable
<1>4. WellLinked(Insert(db, f)) /\ Reachable(Insert(db, f))
  BY <1>1, InsertIsLinked
<1> HIDE DEF f
<1>5. Fenced(Insert(db, f))
  BY <1>1, <1>2, InsertIsFenced
<1> QED BY <1>1, <1>2, <1>3, <1>4, <1>5, InsertFacts DEF f, r

LEMMA CommitKeepsIInv ==
    ASSUME IInv, NEW c \in Callers, Commit(c)
    PROVE  IInv'
<1> DEFINE r == call[c].request
           f == NewFact(db, r)
<1>1. Extracting(c) /\ MayCommit(c)
  BY DEF Commit, Extracting
<1>2. /\ f.id = r.event
      /\ db' \in Image /\ db'.policy = db.policy /\ db'.consumed = db.consumed
      /\ db'.facts = db.facts \cup {f} /\ db'.erased = db.erased
      /\ Fenced(db') /\ WellLinked(db') /\ Reachable(db')
  BY <1>1, CommitFacts DEF Commit
<1>3. /\ call' = [call EXCEPT ![c] = NoCall] /\ UNCHANGED <<held, revoked>>
  BY DEF Commit
<1> HIDE DEF f, r
<1>4. TypeOK'
  BY <1>2, <1>3, RequestsAssumption DEF IInv, TypeOK, Call, NoCall, Stages, Ties
<1>5. \A d \in Callers : Extracting(d)' => d # c /\ Extracting(d) /\ call'[d] = call[d]
  BY <1>3 DEF IInv, TypeOK, Extracting, NoCall
<1>6. Ids(db'.facts) = Ids(db.facts) \cup {r.event}
  BY <1>2 DEF Ids
<1>7. Reservations'
  BY <1>1, <1>2, <1>5, <1>6 DEF IInv, Reservations, Extracting, r
<1>8. Epochs'
  BY <1>2, <1>3, <1>5 DEF IInv, TypeOK, Epochs, Extracting, Idle, NoCall
<1> QED BY <1>2, <1>4, <1>7, <1>8 DEF IInv
-----------------------------------------------------------------------------
\* Every step keeps the inductive invariant.
LEMMA NextKeepsIInv == IInv /\ [Next]_vars => IInv'
<1> SUFFICES ASSUME IInv, [Next]_vars PROVE IInv'
  OBVIOUS
<1>1. CASE UNCHANGED vars
  BY <1>1 DEF vars, IInv, TypeOK, Reservations, Epochs, Extracting, Idle, Ids, Fenced,
              WellLinked, Reachable
<1>2. ASSUME NEW c \in Callers, ReadPolicy(c) PROVE IInv'
  BY <1>2, ReadPolicyKeepsIInv
<1>3. ASSUME NEW c \in Callers, NEW enabled \in BOOLEAN, ChangeConsent(c, enabled) PROVE IInv'
  BY <1>3, ChangeConsentKeepsIInv
<1>4. ASSUME NEW c \in Callers, NEW action \in Actions, NEW session \in Sessions,
             NEW stamp \in Stamps, NEW tie \in Ties,
             ApplyControl(c, action, session, stamp, tie)
      PROVE  IInv'
  BY <1>4, ApplyControlKeepsIInv
<1>5. ASSUME NEW c \in Callers, NEW id \in Events, NEW tie \in Ties, ForgetNow(c, id, tie)
      PROVE  IInv'
  BY <1>5, ForgetNowKeepsIInv
<1>6. ASSUME NEW c \in Callers, NEW id \in Events, NEW stamp \in Stamps, NEW tie \in Ties,
             ForgetByEvent(c, id, stamp, tie)
      PROVE  IInv'
  BY <1>6, ForgetByEventKeepsIInv
<1>7. ASSUME NEW c \in Callers, NEW r \in Requests, NEW tie \in Ties, OpenCapture(c, r, tie)
      PROVE  IInv'
  BY <1>7, OpenCaptureKeepsIInv
<1>8. ASSUME NEW c \in Callers, Reserve(c) PROVE IInv'
  BY <1>8, ReserveKeepsIInv
<1>9. ASSUME NEW c \in Callers, Commit(c) PROVE IInv'
  BY <1>9, CommitKeepsIInv
<1>10. ASSUME NEW c \in Callers, Refused(c) PROVE IInv'
  BY <1>10, EndsKeepsIInv DEF Refused
<1>11. ASSUME NEW c \in Callers, Abandon(c) PROVE IInv'
  BY <1>11, EndsKeepsIInv DEF Abandon
<1> QED BY <1>1, <1>2, <1>3, <1>4, <1>5, <1>6, <1>7, <1>8, <1>9, <1>10, <1>11 DEF Next

THEOREM Invariance == Spec => []IInv
<1> QED BY InitIInv, NextKeepsIInv, PTL DEF Spec
-----------------------------------------------------------------------------
(* The theorems *)

\* Every reachable state has the types the tables and callers declare.
THEOREM TypeCorrect == Spec => []TypeOK
<1>1. IInv => TypeOK
  BY DEF IInv
<1> QED BY <1>1, Invariance, PTL

\* The replay fences of capture, control and forget hold in every reachable
\* state: no sequence is consumed twice or above the watermark.
THEOREM FencesAlwaysHold == Spec => []FencesHold
<1>1. IInv => FencesHold
  BY DEF IInv, Fenced, FencesHold
<1> QED BY <1>1, Invariance, PTL

\* _store never hands _insert_record something the ledger rejects.
THEOREM StoringNeverRaises == Spec => []StoreNeverRaises
<1>1. IInv => StoreNeverRaises
  BY CommitFacts DEF StoreNeverRaises, Extracting
<1> QED BY <1>1, Invariance, PTL

\* recall and inspect_page always agree on which facts are active.
THEOREM ActiveViewsAlwaysAgree == Spec => []ActiveViewsAgree
<1>1. IInv => ActiveViewsAgree
  <2> SUFFICES ASSUME IInv, NEW g \in Groups, NEW f \in Group(db, g)
               PROVE  f \in Active(Group(db, g)) <=> ActiveInPage(db, f)
    BY DEF ActiveViewsAgree
  <2>1. db \in Image /\ WellLinked(db) /\ f \in db.facts /\ f.group = g
    BY DEF IInv, TypeOK, Group
  <2> QED BY <2>1, ActiveAgrees
<1> QED BY <1>1, Invariance, PTL

\* No lineage can end up without an active fact, so the owner can always
\* correct or forget what is stored.
THEOREM LineagesStayReachable == Spec => []LineageReachable
<1>1. IInv => LineageReachable
  <2> SUFFICES ASSUME IInv, NEW g \in Groups, Group(db, g) # {}
               PROVE  Representative(db, g) # {}
    BY DEF LineageReachable
  <2>1. PICK f \in db.facts : f.group = g
    BY DEF Group
  <2>2. Active(Group(db, g)) # {}
    BY <2>1 DEF IInv, Reachable
  <2> QED BY <2>2 DEF Representative
<1> QED BY <1>1, Invariance, PTL

\* Steps other than Commit add no fact, what they remove they erase, whole
\* groups at a time, and they make the ledger younger.
LEMMA OnlyCommitStores ==
    ASSUME IInv, [Next]_vars
    PROVE  \/ db' = db
           \/ \E c \in Callers : Commit(c)
           \/ /\ Older(db.policy, db'.policy)
              /\ db'.facts \subseteq db.facts
              /\ db'.erased = db.erased \cup Ids(db.facts \ db'.facts)
              /\ \A f, h \in db.facts :
                    f.group = h.group => (f \in db'.facts <=> h \in db'.facts)
<1> DEFINE Goal == \/ db' = db
                   \/ \E c \in Callers : Commit(c)
                   \/ /\ Older(db.policy, db'.policy)
                      /\ db'.facts \subseteq db.facts
                      /\ db'.erased = db.erased \cup Ids(db.facts \ db'.facts)
                      /\ \A f, h \in db.facts :
                            f.group = h.group => (f \in db'.facts <=> h \in db'.facts)
<1>1. CASE UNCHANGED vars
  BY <1>1 DEF vars
<1>2. ASSUME NEW c \in Callers, ReadPolicy(c) \/ Refused(c) \/ Abandon(c) PROVE Goal
  BY <1>2 DEF ReadPolicy, Refused, Abandon, Ends
<1>3. ASSUME NEW c \in Callers, NEW enabled \in BOOLEAN, ChangeConsent(c, enabled) PROVE Goal
  <2>1. db \in Image /\ db' = SetConsent(db, enabled)
    BY <1>3 DEF IInv, TypeOK, ChangeConsent
  <2> QED BY <2>1, SetConsentFacts, ConsentMovesOn DEF Ids
<1>4. ASSUME NEW c \in Callers, NEW action \in Actions, NEW session \in Sessions,
             NEW stamp \in Stamps, NEW tie \in Ties,
             ApplyControl(c, action, session, stamp, tie)
      PROVE  Goal
  <2>1. /\ db \in Image /\ stamp \in Stamp /\ action \in Actions /\ session \in Sessions
        /\ db' = Control(db, action, session, stamp)
    BY <1>4, StampsAssumption DEF IInv, TypeOK, ApplyControl
  <2>2. /\ db' \in Image
        /\ db'.consumed = [db.consumed EXCEPT ![stamp.event] = stamp.sequence]
        /\ db'.facts = db.facts /\ db'.erased = db.erased
    BY <2>1, ControlFacts
  <2>3. Older(db.policy, db'.policy)
    BY <2>1, ControlMovesOn
  <2> QED BY <2>2, <2>3 DEF Ids
<1>5. ASSUME NEW mid \in Image, NEW id \in Events, db' = Forget(mid, id),
             mid.facts = db.facts, mid.erased = db.erased, NotNewer(db.policy, mid.policy)
      PROVE  Goal
  <2>1. db'.facts = db.facts \ Lineage(mid, id)
        /\ db'.erased = db.erased \cup Ids(Lineage(mid, id))
    BY <1>5, ForgetFacts
  <2>2. Lineage(mid, id) \subseteq db.facts
    BY <1>5 DEF Lineage
  <2>3. \A f, h \in db.facts :
           f.group = h.group => (f \in Lineage(mid, id) <=> h \in Lineage(mid, id))
    BY <1>5 DEF Lineage
  <2>4. Older(db.policy, db'.policy)
    <3>1. Older(mid.policy, db'.policy) /\ db' \in Image
      BY <1>5, ForgetMovesOn
    <3>2. db.policy \in Policy /\ mid.policy \in Policy /\ db'.policy \in Policy
      BY <3>1 DEF IInv, TypeOK, Image
    <3> QED BY <1>5, <3>1, <3>2, OlderFacts
  <2> QED BY <2>1, <2>2, <2>3, <2>4 DEF Ids
<1>6. ASSUME NEW c \in Callers, NEW id \in Events, NEW tie \in Ties, ForgetNow(c, id, tie)
      PROVE  Goal
  <2>1. db \in Image /\ db.policy \in Policy
    BY DEF IInv, TypeOK, Image
  <2>2. NotNewer(db.policy, db.policy)
    BY <2>1, OlderFacts
  <2> QED BY <1>5, <1>6, <2>1, <2>2 DEF ForgetNow
<1>7. ASSUME NEW c \in Callers, NEW id \in Events, NEW stamp \in Stamps, NEW tie \in Ties,
             ForgetByEvent(c, id, stamp, tie)
      PROVE  Goal
  <2>1. db \in Image /\ stamp \in Stamp /\ db' = Forget(Consume(db, stamp), id)
        /\ Fresh(db, stamp)
    BY <1>7, StampsAssumption DEF IInv, TypeOK, ForgetByEvent
  <2>2. /\ Consume(db, stamp) \in Image
        /\ Consume(db, stamp).facts = db.facts /\ Consume(db, stamp).erased = db.erased
    BY <2>1, ConsumeFacts
  <2>3. NotNewer(db.policy, Consume(db, stamp).policy)
    <3>1. Older(db.policy, Consume(db, stamp).policy)
      BY <2>1, ConsumeMovesOn
    <3>2. db.policy \in Policy /\ Consume(db, stamp).policy \in Policy
      BY <2>1, <2>2 DEF Image
    <3> QED BY <3>1, <3>2, OlderFacts
  <2> QED BY <1>5, <2>1, <2>2, <2>3
<1>8. ASSUME NEW c \in Callers, NEW r \in Requests, NEW tie \in Ties, OpenCapture(c, r, tie)
      PROVE  Goal
  BY <1>8 DEF OpenCapture
<1>9. ASSUME NEW c \in Callers, Reserve(c) PROVE Goal
  <2>1. db \in Image /\ StampOf(call[c].request) \in Stamp
        /\ db' = Consume(db, StampOf(call[c].request))
        /\ Fresh(db, StampOf(call[c].request))
    BY <1>9, RequestFacts DEF IInv, TypeOK, Reserve, MayReserve, Idle
  <2> QED BY <2>1, ConsumeFacts, ConsumeMovesOn DEF Ids
<1> QED BY <1>1, <1>2, <1>3, <1>4, <1>6, <1>7, <1>8, <1>9 DEF Next

\* Nothing is stored while consent is off, nor by a capture that a consent
\* change, a control or a forget has overtaken.
THEOREM NeverStoredAfterRevocation == Spec => NoStoreAfterRevocation
<1>1. IInv /\ [Next]_vars => [StoreIsUnrevoked]_vars
  <2> SUFFICES ASSUME IInv, [Next]_vars, NEW f \in db'.facts \ db.facts
               PROVE  /\ db.policy.enabled
                      /\ \E c \in Callers \ revoked :
                            call[c].stage = "extracting" /\ call[c].request.event = f.id
    BY DEF StoreIsUnrevoked
  <2>1. PICK c \in Callers : Commit(c)
    BY OnlyCommitStores
  <2>2. Extracting(c) /\ MayCommit(c)
    BY <2>1 DEF Commit, Extracting
  <2>3. f.id = call[c].request.event
    BY <2>1, <2>2, CommitFacts DEF Commit
  <2>4. c \notin revoked
    <3>1. db.policy.epoch \in Nat
      BY DEF IInv, TypeOK, Image, Policy
    <3> QED BY <2>2, <3>1 DEF IInv, Epochs, MayCommit
  <2> QED BY <2>2, <2>3, <2>4 DEF MayCommit, Extracting
<1> QED BY <1>1, Invariance, PTL DEF Spec, NoStoreAfterRevocation

\* A record id that was forgotten is never live again, and no record vanishes
\* without a tombstone.
THEOREM ForgottenForever == Spec => ForgottenStaysForgotten
<1>1. IInv /\ [Next]_vars => [ErasedStaysErased]_vars
  <2> SUFFICES ASSUME IInv, [Next]_vars PROVE ErasedStaysErased
    OBVIOUS
  <2>1. CASE db' = db
    BY <2>1 DEF IInv, WellLinked, ErasedStaysErased, Ids
  <2>2. ASSUME NEW c \in Callers, Commit(c) PROVE ErasedStaysErased
    <3>1. Extracting(c) /\ MayCommit(c)
      BY <2>2 DEF Commit, Extracting
    <3>2. PICK f \in Fact : /\ db'.facts = db.facts \cup {f} /\ db'.erased = db.erased
                            /\ f.id \notin db.erased
      BY <2>2, <3>1, CommitFacts DEF Commit, Insertable
    <3> QED BY <3>2 DEF IInv, WellLinked, ErasedStaysErased, Ids
  <2>3. CASE /\ db'.facts \subseteq db.facts
             /\ db'.erased = db.erased \cup Ids(db.facts \ db'.facts)
    BY <2>3 DEF IInv, WellLinked, ErasedStaysErased, Ids
  <2> QED BY <2>1, <2>2, <2>3, OnlyCommitStores
<1> QED BY <1>1, Invariance, PTL DEF Spec, ForgottenStaysForgotten

\* What Commit stores is younger than everything stored: its event was the last
\* one reserved.
LEMMA CommitsAreYoungest ==
    ASSUME IInv, NEW c \in Callers, Commit(c), NEW h \in db.facts
    PROVE  h.sequence < call[c].request.sequence
<1> DEFINE r == call[c].request
<1>1. Extracting(c) /\ MayCommit(c)
  BY DEF Commit, Extracting
<1>2. r.event \in Events /\ r.event \notin Ids(db.facts)
  BY <1>1, RequestFacts DEF IInv, Reservations, Extracting, Idle, Request
<1>3. db.consumed[r.event] = r.sequence /\ r.sequence = db.policy.watermark
  BY <1>1 DEF MayCommit, IInv, Reservations
<1>4. h.id \in Events /\ h.id # r.event /\ h.sequence \in Nat \ {0}
  BY <1>2 DEF IInv, TypeOK, Image, Fact, Sequences, Ids
<1>5. db.consumed[h.id] = h.sequence /\ db.consumed[h.id] <= db.policy.watermark
  BY <1>4 DEF IInv, Fenced
<1>6. db.consumed[h.id] # db.consumed[r.event]
  BY <1>2, <1>4, <1>5 DEF IInv, Fenced
<1>7. db.policy.watermark \in Nat
  BY BoundsAssumption DEF IInv, TypeOK, Image, Policy
<1> QED BY <1>3, <1>4, <1>5, <1>6, <1>7

\* Facts are stored in the order of their host sequences.
THEOREM AlwaysStoredInOrder == Spec => StoredInOrder
<1>1. IInv /\ [Next]_vars =>
        [\A f \in db'.facts \ db.facts : \A h \in db.facts : h.sequence < f.sequence]_vars
  <2> SUFFICES ASSUME IInv, [Next]_vars,
                      NEW f \in db'.facts \ db.facts, NEW h \in db.facts
               PROVE  h.sequence < f.sequence
    OBVIOUS
  <2>1. PICK c \in Callers : Commit(c)
    BY OnlyCommitStores
  <2>2. f.sequence = call[c].request.sequence
    BY <2>1, CommitFacts DEF Commit, Extracting
  <2> QED BY <2>1, <2>2, CommitsAreYoungest
<1> QED BY <1>1, Invariance, PTL DEF Spec, StoredInOrder

\* A relation always points at a live, earlier fact of its own lineage, and a
\* confirmation at one that says the same: what _store relates a fact to is
\* active, and an erasure takes the whole lineage.
THEOREM RelationsAlwaysResolve == Spec => []RelationsResolve
<1>1. Init => Resolved(db)
  BY DEF Init, EmptyImage, Resolved
<1>2. IInv /\ Resolved(db) /\ [Next]_vars => Resolved(db)'
  <2> SUFFICES ASSUME IInv, Resolved(db), [Next]_vars PROVE Resolved(db')
    OBVIOUS
  <2>1. ASSUME NEW c \in Callers, Commit(c) PROVE Resolved(db')
    <3>1. Extracting(c) /\ MayCommit(c)
      BY <2>1 DEF Commit, Extracting
    <3>2. db'.facts = db.facts \cup {NewFact(db, call[c].request)}
      BY <2>1, <3>1, CommitFacts DEF Commit
    <3>3. /\ db \in Image /\ call[c].request \in Request /\ Storable(db, call[c].request)
          /\ call[c].request.targets # {} => call[c].request.target = NoEvent
      BY <3>1, RequestFacts DEF IInv, TypeOK, Extracting, Idle, MayCommit
    <3>4. \A h \in db.facts : h.sequence < call[c].request.sequence
      BY <2>1, CommitsAreYoungest
    <3> QED BY <3>2, <3>3, <3>4, InsertResolves
  <2>2. CASE /\ db'.facts \subseteq db.facts
             /\ \A f, h \in db.facts :
                   f.group = h.group => (f \in db'.facts <=> h \in db'.facts)
    BY <2>2, WholeGroupsStayResolved
  <2> QED BY <2>1, <2>2, OnlyCommitStores
<1>3. Resolved(db) => RelationsResolve
  BY DEF Resolved, Explained, RelationsResolve
<1> QED BY <1>1, <1>2, <1>3, InitIInv, NextKeepsIInv, PTL DEF Spec
-----------------------------------------------------------------------------
(***************************************************************************)
(* The list of stored versions.  A list that was begun covers the image    *)
(* under its policy: nothing but a page still to come, or the capture that *)
(* was reserved last, is missing from it.  The empty list that a chat      *)
(* begins with covers every image.                                         *)
(***************************************************************************)
After(f, F) == \A h \in F : h.sequence < f.sequence

Covers(img, L) ==
    /\ L.shown \subseteq img.facts /\ L.active \subseteq L.shown
    /\ \A f \in img.facts \ L.shown :
          (L.more /\ After(f, L.shown)) \/ f.sequence = img.policy.watermark
    /\ L.more /\ L.shown # {} => \E f \in img.facts : After(f, L.shown)
    /\ \A f \in L.shown :
          \/ f \in L.active <=> ActiveInPage(img, f)
          \/ \E h \in img.facts : h.sequence = img.policy.watermark /\ f.id \in h.supersedes

\* The versions after this sequence are those that these do not reach.
Follows(after, F) ==
    \A f \in Fact : f.sequence > after <=> After(f, F)

CursorFollows ==
    cursor # NoPage =>
        /\ list # NoList /\ list.more /\ list.shown # {}
        /\ cursor.policy = list.policy /\ Follows(cursor.after, list.shown)

PageCovers ==
    looking # NoPage =>
        /\ looking = [stage |-> looking.stage, policy |-> looking.policy,
                      after |-> looking.after, earlier |-> looking.earlier,
                      rows |-> looking.rows, active |-> looking.active, more |-> looking.more]
        /\ looking.policy \in Policy /\ NotNewer(looking.policy, db.policy)
        /\ (looking.policy = db.policy /\ looking.stage = "snapshot") =>
              /\ looking.earlier.more /\ Covers(db, looking.earlier)
              /\ Follows(looking.after, looking.earlier.shown)
        /\ (looking.policy = db.policy /\ looking.stage = "answer") =>
              /\ Covers(db, Listed)
              /\ looking.more => looking.rows # {}
              /\ looking.more => Follows(LastOf(looking.rows).sequence, Listed.shown)

ListCovers ==
    list # NoList =>
        /\ list.policy \in Policy /\ NotNewer(list.policy, db.policy)
        /\ list.policy = db.policy =>
              Covers(db, list) /\ (list.more => list.shown # {})

PagesInv == IsFiniteSet(db.facts) /\ CursorFollows /\ PageCovers /\ ListCovers

LEMMA LastIsMember ==
    ASSUME NEW F, F \subseteq Fact, F # {}
    PROVE  LastOf(F) \in F /\ \A h \in F : h.sequence <= LastOf(F).sequence
<1> DEFINE S == {MaxSequence - f.sequence : f \in F}
<1>1. \A f \in F : f.sequence \in Nat /\ f.sequence <= MaxSequence
  BY BoundsAssumption DEF Fact, Sequences
<1>2. MaxSequence \in Nat
  BY BoundsAssumption
<1>3. S \subseteq Nat /\ S # {}
  BY <1>1, <1>2
<1>4. PICK x \in S : \A y \in S : x <= y
  <2> HIDE DEF S
  <2> QED BY <1>3, LeastNatural
<1>5. PICK f \in F : x = MaxSequence - f.sequence
  OBVIOUS
<1>6. ASSUME NEW h \in F PROVE h.sequence <= f.sequence
  <2>1. MaxSequence - f.sequence <= MaxSequence - h.sequence
    BY <1>4, <1>5
  <2> QED BY <1>1, <1>2, <2>1
<1> QED BY <1>5, <1>6 DEF LastOf

\* A page holds the first versions: those it leaves out come after it, and
\* it leaves them all out only if there are none.
LEMMA PageHoldsTheFirst ==
    ASSUME NEW F, F \subseteq Fact, IsFiniteSet(F)
    PROVE  /\ FirstOf(F) \subseteq F
           /\ \A f \in F \ FirstOf(F) : After(f, FirstOf(F))
           /\ F # {} => FirstOf(F) # {}
<1> DEFINE before(f) == {h \in F : h.sequence < f.sequence}
<1>1. \A f \in F : f.sequence \in Nat
  BY BoundsAssumption DEF Fact, Sequences
<1>2. \A f \in F : f \in FirstOf(F) <=> Cardinality(before(f)) < PageSize
  BY DEF FirstOf
<1>3. \A f \in F : IsFiniteSet(before(f)) /\ Cardinality(before(f)) \in Nat
  BY FS_Subset, FS_CardinalityType
<1>4. ASSUME NEW f \in F \ FirstOf(F), NEW g \in FirstOf(F)
      PROVE  g.sequence < f.sequence
  <2>1. g \in F /\ f \in F
    BY DEF FirstOf
  <2>2. Cardinality(before(g)) < PageSize /\ ~(Cardinality(before(f)) < PageSize)
    BY <1>2, <1>4, <2>1
  <2>3. SUFFICES ASSUME f.sequence <= g.sequence PROVE FALSE
    BY <1>1, <2>1
  <2>4. before(f) \subseteq before(g)
    BY <1>1, <2>1, <2>3
  <2>5. Cardinality(before(f)) <= Cardinality(before(g))
    BY <1>3, <2>1, <2>4, FS_Subset
  <2>6. /\ Cardinality(before(f)) \in Nat /\ Cardinality(before(g)) \in Nat
        /\ PageSize \in Nat
    BY <1>3, <2>1, PageAssumption
  <2> HIDE DEF before
  <2> QED BY <2>2, <2>5, <2>6
<1>5. ASSUME F # {} PROVE FirstOf(F) # {}
  <2>1. Earliest(F) \in F /\ \A h \in F : Earliest(F).sequence <= h.sequence
    BY <1>5, EarliestIsMember
  <2>2. before(Earliest(F)) = {}
    BY <1>1, <2>1
  <2>3. Cardinality(before(Earliest(F))) = 0
    BY <2>2, FS_EmptySet
  <2> QED BY <1>2, <2>1, <2>3, PageAssumption
<1> QED BY <1>4, <1>5 DEF After, FirstOf

\* What the capture that was reserved last stores, a list may miss.
LEMMA CommitCovers ==
    ASSUME IInv, NEW c \in Callers, Commit(c), NEW L, Covers(db, L)
    PROVE  Covers(db', L)
<1> DEFINE r == call[c].request
<1>1. Extracting(c) /\ MayCommit(c)
  BY DEF Commit, Extracting
<1> PICK f : f = NewFact(db, r)
  OBVIOUS
<1>2. /\ f \in Fact /\ f.id = r.event /\ f.sequence = r.sequence /\ Insertable(db, f)
      /\ db' = Insert(db, f) /\ db \in Image
  BY <1>1, CommitFacts DEF Commit, IInv, TypeOK
<1>3. /\ db'.policy = db.policy /\ db'.facts = db.facts \cup {f}
      /\ db'.replacements = db.replacements \cup
            {[target |-> t, superseder |-> f.id] : t \in f.supersedes}
  BY <1>2, InsertFacts
<1>4. f.sequence = db.policy.watermark
  BY <1>1, <1>2 DEF MayCommit
<1>5. \A p \in db.replacements : p.superseder # f.id
  <2>1. f.id \notin Ids(db.facts) \cup db.erased
    BY <1>2 DEF Insertable
  <2> QED BY <2>1 DEF IInv, WellLinked, Ids
<1>6. ASSUME NEW g \in L.shown, g.id \notin f.supersedes
      PROVE  ActiveInPage(db', g) <=> ActiveInPage(db, g)
  <2>1. \A q \in db'.replacements : q.target = g.id => q \in db.replacements
    BY <1>3, <1>6
  <2>2. \A q \in db.replacements :
           q \in db'.replacements /\ (q.superseder \in Ids(db'.facts) <=> q.superseder \in Ids(db.facts))
    BY <1>3, <1>5 DEF Ids
  <2> QED BY <2>1, <2>2 DEF ActiveInPage
<1>7. \A g \in L.shown :
         \/ g \in L.active <=> ActiveInPage(db', g)
         \/ \E h \in db'.facts : h.sequence = db'.policy.watermark /\ g.id \in h.supersedes
  <2> SUFFICES ASSUME NEW g \in L.shown
               PROVE  \/ g \in L.active <=> ActiveInPage(db', g)
                      \/ \E h \in db'.facts :
                            h.sequence = db'.policy.watermark /\ g.id \in h.supersedes
    OBVIOUS
  <2>1. CASE g.id \in f.supersedes
    BY <1>3, <1>4, <2>1
  <2>2. CASE g.id \notin f.supersedes
    BY <1>3, <1>6, <2>2 DEF Covers
  <2> QED BY <2>1, <2>2
<1>8. \A g \in db'.facts \ L.shown :
         (L.more /\ After(g, L.shown)) \/ g.sequence = db'.policy.watermark
  BY <1>3, <1>4 DEF Covers
<1> QED BY <1>3, <1>7, <1>8 DEF Covers

\* A step of the memory leaves a list covering it, or makes its policy one of
\* the past.
LEMMA MemoryKeepsPages ==
    ASSUME IInv, PagesInv, [Next]_vars, UNCHANGED pages
    PROVE  PagesInv'
<1>1. cursor' = cursor /\ looking' = looking /\ list' = list
  BY DEF pages
<1>2. db \in Image /\ db' \in Image
  BY NextKeepsIInv DEF IInv, TypeOK
<1>3. db.policy \in Policy /\ db'.policy \in Policy
  BY <1>2 DEF Image
<1>4. \/ /\ db'.policy = db.policy
         /\ \A L : Covers(db, L) => Covers(db', L)
      \/ Older(db.policy, db'.policy)
  <2>1. ASSUME NEW c \in Callers, Commit(c)
        PROVE  db'.policy = db.policy /\ \A L : Covers(db, L) => Covers(db', L)
    <3>1. Extracting(c) /\ MayCommit(c)
      BY <2>1 DEF Commit, Extracting
    <3>2. db'.policy = db.policy
      BY <2>1, <3>1, CommitFacts DEF Commit
    <3> QED BY <2>1, <3>2, CommitCovers
  <2> QED BY <2>1, OnlyCommitStores
<1>5. IsFiniteSet(db'.facts)
  <2>1. ASSUME NEW c \in Callers, Commit(c) PROVE IsFiniteSet(db'.facts)
    <3>1. Extracting(c) /\ MayCommit(c)
      BY <2>1 DEF Commit, Extracting
    <3>2. \E f : db'.facts = db.facts \cup {f}
      BY <2>1, <3>1, CommitFacts DEF Commit
    <3> QED BY <3>2, FS_AddElement DEF PagesInv
  <2> QED BY <2>1, OnlyCommitStores, FS_Subset DEF PagesInv
<1>6. CursorFollows'
  BY <1>1 DEF PagesInv, CursorFollows
<1>7. \A p \in Policy : NotNewer(p, db.policy) =>
         /\ NotNewer(p, db'.policy)
         /\ p = db'.policy =>
               p = db.policy /\ \A L : Covers(db, L) => Covers(db', L)
  <2> SUFFICES ASSUME NEW p \in Policy, NotNewer(p, db.policy)
               PROVE  /\ NotNewer(p, db'.policy)
                      /\ p = db'.policy =>
                            p = db.policy /\ \A L : Covers(db, L) => Covers(db', L)
    OBVIOUS
  <2>1. CASE Older(db.policy, db'.policy)
    <3>1. Older(p, db'.policy)
      BY <1>3, <2>1, OlderFacts
    <3> QED BY <1>3, <3>1, OlderFacts
  <2>2. CASE db'.policy = db.policy /\ \A L : Covers(db, L) => Covers(db', L)
    BY <2>2
  <2> QED BY <1>4, <2>1, <2>2
<1>8. PageCovers'
  <2>1. Listed' = Listed
    BY <1>1 DEF Listed
  <2> QED BY <1>1, <1>7, <2>1 DEF PagesInv, PageCovers
<1>9. ListCovers'
  BY <1>1, <1>7 DEF PagesInv, ListCovers
<1> QED BY <1>5, <1>6, <1>8, <1>9 DEF PagesInv

\* The versions after "after", and the first of them; what they add to a list.
ReadsPage(img, after, later, rows) ==
    later = {f \in img.facts : f.sequence > after} /\ rows = FirstOf(later) /\ rows # {}
Extends(img, L, later, rows, new) ==
    /\ new.shown = L.shown \cup rows
    /\ new.active = L.active \cup {f \in rows : ActiveInPage(img, f)}
    /\ new.more = (rows # later)

\* The read of a page covers what it adds.
LEMMA SnapshotCovers ==
    ASSUME NEW img, img.facts \subseteq Fact, IsFiniteSet(img.facts),
           NEW L, L.more, Covers(img, L),
           NEW after, Follows(after, L.shown),
           NEW later, NEW rows, ReadsPage(img, after, later, rows),
           NEW new, Extends(img, L, later, rows, new)
    PROVE  Covers(img, new) /\ Follows(LastOf(rows).sequence, new.shown)
<1> PICK F : F = img.facts
  OBVIOUS
<1>0. /\ F \subseteq Fact /\ IsFiniteSet(F)
      /\ later = {f \in F : f.sequence > after} /\ rows = FirstOf(later) /\ rows # {}
      /\ new.shown = L.shown \cup rows
      /\ new.active = L.active \cup {f \in rows : ActiveInPage(img, f)}
      /\ new.more = (rows # later)
  BY DEF ReadsPage, Extends
<1> USE <1>0
<1>1. later \subseteq Fact /\ IsFiniteSet(later)
  BY FS_Subset
<1>2. /\ rows \subseteq later /\ \A f \in later \ rows : After(f, rows)
      /\ rows \subseteq Fact
  BY <1>1, PageHoldsTheFirst
<1>3. \A f \in rows : After(f, L.shown)
  BY <1>2 DEF Follows
<1>4. L.shown \subseteq F
  BY DEF Covers
<1>5. \A f \in Fact : f.sequence \in Nat
  BY BoundsAssumption DEF Fact, Sequences
<1>6. \A f \in later \ rows : After(f, new.shown)
  BY <1>1, <1>2 DEF Follows, After
<1>7. \A f \in F \ new.shown :
         (new.more /\ After(f, new.shown)) \/ f.sequence = img.policy.watermark
  <2> SUFFICES ASSUME NEW f \in F \ new.shown, f.sequence # img.policy.watermark
               PROVE  new.more /\ After(f, new.shown)
    OBVIOUS
  <2>1. After(f, L.shown)
    BY DEF Covers
  <2>2. f \in later \ rows
    BY <2>1 DEF Follows
  <2> QED BY <1>6, <2>2
<1>8. new.more /\ new.shown # {} => \E f \in F : After(f, new.shown)
  BY <1>2, <1>6
<1>9. \A f \in new.shown :
         \/ f \in new.active <=> ActiveInPage(img, f)
         \/ \E h \in F : h.sequence = img.policy.watermark /\ f.id \in h.supersedes
  <2> SUFFICES ASSUME NEW f \in new.shown
               PROVE  \/ f \in new.active <=> ActiveInPage(img, f)
                      \/ \E h \in F : h.sequence = img.policy.watermark /\ f.id \in h.supersedes
    OBVIOUS
  <2>1. CASE f \in rows
    <3>1. f \notin L.shown
      BY <1>2, <1>3, <1>5, <2>1 DEF After
    <3>2. f \notin L.active
      BY <3>1 DEF Covers
    <3> QED BY <2>1, <3>2
  <2>2. CASE f \notin rows
    BY <2>2 DEF Covers
  <2> QED BY <2>1, <2>2
<1>10. Covers(img, new)
  <2>1. new.shown \subseteq F /\ new.active \subseteq new.shown
    BY <1>2, <1>4 DEF Covers
  <2> QED BY <1>7, <1>8, <1>9, <2>1 DEF Covers
<1>11. Follows(LastOf(rows).sequence, new.shown)
  <2>1. LastOf(rows) \in rows /\ \A h \in rows : h.sequence <= LastOf(rows).sequence
    BY <1>2, LastIsMember
  <2>2. After(LastOf(rows), L.shown) /\ LastOf(rows).sequence \in Nat
    BY <1>2, <1>3, <1>5, <2>1
  <2>3. \A h \in new.shown : h.sequence \in Nat /\ h.sequence <= LastOf(rows).sequence
    BY <1>2, <1>4, <1>5, <2>1, <2>2 DEF After
  <2>4. LastOf(rows) \in new.shown
    BY <2>1
  <2> SUFFICES ASSUME NEW f \in Fact
               PROVE  f.sequence > LastOf(rows).sequence <=> After(f, new.shown)
    BY DEF Follows
  <2>5. f.sequence > LastOf(rows).sequence => After(f, new.shown)
    BY <1>5, <2>2, <2>3 DEF After
  <2>6. After(f, new.shown) => f.sequence > LastOf(rows).sequence
    BY <1>5, <2>2, <2>4 DEF After
  <2> QED BY <2>5, <2>6
<1> QED BY <1>10, <1>11

\* A page that is asked for begins where those before it end.
LEMMA LookKeepsPages ==
    ASSUME IInv, PagesInv, NEW after, NEW earlier, Look(after, earlier), UNCHANGED vars,
           earlier.more, Covers(db, earlier), Follows(after, earlier.shown)
    PROVE  PagesInv'
<1>1. /\ db' = db /\ list' = list /\ cursor' = NoPage
      /\ looking'.policy = db.policy /\ looking'.stage = "snapshot"
      /\ looking'.earlier = earlier /\ looking'.after = after
      /\ looking' = [stage |-> looking'.stage, policy |-> looking'.policy,
                     after |-> looking'.after, earlier |-> looking'.earlier,
                     rows |-> looking'.rows, active |-> looking'.active,
                     more |-> looking'.more]
  BY DEF Look, vars
<1>2. db.policy \in Policy
  BY DEF IInv, TypeOK, Image
<1>3. PageCovers'
  BY <1>1, <1>2, OlderFacts DEF PageCovers
<1> QED BY <1>1, <1>3 DEF PagesInv, CursorFollows, ListCovers

LEMMA NoListCovers ==
    /\ NoList.more /\ Follows(0, NoList.shown)
    /\ \A img : Covers(img, NoList)
<1>1. NoList.more /\ NoList.shown = {} /\ NoList.active = {}
  BY DEF NoList
<1>2. \A f \in Fact : f.sequence > 0
  BY DEF Fact, Sequences
<1> QED BY <1>1, <1>2 DEF Follows, After, Covers

LEMMA NextPageKeepsPages ==
    ASSUME IInv, PagesInv, NextPage, UNCHANGED vars
    PROVE  PagesInv'
<1>1. CASE Continues
  <2>1. Look(cursor.after, list) /\ cursor # NoPage /\ cursor.policy = db.policy
    BY <1>1 DEF NextPage, Continues
  <2>2. /\ list.more /\ Covers(db, list) /\ Follows(cursor.after, list.shown)
    BY <2>1 DEF PagesInv, CursorFollows, ListCovers
  <2> QED BY <2>1, <2>2, LookKeepsPages
<1>2. CASE ~Continues
  BY <1>2 DEF NextPage, vars, PagesInv, CursorFollows, PageCovers, ListCovers
<1> QED BY <1>1, <1>2

\* What a page that was read makes of the list.
LEMMA SnapshotKeepsPages ==
    ASSUME IInv, PagesInv, Snapshot, UNCHANGED vars
    PROVE  PagesInv'
<1>1. db' = db /\ cursor' = cursor /\ list' = list
  BY DEF Snapshot, vars
<1> SUFFICES PageCovers'
  BY <1>1 DEF PagesInv, CursorFollows, ListCovers
<1>2. CASE db.policy # looking.policy
  BY <1>2 DEF Snapshot, PageCovers
<1>3. CASE db.policy = looking.policy
  <2> PICK earlier, after : earlier = looking.earlier /\ after = looking.after
    OBVIOUS
  <2> PICK later, rows : later = Later(after) /\ rows = FirstOf(later)
    OBVIOUS
  <2> PICK active, more : active = MarkedActive(rows) /\ more = (rows # later)
    OBVIOUS
  <2>1. /\ looking # NoPage /\ looking.stage = "snapshot"
        /\ looking' = [looking EXCEPT !.stage = "answer", !.rows = rows,
                          !.active = active, !.more = more]
    BY <1>3 DEF Snapshot
  <2>2. /\ looking.policy \in Policy /\ NotNewer(looking.policy, db.policy)
        /\ earlier.more /\ Covers(db, earlier) /\ Follows(after, earlier.shown)
        /\ looking = [stage |-> looking.stage, policy |-> looking.policy,
                      after |-> looking.after, earlier |-> looking.earlier,
                      rows |-> looking.rows, active |-> looking.active, more |-> looking.more]
    BY <1>3, <2>1 DEF PagesInv, PageCovers
  <2>3. looking' = [stage |-> "answer", policy |-> looking.policy, after |-> after,
                    earlier |-> earlier, rows |-> rows, active |-> active, more |-> more]
    BY <2>1, <2>2
  <2>4. Listed' = IF rows = {}
                  THEN [NoList EXCEPT !.policy = looking.policy, !.more = FALSE]
                  ELSE [policy |-> looking.policy, shown |-> earlier.shown \cup rows,
                        active |-> earlier.active \cup active, more |-> more]
    BY <2>3 DEF Listed
  <2> PICK new : new = Listed'
    OBVIOUS
  <2>5. /\ db.facts \subseteq Fact /\ IsFiniteSet(db.facts)
        /\ later = {f \in db.facts : f.sequence > after}
        /\ active = {f \in rows : ActiveInPage(db, f)}
    BY DEF IInv, TypeOK, Image, PagesInv, Later, MarkedActive
  <2>6. CASE rows # {}
    <3>1. /\ new.shown = earlier.shown \cup rows
          /\ new.active = earlier.active \cup {f \in rows : ActiveInPage(db, f)}
          /\ new.more = (rows # later)
      BY <2>4, <2>5, <2>6
    <3>2. ReadsPage(db, after, later, rows) /\ Extends(db, earlier, later, rows, new)
      BY <2>5, <2>6, <3>1 DEF ReadsPage, Extends
    <3>3. Covers(db, new) /\ Follows(LastOf(rows).sequence, new.shown)
      BY <2>2, <2>5, <3>2, SnapshotCovers
    <3> QED BY <1>1, <2>2, <2>3, <2>6, <3>3 DEF PageCovers
  <2>7. CASE rows = {}
    <3>1. new.shown = {} /\ new.active = {} /\ ~new.more
      BY <2>4, <2>7 DEF NoList
    <3>2. later = {}
      <4>1. later \subseteq Fact /\ IsFiniteSet(later)
        BY <2>5, FS_Subset
      <4> QED BY <2>7, <4>1, PageHoldsTheFirst
    <3>3. db.facts = {}
      <4>1. \A f \in db.facts : ~After(f, earlier.shown)
        BY <2>2, <2>5, <3>2 DEF Follows
      <4>2. earlier.shown = {}
        BY <2>2, <4>1 DEF Covers
      <4> QED BY <4>1, <4>2 DEF After
    <3>4. Covers(db, new)
      BY <3>1, <3>3 DEF Covers
    <3>5. ~more
      BY <2>7, <3>2
    <3> QED BY <1>1, <2>2, <2>3, <3>4, <3>5 DEF PageCovers
  <2> QED BY <2>6, <2>7
<1> QED BY <1>2, <1>3

\* A page that is shown is the list's last.
LEMMA AnswerKeepsPages ==
    ASSUME IInv, PagesInv, Answer, UNCHANGED vars
    PROVE  PagesInv'
<1>1. db' = db /\ looking' = NoPage /\ looking # NoPage /\ looking.stage = "answer"
  BY DEF Answer, vars
<1>2. CASE db.policy # looking.policy
  BY <1>1, <1>2 DEF Answer, PagesInv, CursorFollows, PageCovers, ListCovers
<1>3. CASE db.policy = looking.policy
  <2>1. /\ list' = Listed
        /\ cursor' = IF looking.more
                     THEN [policy |-> looking.policy, after |-> LastOf(looking.rows).sequence]
                     ELSE NoPage
    BY <1>3 DEF Answer
  <2>2. /\ looking.policy \in Policy /\ NotNewer(looking.policy, db.policy)
        /\ Covers(db, Listed)
        /\ looking.more => looking.rows # {}
        /\ looking.more => Follows(LastOf(looking.rows).sequence, Listed.shown)
    BY <1>1, <1>3 DEF PagesInv, PageCovers
  <2>3. /\ Listed.policy = looking.policy
        /\ looking.rows # {} => Listed.shown # {}
        /\ Listed.more <=> looking.rows # {} /\ looking.more
    BY DEF Listed, NoList
  <2>4. ListCovers'
    BY <1>1, <2>1, <2>2, <2>3 DEF ListCovers
  <2>5. CursorFollows'
    <3>1. looking.more => Listed # NoList
      BY <2>2, <2>3 DEF NoList
    <3> QED BY <2>1, <2>2, <2>3, <3>1 DEF CursorFollows
  <2>6. PageCovers'
    BY <1>1 DEF PageCovers
  <2> QED BY <1>1, <2>4, <2>5, <2>6 DEF PagesInv
<1> QED BY <1>2, <1>3

LEMMA PagesNextKeeps ==
    ASSUME IInv, PagesInv, [PagesNext]_<<vars, pages>>
    PROVE  IInv' /\ PagesInv'
<1>1. CASE UNCHANGED <<vars, pages>>
  BY <1>1, NextKeepsIInv, MemoryKeepsPages
<1>2. CASE Next /\ UNCHANGED pages
  BY <1>2, NextKeepsIInv, MemoryKeepsPages
<1>3. CASE UNCHANGED vars /\ (Inspect \/ NextPage \/ Snapshot \/ Answer \/ LosePage)
  <2>1. IInv'
    BY <1>3, NextKeepsIInv
  <2>2. ASSUME Inspect PROVE PagesInv'
    <3>1. Look(0, NoList)
      BY <2>2 DEF Inspect
    <3>2. NoList.more /\ Follows(0, NoList.shown)
      BY NoListCovers
    <3>3. Covers(db, NoList)
      BY NoListCovers
    <3> QED BY <1>3, <3>1, <3>2, <3>3, LookKeepsPages
  <2>3. ASSUME LosePage PROVE PagesInv'
    <3>1. db' = db /\ list' = list /\ cursor' = NoPage /\ looking' = NoPage
      BY <1>3, <2>3 DEF LosePage, vars
    <3>2. CursorFollows' /\ PageCovers'
      BY <3>1 DEF CursorFollows, PageCovers
    <3>3. ListCovers'
      BY <3>1 DEF PagesInv, ListCovers
    <3>4. IsFiniteSet(db'.facts)
      BY <3>1 DEF PagesInv
    <3> QED BY <3>2, <3>3, <3>4 DEF PagesInv
  <2>4. PagesInv'
    BY <1>3, <2>2, <2>3, NextPageKeepsPages, SnapshotKeepsPages, AnswerKeepsPages
  <2> QED BY <2>1, <2>4
<1> QED BY <1>1, <1>2, <1>3 DEF PagesNext

\* Pages read at different times, with other callers at work in between, make
\* one true list: while its policy stands, only the capture that was reserved
\* last may be missing from it or have replaced what it marks as active.
THEOREM PagesAlwaysTell == PagesSpec => []PagesTell
<1>1. PagesInit => IInv /\ PagesInv
  <2> SUFFICES ASSUME PagesInit PROVE IInv /\ PagesInv
    OBVIOUS
  <2>1. IInv /\ db.facts = {}
    BY InitIInv DEF PagesInit, Init, EmptyImage
  <2> QED BY <2>1, FS_EmptySet
       DEF PagesInit, PagesInv, CursorFollows, PageCovers, ListCovers
<1>2. IInv /\ PagesInv /\ [PagesNext]_<<vars, pages>> => IInv' /\ PagesInv'
  BY PagesNextKeeps
<1>3. IInv /\ PagesInv => PagesTell
  <2> SUFFICES ASSUME IInv, PagesInv, list # NoList, list.policy = db.policy
               PROVE  /\ list.shown \subseteq db.facts
                      /\ \A f \in db.facts \ list.shown :
                            \/ list.more /\ f.sequence > LastOf(list.shown).sequence
                            \/ Underway(f)
                      /\ \A f \in list.shown :
                            \/ f \in list.active <=> ActiveInPage(db, f)
                            \/ \E h \in db.facts : Underway(h) /\ f.id \in h.supersedes
    BY DEF PagesTell
  <2>1. Covers(db, list) /\ (list.more => list.shown # {})
    BY DEF PagesInv, ListCovers
  <2>2. db.facts \subseteq Fact /\ list.shown \subseteq Fact
    BY <2>1 DEF IInv, TypeOK, Image, Covers
  <2>3. \A f \in Fact : f.sequence \in Nat
    BY BoundsAssumption DEF Fact, Sequences
  <2>4. ASSUME NEW f \in db.facts \ list.shown, ~Underway(f)
        PROVE  list.more /\ f.sequence > LastOf(list.shown).sequence
    <3>1. list.more /\ After(f, list.shown)
      BY <2>1, <2>4 DEF Covers, Underway
    <3>2. LastOf(list.shown) \in list.shown
      BY <2>1, <2>2, <3>1, LastIsMember
    <3> QED BY <2>2, <2>3, <3>1, <3>2 DEF After
  <2> QED BY <2>1, <2>4 DEF Covers, Underway
<1> QED BY <1>1, <1>2, <1>3, PTL DEF PagesSpec
=============================================================================
