----------------------------- MODULE NativeProofs -----------------------------
(***************************************************************************)
(* Proofs about NativeController: what an approval may still do when       *)
(* another process moves the policy on between any two looks at the        *)
(* ledger, and what a context is prepared from.  They hold for any texts,  *)
(* sessions, groups, values and outsiders, and without bounds on epochs.   *)
(***************************************************************************)
EXTENDS NativeController, PersonalStoreProofs

-----------------------------------------------------------------------------
(* The inductive invariant *)

\* The policy the ledger had when the event was reserved.
Reserved == [enabled |-> TRUE, epoch |-> op.epoch, watermark |-> op.n]

Deciding == {"modes", "control", "policy", "targets", "recheck"}
Carrying == {"erase", "open", "reserve", "commit"}
Handling == {"verify", "require"} \cup Deciding \cup Carrying
PolicyRead == {"context_modes", "recall", "context_recheck"}
Answered == "challenge" \in op.basis

\* What is known of a handler at each of its stages.
HandlerShape ==
    /\ Idle => op = NoOp
    /\ op.stage \in Handling \cup {"ask"} =>
          op.session \in Sessions /\ op.text \in Texts /\ op.n \in Sequences
    /\ InContext => op.session \in Sessions /\ joining = op.session /\ op.basis = {}
    /\ op.stage \in PolicyRead => op.policy \in Policy
    /\ op.stage \in {"control", "policy"} /\ op.text.action \in DirectOnly => op.direct
    /\ op.stage = "control" => op.text.action \in Actions
    /\ op.stage = "policy" =>
          op.text.action \in {"consent", "remember", "correct", "forget", "confirm", "disable"}
    /\ op.stage \in {"targets", "recheck"} =>
          op.text.action \in {"remember", "correct", "forget"}
    /\ op.stage \in {"open", "reserve", "commit"} => op.text.action \in {"remember", "correct"}
    /\ pending # None => pending.text.action \in {"remember", "correct", "forget"}

\* Whoever asks for more than chat may do has answered a challenge, and acts
\* under the policy of an approval.
AnswersFirst ==
    /\ op.basis # {} => Answered
    /\ op.stage \in Handling /\ Answered => op.direct /\ op.required \in Policy
    /\ op.stage \in Handling /\ op.direct /\ op.text.action \in Guarded => Answered
    /\ op.stage \in {"verify", "require"} \cup Carrying => Answered

\* No approval is younger than the policy of the ledger, a revoked one is older;
\* and the proposal a challenge was shown for is not younger than the challenge.
\* What was used is as good as the policy it was read under.
MapsInTime ==
    /\ challenge # None =>
          /\ NotNewer(challenge.policy, db.policy)
          /\ "challenge" \in revoked => Older(challenge.policy, db.policy)
    /\ pending # None =>
          /\ NotNewer(pending.policy, db.policy)
          /\ "pending" \in revoked => Older(pending.policy, db.policy)
    /\ challenge # None /\ pending # None /\ challenge.pending = pending.name
          => NotNewer(pending.policy, challenge.policy)
    /\ used # None =>
          /\ NotNewer(used.policy, db.policy)
          /\ ~(used.rows \subseteq db.facts) => Older(used.policy, db.policy)

\* The same of the approval a handler acts on, and of the event it reserved.
HandlerInTime ==
    /\ op.stage \in Handling /\ Answered => NotNewer(op.required, db.policy)
    /\ op.stage \in Handling \ {"commit"} /\ op.basis \cap revoked # {} =>
          Older(op.required, db.policy)
    /\ op.stage \in {"verify", "require", "modes", "policy"} /\ Answered /\ pending # None
          => NotNewer(pending.policy, op.required)
    /\ op.stage = "commit" =>
          /\ NotNewer(Reserved, db.policy)
          /\ op.basis \cap revoked # {} => Older(Reserved, db.policy)

\* A no-save flag that a handler has not seen is younger than its approval.
NoSaveSeen ==
    /\ op.stage \in {"policy", "targets", "recheck", "open", "reserve"} /\ Answered
       /\ db.modes[op.session].no_save /\ ~op.no_save => Older(op.required, db.policy)
    /\ op.stage \in {"targets", "recheck"} /\ op.text.action # "forget" => ~op.no_save
    /\ op.stage \in {"open", "reserve"} => ~op.no_save
    /\ op.stage = "commit" /\ db.modes[op.session].no_save => Older(Reserved, db.policy)

\* What a context is about to be prepared from is as good as the policy it was
\* read under.
ContextInTime ==
    /\ op.stage \in PolicyRead => NotNewer(op.policy, db.policy)
    /\ op.stage \in {"recall", "context_recheck"} =>
          /\ op.policy.enabled
          /\ db.modes[op.session].no_recall => Older(op.policy, db.policy)
    /\ op.stage = "context_recheck" /\ ~(op.rows \subseteq db.facts) =>
          Older(op.policy, db.policy)

\* As long as its binding was not pushed out, a proposal goes with it; as long as
\* nothing was, so does all that belongs to a session.
GoesWithBinding ==
    /\ \A a, b \in bound : a = b
    /\ op.stage \notin {"idle", "context", "context_modes", "recall", "context_recheck"} =>
          op.session \in bound
    /\ ~strayed =>
        /\ pending # None => pending.from \in bound
        /\ "pending" \in op.basis => op.from = op.session
    /\ evictions = 0 =>
        /\ \A s \in Sessions : tickets[s] # None => s \in bound
        /\ op.stage # "idle" => op.session \in bound
        /\ used # None /\ ~used.added => joining # None /\ joining \in bound

IInv ==
    /\ TypeOK
    /\ HandlerShape /\ AnswersFirst
    /\ MapsInTime /\ HandlerInTime /\ NoSaveSeen /\ ContextInTime
    /\ GoesWithBinding

\* What can still be taken up was not taken up before.
Unspent ==
    /\ challenge # None => "challenge" \notin spent
    /\ pending # None => "pending" \notin spent

-----------------------------------------------------------------------------
(* The ledger moves on *)

\* The next ledger is younger, or has the same policy and flags and all the facts.
MovesOn(img, new) ==
    /\ new \in Image
    /\ \/ Older(img.policy, new.policy)
       \/ new.policy = img.policy /\ new.modes = img.modes /\ img.facts \subseteq new.facts

\* A stored fact leaves policy and flags alone and removes nothing.
LEMMA InsertMovesOn ==
    ASSUME NEW img \in Image, NEW r \in Request, r.targets # {} => r.target = NoEvent,
           Storable(img, r)
    PROVE  /\ MovesOn(img, Insert(img, NewFact(img, r)))
           /\ Insert(img, NewFact(img, r)).policy = img.policy
           /\ Insert(img, NewFact(img, r)).modes = img.modes
           /\ img.facts \subseteq Insert(img, NewFact(img, r)).facts
<1>1. NewFact(img, r) \in Fact
  BY NewFactType
<1> QED BY <1>1, InsertFacts DEF MovesOn

\* The policy of the ledger only moves on.
LEMMA PolicyMovesOn ==
    ASSUME TypeOK, MovesOn(db, db'), NEW p \in Policy
    PROVE  /\ db.policy \in Policy /\ db'.policy \in Policy
           /\ NotNewer(p, db.policy) => NotNewer(p, db'.policy)
           /\ Older(p, db.policy) => Older(p, db'.policy)
           /\ NotNewer(p, db.policy) /\ db'.policy # db.policy => Older(p, db'.policy)
<1>1. db.policy \in Policy /\ db'.policy \in Policy
  BY DEF TypeOK, MovesOn, Image
<1> QED BY <1>1, OlderFacts DEF MovesOn

\* Approvals that are kept or dropped stay in time when the ledger moves on.
LEMMA MapsKept ==
    ASSUME IInv, TypeOK', MovesOn(db, db'),
           challenge' \in {challenge, None}, pending' \in {pending, None},
           used' \in {used, None},
           revoked' \subseteq revoked \/ Older(db.policy, db'.policy)
    PROVE  MapsInTime'
<1>1. ASSUME challenge' # None
      PROVE  /\ challenge' = challenge /\ challenge.policy \in Policy
             /\ NotNewer(challenge.policy, db'.policy)
             /\ "challenge" \in revoked' => Older(challenge.policy, db'.policy)
  <2>1. challenge' = challenge /\ challenge.policy \in Policy
    BY <1>1 DEF TypeOK, Optional, Challenge
  <2> QED BY <1>1, <2>1, PolicyMovesOn, OlderFacts DEF IInv, MapsInTime
<1>2. ASSUME pending' # None
      PROVE  /\ pending' = pending /\ pending.policy \in Policy
             /\ NotNewer(pending.policy, db'.policy)
             /\ "pending" \in revoked' => Older(pending.policy, db'.policy)
  <2>1. pending' = pending /\ pending.policy \in Policy
    BY <1>2 DEF TypeOK, Optional, Proposal
  <2> QED BY <1>2, <2>1, PolicyMovesOn, OlderFacts DEF IInv, MapsInTime
<1>3. ASSUME used' # None
      PROVE  /\ used' = used
             /\ NotNewer(used.policy, db'.policy)
             /\ ~(used.rows \subseteq db'.facts) => Older(used.policy, db'.policy)
  <2>1. used' = used /\ used.policy \in Policy
    BY <1>3 DEF TypeOK, IInv
  <2>2. db.policy \in Policy /\ db'.policy \in Policy
    BY PolicyMovesOn, <2>1 DEF IInv
  <2>3. NotNewer(used.policy, db'.policy)
    BY <1>3, <2>1, PolicyMovesOn DEF IInv, MapsInTime
  <2>4. CASE db.facts \subseteq db'.facts
    BY <1>3, <2>1, <2>3, <2>4, PolicyMovesOn DEF IInv, MapsInTime
  <2>5. CASE Older(db.policy, db'.policy)
    BY <1>3, <2>1, <2>2, <2>3, <2>5, OlderFacts DEF IInv, MapsInTime
  <2> QED BY <2>1, <2>3, <2>4, <2>5 DEF MovesOn
<1> QED BY <1>1, <1>2, <1>3 DEF IInv, MapsInTime

\* An idle handler has nothing to keep.
LEMMA IdleIsFine ==
    ASSUME op' = NoOp,
           pending' # None => pending'.text.action \in {"remember", "correct", "forget"}
    PROVE  /\ HandlerShape' /\ AnswersFirst' /\ HandlerInTime' /\ NoSaveSeen'
           /\ ContextInTime'
BY DEF NoOp, HandlerShape, AnswersFirst, HandlerInTime, NoSaveSeen, ContextInTime, InContext,
       Idle, Handling, Deciding, Carrying, PolicyRead, Answered

\* While a handler stands still, the ledger may move on and approvals be dropped.
LEMMA StandsStill ==
    ASSUME IInv, TypeOK', MovesOn(db, db'), op' = op, pending' \in {pending, None},
           InContext => joining' = joining,
           revoked' \subseteq revoked \/ Older(db.policy, db'.policy),
           MapsInTime', GoesWithBinding'
    PROVE  IInv'
<1>1. HandlerShape' /\ AnswersFirst'
  BY DEF IInv, HandlerShape, AnswersFirst, InContext, Answered, Idle, NoOp
<1>3. Reserved' = Reserved /\ Reserved \in Policy
  BY DEF IInv, TypeOK, Op, Reserved, Policy
<1>4. \/ Older(db.policy, db'.policy)
      \/ /\ db'.policy = db.policy /\ db'.modes = db.modes /\ db.facts \subseteq db'.facts
         /\ revoked' \subseteq revoked
  <2>1. db.policy \in Policy /\ db'.policy \in Policy
    BY DEF IInv, TypeOK, MovesOn, Image
  <2> QED BY <2>1, OlderFacts DEF MovesOn
<1>5. HandlerInTime'
  <2>1. op.required \in Policy => /\ NotNewer(op.required, db.policy) =>
                                     NotNewer(op.required, db'.policy)
                                  /\ Older(op.required, db.policy) =>
                                     Older(op.required, db'.policy)
                                  /\ NotNewer(op.required, db.policy)
                                     /\ Older(db.policy, db'.policy) =>
                                     Older(op.required, db'.policy)
    BY PolicyMovesOn, OlderFacts DEF IInv
  <2>2. /\ NotNewer(Reserved, db.policy) => NotNewer(Reserved, db'.policy)
        /\ Older(Reserved, db.policy) => Older(Reserved, db'.policy)
        /\ NotNewer(Reserved, db.policy) /\ Older(db.policy, db'.policy) =>
           Older(Reserved, db'.policy)
    BY <1>3, PolicyMovesOn, OlderFacts DEF IInv
  <2>3. op.stage \in Handling /\ op.basis # {} => Answered /\ op.required \in Policy
    BY DEF IInv, AnswersFirst
  <2> QED BY <1>3, <1>4, <2>1, <2>2, <2>3 DEF IInv, HandlerInTime, Answered, Handling, Carrying
<1>6. NoSaveSeen'
  <2>1. CASE Older(db.policy, db'.policy)
    <3>1. op.stage \in Handling /\ Answered => Older(op.required, db'.policy)
      BY <2>1, PolicyMovesOn, OlderFacts DEF IInv, AnswersFirst, HandlerInTime
    <3>2. op.stage = "commit" => Older(Reserved, db'.policy)
      BY <2>1, <1>3, PolicyMovesOn, OlderFacts DEF IInv, HandlerInTime
    <3> QED BY <1>3, <3>1, <3>2 DEF IInv, NoSaveSeen, Answered, Handling, Deciding, Carrying
  <2>2. CASE db'.policy = db.policy /\ db'.modes = db.modes
    BY <1>3, <2>2 DEF IInv, NoSaveSeen, Answered
  <2> QED BY <1>4, <2>1, <2>2
<1>7. ContextInTime'
  <2>1. CASE Older(db.policy, db'.policy)
    <3>1. op.stage \in PolicyRead => Older(op.policy, db'.policy) /\ NotNewer(op.policy, db'.policy)
      BY <2>1, PolicyMovesOn, OlderFacts DEF IInv, HandlerShape, ContextInTime
    <3> QED BY <3>1 DEF IInv, ContextInTime, PolicyRead
  <2>2. CASE db'.policy = db.policy /\ db'.modes = db.modes /\ db.facts \subseteq db'.facts
    BY <2>2 DEF IInv, ContextInTime
  <2> QED BY <1>4, <2>1, <2>2
<1> QED BY <1>1, <1>5, <1>6, <1>7 DEF IInv

\* What another process does while a handler stands still.
LEMMA OthersMove ==
    ASSUME IInv, TypeOK', MovesOn(db, db'), UNCHANGED <<maps, op, joining, strayed, evictions>>,
           revoked' \subseteq revoked \/ Older(db.policy, db'.policy)
    PROVE  IInv'
<1>1. MapsInTime'
  BY MapsKept DEF maps
<1>2. GoesWithBinding'
  BY DEF IInv, GoesWithBinding, maps
<1> QED BY <1>1, <1>2, StandsStill DEF maps

\* A handler that is done has nothing left to keep.
LEMMA EndsWell ==
    ASSUME IInv, TypeOK', MovesOn(db, db'), op' = NoOp, pending' \in {pending, None},
           MapsInTime', GoesWithBinding'
    PROVE  IInv'
<1>1. pending' # None => pending'.text.action \in {"remember", "correct", "forget"}
  BY DEF IInv, HandlerShape
<1> QED BY <1>1, IdleIsFine DEF IInv

-----------------------------------------------------------------------------
(* Another process *)

\* An outsider's consent or withdrawal revokes whatever was approved.
LEMMA OutsideConsentKeeps ==
    ASSUME IInv, NEW enabled \in BOOLEAN, OutsideConsent(enabled), UNCHANGED joining
    PROVE  IInv'
<1>1. db' \in Image /\ Older(db.policy, db'.policy)
  BY ConsentMovesOn DEF OutsideConsent, IInv, TypeOK
<1>2. TypeOK'
  BY <1>1 DEF OutsideConsent, Revoke, IInv, TypeOK, maps
<1> QED BY <1>1, <1>2, OthersMove DEF OutsideConsent, Revoke, MovesOn

\* An outsider's session control does, too.
LEMMA OutsideControlKeeps ==
    ASSUME IInv, NEW s \in Sessions, NEW action \in OutsideModes, NEW n \in Sequences,
           OutsideControl(s, action, n), UNCHANGED joining
    PROVE  IInv'
<1>1. action \in Actions /\ [event |-> n, sequence |-> n] \in Stamp
  BY OutsideAssumption, MessagesAreEvents DEF Actions, Stamp
<1>2. db' \in Image /\ Older(db.policy, db'.policy)
  BY <1>1, ControlMovesOn DEF OutsideControl, IInv, TypeOK
<1>3. TypeOK'
  BY <1>2 DEF OutsideControl, Revoke, IInv, TypeOK, maps
<1> QED BY <1>2, <1>3, OthersMove DEF OutsideControl, Revoke, MovesOn

\* An outsider's erasure does, too.
LEMMA OutsideForgetKeeps ==
    ASSUME IInv, NEW id \in Events, OutsideForget(id), UNCHANGED joining
    PROVE  IInv'
<1>1. db' \in Image /\ Older(db.policy, db'.policy)
  BY ForgetMovesOn DEF OutsideForget, IInv, TypeOK
<1>2. TypeOK'
  BY <1>1 DEF OutsideForget, Revoke, IInv, TypeOK, maps
<1> QED BY <1>1, <1>2, OthersMove DEF OutsideForget, Revoke, MovesOn

\* An outsider's reservation moves the watermark on, which revokes as well.
LEMMA OutsideReserveKeeps ==
    ASSUME IInv, NEW r \in Outside, OutsideReserve(r), UNCHANGED joining
    PROVE  IInv'
<1>1. [event |-> r.event, sequence |-> r.sequence] \in Stamp
  BY OutsideAssumption DEF Stamp, Request
<1>2. db' \in Image /\ Older(db.policy, db'.policy)
  BY <1>1, ConsumeMovesOn DEF OutsideReserve, IInv, TypeOK
<1>3. outsider' \in [request : Outside, epoch : Nat]
  BY DEF OutsideReserve, IInv, TypeOK, Image, Policy
<1>4. TypeOK'
  BY <1>2, <1>3 DEF OutsideReserve, Revoke, IInv, TypeOK, maps
<1> QED BY <1>2, <1>4, OthersMove DEF OutsideReserve, Revoke, MovesOn

\* An outsider's stored fact leaves policy and flags alone.
LEMMA OutsideCommitKeeps ==
    ASSUME IInv, OutsideCommit, UNCHANGED joining
    PROVE  IInv'
<1>1. MovesOn(db, db')
  <2>1. CASE MayStore(outsider.request, outsider.epoch)
    <3>1. outsider.request \in Outside
      BY DEF OutsideCommit, IInv, TypeOK
    <3>2. /\ outsider.request \in Request
          /\ outsider.request.targets # {} => outsider.request.target = NoEvent
      BY <3>1, OutsideAssumption
    <3> QED BY <2>1, <3>2, InsertMovesOn DEF OutsideCommit, MayStore, IInv, TypeOK
  <2>2. CASE ~MayStore(outsider.request, outsider.epoch)
    BY <2>2 DEF OutsideCommit, MovesOn, IInv, TypeOK
  <2> QED BY <2>1, <2>2
<1>2. TypeOK'
  BY <1>1 DEF OutsideCommit, IInv, TypeOK, maps, ghosts, MovesOn
<1> QED BY <1>1, <1>2, OthersMove DEF OutsideCommit, ghosts

-----------------------------------------------------------------------------
(* The controller's own steps *)

\* A ledger that stands still has moved on, in the weak sense.
LEMMA LedgerStands ==
    ASSUME IInv, UNCHANGED db
    PROVE  MovesOn(db, db') /\ db.policy \in Policy
BY DEF IInv, TypeOK, MovesOn, Image

\* An idle handler is a handler.
LEMMA NoOpType == NoOp \in Op
BY BoundsAssumption DEF NoOp, Op, Optional, Stages

\* A command drops what belonged to another session with its binding.
LEMMA BindFacts ==
    ASSUME IInv, NEW s \in Sessions, Bind(s)
    PROVE  /\ bound' = {s}
           /\ tickets' \in [Sessions -> Optional(Questions)]
           /\ pending' \in {pending, None} /\ used' \in {used, None} /\ expired' \subseteq Approvals
           /\ ~FinalizesOther(s) => pending' = pending /\ used' = used
           /\ ~strayed => (pending' # None => pending'.from = s)
           /\ evictions = 0 =>
                /\ \A t \in Sessions : tickets'[t] # None => t = s
                /\ used' # None /\ ~used'.added => joining = s /\ joining # None
<1>1. tickets' \in [Sessions -> Optional(Questions)]
  BY DEF Bind, IInv, TypeOK, Optional
<1>2. /\ pending' \in {pending, None} /\ used' \in {used, None} /\ expired' \subseteq Approvals
      /\ ~FinalizesOther(s) => pending' = pending /\ used' = used /\ tickets' = tickets
      /\ FinalizesOther(s) => pending' = None /\ used' = None
      /\ bound' = {s}
  BY DEF Bind, DropPending, KeepPending, IInv, TypeOK
<1>3. ASSUME evictions = 0
      PROVE  /\ \A t \in Sessions : tickets'[t] # None => t = s
             /\ used' # None /\ ~used'.added => joining = s /\ joining # None
  <2>1. CASE FinalizesOther(s)
    <3>1. \A t \in Sessions : tickets'[t] = IF t \in bound \ {s} THEN None ELSE tickets[t]
      BY <2>1 DEF Bind
    <3> QED BY <1>2, <1>3, <2>1, <3>1 DEF IInv, GoesWithBinding
  <2>2. CASE ~FinalizesOther(s)
    <3>1. \A t \in bound : t = s
      BY <2>2 DEF FinalizesOther
    <3> QED BY <1>2, <1>3, <2>2, <3>1 DEF IInv, GoesWithBinding
  <2> QED BY <2>1, <2>2
<1>4. ASSUME ~strayed, pending' # None
      PROVE  pending'.from = s
  <2>1. \A t \in bound : t = s
    BY <1>2, <1>4 DEF FinalizesOther
  <2> QED BY <1>2, <1>4, <2>1 DEF IInv, GoesWithBinding
<1> QED BY <1>1, <1>2, <1>3, <1>4

\* A request that starts to be handled, for its first steps.
LEMMA StartsWell ==
    ASSUME IInv, TypeOK', UNCHANGED db, pending' \in {pending, None},
           op'.stage \in {"ask", "modes"}, op'.session \in Sessions, op'.text \in Texts,
           op'.n \in Sequences, op'.basis = {}, 
           op'.stage = "modes" /\ op'.direct => op'.text.action \notin Guarded,
           MapsInTime', GoesWithBinding'
    PROVE  IInv'
<1>1. HandlerShape'
  BY DEF IInv, HandlerShape, InContext, Handling, Deciding, Carrying, PolicyRead, Idle
<1>2. AnswersFirst' /\ HandlerInTime' /\ NoSaveSeen' /\ ContextInTime'
  BY DEF AnswersFirst, HandlerInTime, NoSaveSeen, ContextInTime, Answered, Handling, Deciding,
         Carrying, PolicyRead
<1> QED BY <1>1, <1>2 DEF IInv

\* A command that needs an answer binds its session and starts asking.
LEMMA CommandAsksKeeps ==
    ASSUME IInv, NEW s \in Sessions, NEW text \in Texts, NEW n \in AskedAt,
           CommandAsks(s, text, n), UNCHANGED joining
    PROVE  IInv'
<1>1. n \in Sequences
  BY AskedAtAssumption
<1>2. op' = [stage |-> "ask", session |-> s, text |-> text, direct |-> TRUE, n |-> n,
             question |-> None, required |-> None, policy |-> None, no_save |-> FALSE,
             targets |-> {}, rows |-> {}, epoch |-> 0, basis |-> {}, from |-> None]
  BY DEF CommandAsks, Handle, NoOp
<1>4. /\ op' \in Op /\ op'.stage = "ask" /\ op'.session = s /\ op'.text = text
      /\ op'.n = n /\ op'.basis = {}
  BY <1>1, <1>2, BoundsAssumption DEF Op, Stages, Optional, Sequences
<1>5. /\ bound' = {s} /\ pending' \in {pending, None} /\ used' \in {used, None}
      /\ challenge' \in {challenge, None}
      /\ UNCHANGED <<db, joining, outsider, revoked, cancelled, spent, strayed,
                     evictions>>
  BY BindFacts DEF CommandAsks, ChallengeAfterBind, ghosts
<1>6. TypeOK'
  BY <1>4, <1>5, BindFacts DEF CommandAsks, IInv, TypeOK, Optional
<1>7. MapsInTime'
  BY <1>5, <1>6, LedgerStands, MapsKept
<1>8. GoesWithBinding'
  BY <1>4, <1>5, BindFacts DEF CommandAsks, GoesWithBinding
<1> QED BY <1>1, <1>4, <1>5, <1>6, <1>7, <1>8, StartsWell

\* A command that only restricts starts at once, on no approval.
LEMMA CommandTightensKeeps ==
    ASSUME IInv, NEW s \in Sessions, NEW text \in Texts, NEW n \in Sequences,
           CommandTightens(s, text, n), UNCHANGED joining
    PROVE  IInv'
<1>1. /\ op' \in Op /\ op'.stage = "modes" /\ op'.session = s /\ op'.text = text
      /\ op'.n = n /\ op'.basis = {}
  <2>1. op' = [stage |-> "modes", session |-> s, text |-> text, direct |-> TRUE, n |-> n,
               question |-> None, required |-> None, policy |-> None, no_save |-> FALSE,
               targets |-> {}, rows |-> {}, epoch |-> 0, basis |-> {}, from |-> None]
    BY DEF CommandTightens, Handle, NoOp
  <2> QED BY <2>1, BoundsAssumption DEF Op, Stages, Optional, Sequences
<1>2. /\ bound' = {s} /\ pending' \in {pending, None} /\ used' \in {used, None}
      /\ challenge' = None /\ text.action \notin Guarded
      /\ UNCHANGED <<db, joining, outsider, revoked, cancelled, spent, strayed,
                     evictions>>
  BY BindFacts DEF CommandTightens, ghosts
<1>3. TypeOK'
  BY <1>1, <1>2, BindFacts DEF CommandTightens, IInv, TypeOK, Optional
<1>4. MapsInTime'
  BY <1>2, <1>3, LedgerStands, MapsKept
<1>5. GoesWithBinding'
  BY <1>1, <1>2, BindFacts DEF CommandTightens, GoesWithBinding
<1> QED BY <1>1, <1>2, <1>3, <1>4, <1>5, StartsWell

\* An accepted token starts a handler that acts under the challenge's policy.
LEMMA CommandConfirmsKeeps ==
    ASSUME IInv, NEW s \in Sessions, NEW n \in Sequences, NEW right \in BOOLEAN,
           CommandConfirms(s, n, right), UNCHANGED joining
    PROVE  IInv'
<1>1. /\ bound' = {s} /\ pending' \in {pending, None} /\ used' \in {used, None}
      /\ challenge' = None
      /\ UNCHANGED <<db, joining, outsider, revoked, cancelled, strayed, evictions>>
      /\ spent' = spent \cup Taken
      /\ Bind(s)
  BY BindFacts DEF CommandConfirms, ghosts
<1>2. CASE ~Acceptable(s, n, right)
  <2>1. op' = NoOp
    BY <1>2 DEF CommandConfirms
  <2>2. TypeOK'
    <3>1. spent' \subseteq Approvals
      BY <1>1, <2>1 DEF IInv, TypeOK, Taken, NoOp
    <3> QED BY <1>1, <2>1, <3>1, BindFacts, NoOpType DEF IInv, TypeOK, Optional
  <2>3. MapsInTime'
    BY <1>1, <2>2, LedgerStands, MapsKept
  <2>4. GoesWithBinding'
    <3>1. op'.stage = "idle" /\ op'.basis = {}
      BY <2>1 DEF NoOp
    <3> QED BY <1>1, <3>1, BindFacts DEF GoesWithBinding
  <2> QED BY <1>1, <2>1, <2>2, <2>3, <2>4, LedgerStands, EndsWell
<1>3. CASE Acceptable(s, n, right)
  <2>1. /\ challenge \in Challenge /\ pending' = pending
        /\ PendingName = challenge.pending
    BY <1>3, BindFacts DEF CommandConfirms, Acceptable, IInv, TypeOK, Optional
  <2>2. /\ challenge.text \in Texts /\ challenge.policy \in Policy
        /\ challenge # None
    BY <1>3, <2>1 DEF Challenge, Acceptable
  <2>3. op' = [stage |-> "verify", session |-> s, text |-> challenge.text, direct |-> TRUE,
               n |-> n, question |-> None, required |-> challenge.policy, policy |-> None,
               no_save |-> FALSE, targets |-> {}, rows |-> {}, epoch |-> 0,
               basis |-> {"challenge"}, from |-> None]
    BY <1>3 DEF CommandConfirms, Handle, NoOp
  <2>4. /\ op' \in Op /\ op'.stage = "verify" /\ op'.session = s
        /\ op'.text = challenge.text /\ op'.direct = TRUE /\ op'.n = n
        /\ op'.required = challenge.policy /\ op'.basis = {"challenge"}
    BY <2>2, <2>3, BoundsAssumption DEF Op, Stages, Optional, Sequences, Approvals
  <2>5. TypeOK'
    <3>1. spent' \subseteq Approvals
      BY <1>1, <2>4 DEF IInv, TypeOK, Taken, Approvals
    <3> QED BY <1>1, <2>4, <3>1, BindFacts DEF IInv, TypeOK, Optional
  <2>6. MapsInTime'
    BY <1>1, <2>5, LedgerStands, MapsKept
  <2>7. GoesWithBinding'
    BY <1>1, <2>4, BindFacts DEF GoesWithBinding
  <2>8. HandlerShape' /\ AnswersFirst' /\ NoSaveSeen' /\ ContextInTime'
    BY <1>1, <2>1, <2>2, <2>4 DEF IInv, HandlerShape, AnswersFirst, NoSaveSeen, ContextInTime,
       InContext, Handling, Deciding, Carrying, PolicyRead, Answered, Idle
  <2>9. HandlerInTime'
    <3>1. NotNewer(op'.required, db'.policy)
          /\ (op'.basis \cap revoked' # {} => Older(op'.required, db'.policy))
      BY <1>1, <2>2, <2>4 DEF IInv, MapsInTime
    <3>2. pending' # None => NotNewer(pending'.policy, op'.required)
      BY <2>1, <2>2, <2>4 DEF IInv, MapsInTime, PendingName
    <3> QED BY <2>4, <3>1, <3>2 DEF HandlerInTime
  <2> QED BY <2>5, <2>6, <2>7, <2>8, <2>9 DEF IInv
<1> QED BY <1>2, <1>3

\* A challenge is shown under the policy of that moment.
LEMMA AskKeeps ==
    ASSUME IInv, Ask, UNCHANGED joining
    PROVE  IInv'
<1>1. op' = NoOp /\ op.stage = "ask"
      /\ UNCHANGED <<db, bound, pending, tickets, used, outsider, strayed, evictions, joining>>
  BY DEF Ask, Done, At
<1>2. op.session \in Sessions /\ op.text \in Texts /\ op.n \in Sequences
  BY <1>1 DEF IInv, HandlerShape
<1>3. PendingName \in Optional(Names)
  BY DEF PendingName, IInv, TypeOK, Optional, Proposal
<1>4. challenge' \in Challenge /\ challenge'.policy = db.policy
  BY <1>2, <1>3, LedgerStands, <1>1 DEF Ask, Challenge
<1>5. TypeOK'
  BY <1>1, <1>4, NoOpType DEF Ask, Renew, IInv, TypeOK, Optional
<1>6. MapsInTime'
  <2>1. "challenge" \notin revoked' /\ ("pending" \in revoked' => "pending" \in revoked)
    BY DEF Ask, Renew
  <2>2. NotNewer(db.policy, db.policy)
    BY <1>1, LedgerStands, OlderFacts
  <2> QED BY <1>1, <1>4, <2>1, <2>2 DEF IInv, MapsInTime
<1>7. GoesWithBinding'
  BY <1>1 DEF IInv, GoesWithBinding, NoOp
<1> QED BY <1>1, <1>5, <1>6, <1>7, LedgerStands, EndsWell

\* A request made in chat starts at once, and not directly.
LEMMA ChatRequestsKeeps ==
    ASSUME IInv, NEW text \in Texts, NEW n \in AskedAt, ChatRequests(text, n),
           UNCHANGED joining
    PROVE  IInv'
<1>1. n \in Sequences
  BY AskedAtAssumption
<1>2. PICK s \in Sessions : bound = {s} /\ op' = Handle(s, text, FALSE, n)
  BY DEF ChatRequests
<1>3. op' = [stage |-> "modes", session |-> s, text |-> text, direct |-> FALSE, n |-> n,
             question |-> None, required |-> None, policy |-> None, no_save |-> FALSE,
             targets |-> {}, rows |-> {}, epoch |-> 0, basis |-> {}, from |-> None]
  BY <1>2 DEF Handle, NoOp
<1>4. /\ op' \in Op /\ op'.stage = "modes" /\ op'.session = s /\ op'.text = text
      /\ op'.direct = FALSE /\ op'.n = n /\ op'.basis = {}
  BY <1>1, <1>3, BoundsAssumption DEF Op, Stages, Optional, Sequences
<1>5. UNCHANGED <<db, maps, outsider, ghosts, evictions, joining>>
  BY DEF ChatRequests
<1>6. TypeOK'
  BY <1>4, <1>5 DEF IInv, TypeOK, maps, ghosts
<1>7. MapsInTime'
  BY <1>5, <1>6, LedgerStands, MapsKept DEF maps, ghosts
<1>8. GoesWithBinding'
  BY <1>2, <1>4, <1>5 DEF IInv, GoesWithBinding, maps, ghosts
<1> QED BY <1>1, <1>4, <1>5, <1>6, <1>7, <1>8, StartsWell DEF maps

\* So does the control that a no-save message asks for.
LEMMA ChatAsksUnsavedKeeps ==
    ASSUME IInv, NEW q \in Questions, NEW n \in Sequences, ChatAsksUnsaved(q, n),
           UNCHANGED joining
    PROVE  IInv'
<1>2. PICK s \in Sessions, text \in Texts :
          bound = {s} /\ op' = [Handle(s, text, FALSE, n) EXCEPT !.question = q]
  BY DEF ChatAsksUnsaved
<1>3. op' = [stage |-> "modes", session |-> s, text |-> text, direct |-> FALSE, n |-> n,
             question |-> q, required |-> None, policy |-> None, no_save |-> FALSE,
             targets |-> {}, rows |-> {}, epoch |-> 0, basis |-> {}, from |-> None]
  BY <1>2 DEF Handle, NoOp
<1>4. /\ op' \in Op /\ op'.stage = "modes" /\ op'.session = s /\ op'.text = text
      /\ op'.direct = FALSE /\ op'.n = n /\ op'.basis = {}
  BY <1>3, BoundsAssumption DEF Op, Stages, Optional, Sequences
<1>5. UNCHANGED <<db, maps, outsider, ghosts, evictions, joining>>
  BY DEF ChatAsksUnsaved
<1>6. TypeOK'
  BY <1>4, <1>5 DEF IInv, TypeOK, maps, ghosts
<1>7. MapsInTime'
  BY <1>5, <1>6, LedgerStands, MapsKept DEF maps, ghosts
<1>8. GoesWithBinding'
  <2>1. bound' = bound /\ s \in bound
    BY <1>2, <1>5 DEF maps
  <2> QED BY <2>1, <1>4, <1>5 DEF IInv, GoesWithBinding, maps, ghosts
<1> QED BY <1>4, <1>5, <1>6, <1>7, <1>8, StartsWell DEF maps

\* A ticket belongs to the session that is bound.
LEMMA ChatAsksKeeps ==
    ASSUME IInv, NEW q \in Questions, ChatAsks(q), UNCHANGED joining
    PROVE  IInv'
<1>1. PICK s \in Sessions : bound = {s} /\ tickets' = [tickets EXCEPT ![s] = q]
  BY DEF ChatAsks
<1>2. UNCHANGED <<db, bound, pending, expired, challenge, used, op, outsider, revoked,
                  cancelled, spent, strayed, evictions, joining>>
  BY DEF ChatAsks, ghosts
<1>3. TypeOK'
  BY <1>1, <1>2 DEF IInv, TypeOK, Optional
<1>4. MapsInTime'
  BY <1>2, <1>3, LedgerStands, MapsKept
<1>5. GoesWithBinding'
  BY <1>1, <1>2 DEF IInv, TypeOK, GoesWithBinding
<1> QED BY <1>2, <1>3, <1>4, <1>5, LedgerStands, StandsStill

\* The first look at the ledger only lets the handler on.
LEMMA VerifyKeeps ==
    ASSUME IInv, Verify \/ Require, UNCHANGED joining
    PROVE  IInv'
<1>1. /\ UNCHANGED <<db, maps, outsider, ghosts, evictions, joining>>
      /\ op.stage \in {"verify", "require"}
      /\ \/ op' = NoOp
         \/ op.stage = "verify" /\ op' = [op EXCEPT !.stage = "require"]
         \/ op.stage = "require" /\ op' = [op EXCEPT !.stage = "modes"]
  BY DEF Verify, Require, Done, Goto, At
<1>2. CASE op' = NoOp
  <2>1. TypeOK'
    BY <1>1, <1>2, NoOpType DEF IInv, TypeOK, maps, ghosts
  <2>2. MapsInTime'
    BY <1>1, <2>1, LedgerStands, MapsKept DEF maps, ghosts
  <2>3. GoesWithBinding'
    BY <1>1, <1>2 DEF IInv, GoesWithBinding, maps, ghosts, NoOp
  <2> QED BY <1>1, <1>2, <2>1, <2>2, <2>3, LedgerStands, EndsWell DEF maps
<1>3. ASSUME NEW stage \in {"require", "modes"}, op' = [op EXCEPT !.stage = stage]
      PROVE  IInv'
  <2>1. op \in Op
    BY DEF IInv, TypeOK
  <2>2. /\ op' \in Op /\ op'.stage = stage /\ op'.session = op.session /\ op'.text = op.text
        /\ op'.direct = op.direct /\ op'.n = op.n /\ op'.required = op.required
        /\ op'.basis = op.basis /\ op'.from = op.from
    BY <1>3, <2>1 DEF Op, Stages
  <2>3. TypeOK'
    BY <1>1, <2>2 DEF IInv, TypeOK, maps, ghosts
  <2>4. MapsInTime'
    BY <1>1, <2>3, LedgerStands, MapsKept DEF maps, ghosts
  <2>5. GoesWithBinding'
    BY <1>1, <2>2 DEF IInv, GoesWithBinding, maps, ghosts
  <2>6. HandlerShape' /\ NoSaveSeen' /\ ContextInTime'
    BY <1>1, <2>2 DEF IInv, HandlerShape, NoSaveSeen, ContextInTime,
       InContext, Handling, Deciding, Carrying, PolicyRead, Answered, Idle, maps
  <2>7. AnswersFirst'
    BY <1>1, <2>2 DEF IInv, AnswersFirst, Handling, Deciding, Carrying, Answered
  <2>8. HandlerInTime'
    BY <1>1, <2>2 DEF IInv, HandlerInTime, Handling, Deciding, Carrying, Answered, maps, ghosts
  <2> QED BY <2>3, <2>4, <2>5, <2>6, <2>7, <2>8 DEF IInv
<1> QED BY <1>1, <1>2, <1>3

\* A handler that ends without binding or unbinding a session.
LEMMA DoneKeeps ==
    ASSUME IInv, TypeOK', MovesOn(db, db'), op' = NoOp,
           UNCHANGED <<bound, joining, strayed, evictions>>,
           \A s \in Sessions : tickets'[s] # None => tickets[s] # None \/ s \in bound,
           challenge' \in {challenge, None}, pending' \in {pending, None},
           used' \in {used, None},
           revoked' \subseteq revoked \/ Older(db.policy, db'.policy)
    PROVE  IInv'
<1>1. MapsInTime'
  BY MapsKept
<1>2. op'.stage = "idle" /\ op'.basis = {}
  BY DEF NoOp
<1>3. GoesWithBinding'
  BY <1>2 DEF IInv, GoesWithBinding
<1> QED BY <1>1, <1>3, EndsWell

\* A handler that goes on, and leaves ledger and approvals as they are.
LEMMA GoesOnKeeps ==
    ASSUME IInv, op' \in Op, op.stage # "idle",
           UNCHANGED <<db, bound, challenge, tickets, used, outsider, revoked, strayed, evictions,
                       joining>>,
           cancelled' \subseteq Approvals, spent' \subseteq Approvals, expired' \subseteq Approvals,
           pending' \in {pending, None},
           op'.session = op.session,
           op.stage \in {"context", "context_modes", "recall", "context_recheck"} =>
              op'.stage \in {"context", "context_modes", "recall", "context_recheck"},
           \/ op'.basis = op.basis /\ op'.from = op.from
           \/ strayed
           \/ op'.from = op.session
    PROVE  TypeOK' /\ MapsInTime' /\ GoesWithBinding'
<1>1. TypeOK'
  BY DEF IInv, TypeOK, Optional
<1>2. MapsInTime'
  BY <1>1, LedgerStands, MapsKept
<1>3. GoesWithBinding'
  BY DEF IInv, GoesWithBinding
<1> QED BY <1>1, <1>2, <1>3

\* The session's flags are read before the policy.
LEMMA ReadModesKeeps ==
    ASSUME IInv, ReadModes, UNCHANGED joining
    PROVE  IInv'
<1>1. /\ op.stage = "modes" /\ op \in Op /\ op.session \in Sessions /\ op.text \in Texts
      /\ UNCHANGED <<db, bound, challenge, tickets, used, outsider, revoked, spent, strayed,
                     evictions, joining>>
  BY DEF ReadModes, At, IInv, TypeOK, HandlerShape, Handling, Deciding
<1>2. /\ pending' \in {pending, None} /\ expired' \subseteq Approvals /\ cancelled' \subseteq Approvals
      /\ spent' \subseteq Approvals
  BY DEF ReadModes, DropPending, KeepPending, IInv, TypeOK
<1>3. CASE op' = NoOp
  <2>1. TypeOK'
    BY <1>1, <1>2, <1>3, NoOpType DEF IInv, TypeOK, Optional
  <2> QED BY <1>1, <1>3, <1>2, <2>1, LedgerStands, DoneKeeps
<1>4. ASSUME op' # NoOp
      PROVE  IInv'
  <2>1. /\ ~(op.text.action \in DirectOnly /\ ~op.direct) /\ op.text.action # "cancel"
        /\ op' = [op EXCEPT
             !.no_save = db.modes[op.session].no_save,
             !.stage = IF op.text.action \in {"no_save", "no_recall", "resume"}
                       THEN "control" ELSE "policy"]
        /\ pending' = pending
    BY <1>4 DEF ReadModes, Done, KeepPending
  <2>2. PICK stage \in {"control", "policy"} :
          /\ stage = "control" => op.text.action \in {"no_save", "no_recall", "resume"}
          /\ stage = "policy" => op.text.action \notin {"no_save", "no_recall", "resume"}
          /\ op' = [op EXCEPT !.no_save = db.modes[op.session].no_save, !.stage = stage]
    BY <2>1
  <2>3. db.modes[op.session].no_save \in BOOLEAN
    BY <1>1 DEF IInv, TypeOK, Image, Modes
  <2>4. /\ op' \in Op /\ op'.stage = stage /\ op'.session = op.session /\ op'.text = op.text
        /\ op'.direct = op.direct /\ op'.n = op.n /\ op'.required = op.required
        /\ op'.basis = op.basis /\ op'.from = op.from
        /\ (op'.no_save <=> db.modes[op.session].no_save)
    BY <1>1, <2>2, <2>3 DEF Op, Stages
  <2>5. TypeOK' /\ MapsInTime' /\ GoesWithBinding'
    BY <1>1, <1>2, <2>4, GoesOnKeeps
  <2>6. op.text.action \in {"consent", "remember", "correct", "forget", "resume",
                            "confirm", "cancel", "disable", "no_save", "no_recall"}
    BY <1>1, TextsAssumption
  <2>7. HandlerShape'
    BY <1>1, <2>1, <2>2, <2>4, <2>6 DEF IInv, HandlerShape, InContext, Handling, Deciding, Carrying,
       PolicyRead, Idle, Actions
  <2>8. AnswersFirst' /\ ContextInTime'
    BY <1>1, <2>4 DEF IInv, AnswersFirst, ContextInTime, Handling, Deciding, Carrying,
       PolicyRead, Answered
  <2>9. HandlerInTime' /\ NoSaveSeen'
    BY <1>1, <2>1, <2>4 DEF IInv, HandlerInTime, NoSaveSeen, Handling, Deciding, Carrying, Answered
  <2> QED BY <2>5, <2>7, <2>8, <2>9 DEF IInv
<1> QED BY <1>3, <1>4

\* The message a handler acts on is a stamp of the ledger.
LEMMA StampNowType ==
    ASSUME IInv, op.stage \in Handling
    PROVE  StampNow \in Stamp
BY MessagesAreEvents DEF IInv, HandlerShape, StampNow, Stamp

\* A control revokes whatever was approved before it.
LEMMA ApplyControlKeeps ==
    ASSUME IInv, ApplyControl, UNCHANGED joining
    PROVE  IInv'
<1>1. /\ op.stage = "control" /\ op.session \in Sessions /\ op.text.action \in Actions
      /\ db \in Image /\ StampNow \in Stamp
  BY StampNowType DEF ApplyControl, At, IInv, HandlerShape, TypeOK, Handling, Deciding
<1>2. db' = Control(db, op.text.action, op.session, StampNow)
  BY DEF ApplyControl
<1>3. db' \in Image /\ Older(db.policy, db'.policy)
  BY <1>1, <1>2, ControlMovesOn
<1>4. /\ op' = NoOp /\ pending' = None /\ expired' \subseteq Approvals /\ used' \in {used, None}
      /\ UNCHANGED <<bound, challenge, outsider, cancelled, spent, strayed, evictions, joining>>
      /\ revoked' = Approvals
  BY DEF ApplyControl, Done, DropPending, IInv, TypeOK
<1>5. tickets' \in [Sessions -> Optional(Questions)]
      /\ \A s \in Sessions : tickets'[s] # None => tickets[s] # None \/ s = op.session
  BY <1>1 DEF ApplyControl, IInv, TypeOK, Op, Optional
<1>6. TypeOK'
  BY <1>3, <1>4, <1>5, NoOpType DEF IInv, TypeOK, Optional
<1>7. MapsInTime'
  BY <1>3, <1>4, <1>6, MapsKept DEF MovesOn
<1>8. GoesWithBinding'
  <2>1. op'.stage = "idle" /\ op'.basis = {}
    BY <1>4 DEF NoOp
  <2> QED BY <1>1, <1>4, <1>5, <2>1 DEF IInv, GoesWithBinding
<1> QED BY <1>3, <1>4, <1>6, <1>7, <1>8, EndsWell DEF MovesOn

\* A control that is refused leaves everything as it was.
LEMMA RefuseControlKeeps ==
    ASSUME IInv, RefuseControl, UNCHANGED joining
    PROVE  IInv'
<1>1. op' = NoOp /\ UNCHANGED <<db, maps, outsider, ghosts, evictions, joining>>
  BY DEF RefuseControl, Done
<1>2. TypeOK'
  BY <1>1, NoOpType DEF IInv, TypeOK, maps, ghosts
<1> QED BY <1>1, <1>2, LedgerStands, DoneKeeps DEF maps, ghosts

Proposing == {"remember", "correct", "forget"}

\* What reading the policy leads to.
LEMMA ReadPolicyEffect ==
    ASSUME IInv, ReadPolicy
    PROVE  \/ op' = NoOp /\ pending' \in {pending, None} /\ expired' \subseteq Approvals
           \/ /\ op.text.action \in {"consent", "disable"}
              /\ op' = [op EXCEPT !.stage = "control"]
              /\ KeepPending
           \/ /\ op.text.action = "confirm" /\ ProposalStands
              /\ pending.text.action = "forget" \/ ~Muted
              /\ op' = [op EXCEPT
                    !.stage = IF pending.text.action = "forget" THEN "erase" ELSE "open",
                    !.policy = db.policy, !.text = pending.text,
                    !.required = pending.policy, !.targets = pending.targets,
                    !.basis = op.basis \cup {"pending"}, !.from = pending.from]
              /\ DropPending
           \/ /\ op.text.action \in Proposing
              /\ op.text.action = "forget" \/ ~Muted
              /\ op' = [op EXCEPT !.stage = "targets", !.policy = db.policy]
              /\ KeepPending
<1>1. /\ op.text.action \in {"consent", "remember", "correct", "forget", "confirm", "disable"}
      /\ expired \subseteq Approvals
  BY DEF ReadPolicy, At, IInv, HandlerShape, TypeOK
<1>2. CASE op.text.action \in {"consent", "disable"}
  <2>1. op' = [op EXCEPT !.stage = "control"] /\ KeepPending
    BY <1>2 DEF ReadPolicy, Goto
  <2> QED BY <1>2, <2>1
<1>3. CASE op.text.action \in {"remember", "correct"}
  <2>1. CASE Muted
    BY <1>1, <1>3, <2>1 DEF ReadPolicy, Done, KeepPending
  <2>2. CASE ~Muted
    <3>1. op' = [op EXCEPT !.stage = "targets", !.policy = db.policy] /\ KeepPending
      BY <1>3, <2>2 DEF ReadPolicy
    <3> QED BY <1>3, <2>2, <3>1 DEF Proposing
  <2> QED BY <2>1, <2>2
<1>4. CASE op.text.action = "forget"
  <2>1. op' = [op EXCEPT !.stage = "targets", !.policy = db.policy] /\ KeepPending
    BY <1>4 DEF ReadPolicy
  <2> QED BY <1>4, <2>1 DEF Proposing
<1>5. CASE op.text.action = "confirm"
  <2>1. DropPending
    BY <1>5 DEF ReadPolicy
  <2>2. CASE ~ProposalStands \/ (pending.text.action # "forget" /\ Muted)
    <3>1. op' = NoOp
      BY <1>5, <2>2 DEF ReadPolicy, Done
    <3> QED BY <1>1, <2>1, <3>1 DEF DropPending
  <2>3. CASE ProposalStands /\ (pending.text.action = "forget" \/ ~Muted)
    <3>1. op' = [op EXCEPT
                    !.stage = IF pending.text.action = "forget" THEN "erase" ELSE "open",
                    !.policy = db.policy, !.text = pending.text,
                    !.required = pending.policy, !.targets = pending.targets,
                    !.basis = op.basis \cup {"pending"}, !.from = pending.from]
      BY <1>5, <2>3 DEF ReadPolicy
    <3> QED BY <1>5, <2>1, <2>3, <3>1
  <2> QED BY <2>2, <2>3
<1> QED BY <1>1, <1>2, <1>3, <1>4, <1>5

\* A confirmed proposal is carried out under its own policy, which still is the ledger's.
LEMMA ReadPolicyKeeps ==
    ASSUME IInv, ReadPolicy, UNCHANGED joining
    PROVE  IInv'
<1>1. /\ op.stage = "policy" /\ op \in Op /\ op.session \in Sessions /\ op.text \in Texts
      /\ op.n \in Sequences /\ db.policy \in Policy
      /\ UNCHANGED <<db, bound, challenge, tickets, used, outsider, revoked, cancelled, strayed,
                     evictions, joining>>
      /\ cancelled' \subseteq Approvals /\ expired \subseteq Approvals /\ spent' = spent \cup Taken
  BY DEF ReadPolicy, At, IInv, TypeOK, HandlerShape, Handling, Deciding, ghosts, Image
<1>2. CASE op' = NoOp /\ pending' \in {pending, None} /\ expired' \subseteq Approvals
  <2>1. TypeOK'
    BY <1>1, <1>2, NoOpType DEF IInv, TypeOK, Optional, Taken, NoOp
  <2> QED BY <1>1, <1>2, <2>1, LedgerStands, DoneKeeps
<1>3. CASE /\ op.text.action \in {"consent", "disable"}
           /\ op' = [op EXCEPT !.stage = "control"]
           /\ KeepPending
  <2>1. /\ op' \in Op /\ op'.stage = "control" /\ op'.session = op.session /\ op'.text = op.text
        /\ op'.direct = op.direct /\ op'.n = op.n /\ op'.required = op.required
        /\ op'.basis = op.basis /\ op'.from = op.from
        /\ pending' = pending /\ expired' \subseteq Approvals
    BY <1>1, <1>3 DEF Op, Stages, KeepPending
  <2>2. TypeOK' /\ MapsInTime' /\ GoesWithBinding'
    <3>1. spent' \subseteq Approvals
      BY <1>1, <2>1 DEF IInv, TypeOK, Taken
    <3> QED BY <1>1, <2>1, <3>1, GoesOnKeeps
  <2>3. HandlerShape'
    BY <1>1, <1>3, <2>1 DEF IInv, HandlerShape, InContext, Handling, Deciding, Carrying,
       PolicyRead, Idle, Actions
  <2>4. AnswersFirst' /\ ContextInTime'
    BY <1>1, <2>1 DEF IInv, AnswersFirst, ContextInTime, Handling, Deciding, Carrying,
       PolicyRead, Answered
  <2>5. HandlerInTime' /\ NoSaveSeen'
    BY <1>1, <2>1 DEF IInv, HandlerInTime, NoSaveSeen, Handling, Deciding, Carrying, Answered
  <2> QED BY <2>2, <2>3, <2>4, <2>5 DEF IInv
<1>4. CASE /\ op.text.action \in Proposing
           /\ op.text.action = "forget" \/ ~Muted
           /\ op' = [op EXCEPT !.stage = "targets", !.policy = db.policy]
           /\ KeepPending
  <2>1. /\ op' \in Op /\ op'.stage = "targets" /\ op'.session = op.session /\ op'.text = op.text
        /\ op'.direct = op.direct /\ op'.n = op.n /\ op'.required = op.required
        /\ op'.basis = op.basis /\ op'.from = op.from /\ op'.no_save = op.no_save
        /\ pending' = pending /\ expired' \subseteq Approvals
    BY <1>1, <1>4 DEF Op, Stages, KeepPending, Optional
  <2>2. TypeOK' /\ MapsInTime' /\ GoesWithBinding'
    <3>1. spent' \subseteq Approvals
      BY <1>1, <2>1 DEF IInv, TypeOK, Taken
    <3> QED BY <1>1, <2>1, <3>1, GoesOnKeeps
  <2>3. HandlerShape'
    BY <1>1, <1>4, <2>1 DEF IInv, HandlerShape, InContext, Handling, Deciding, Carrying,
       PolicyRead, Idle, Proposing
  <2>4. AnswersFirst' /\ ContextInTime'
    BY <1>1, <2>1 DEF IInv, AnswersFirst, ContextInTime, Handling, Deciding, Carrying,
       PolicyRead, Answered
  <2>5. HandlerInTime' /\ NoSaveSeen'
    BY <1>1, <1>4, <2>1 DEF IInv, HandlerInTime, NoSaveSeen, Handling, Deciding, Carrying,
       Answered, Muted
  <2> QED BY <2>2, <2>3, <2>4, <2>5 DEF IInv
<1>5. CASE /\ op.text.action = "confirm" /\ ProposalStands
           /\ pending.text.action = "forget" \/ ~Muted
           /\ op' = [op EXCEPT
                 !.stage = IF pending.text.action = "forget" THEN "erase" ELSE "open",
                 !.policy = db.policy, !.text = pending.text,
                 !.required = pending.policy, !.targets = pending.targets,
                 !.basis = op.basis \cup {"pending"}, !.from = pending.from]
           /\ DropPending
  <2>1. /\ pending \in Proposal /\ pending # None /\ pending.policy = db.policy /\ op.direct
    BY <1>5 DEF ProposalStands, IInv, TypeOK, Optional
  <2>2. /\ pending.text \in Texts /\ pending.policy \in Policy /\ pending.targets \subseteq Events
        /\ pending.from \in Sessions /\ pending.text.action \in Proposing
    BY <2>1 DEF Proposal, Proposing, IInv, HandlerShape
  <2>3. PICK stage \in {"erase", "open"} :
          /\ stage = "open" => pending.text.action \in {"remember", "correct"} /\ ~Muted
          /\ op' = [op EXCEPT
                 !.stage = stage,
                 !.policy = db.policy, !.text = pending.text,
                 !.required = pending.policy, !.targets = pending.targets,
                 !.basis = op.basis \cup {"pending"}, !.from = pending.from]
    BY <1>5, <2>2 DEF Proposing
  <2>4. /\ op' \in Op /\ op'.stage = stage /\ op'.session = op.session
        /\ op'.text = pending.text
        /\ op'.direct = op.direct /\ op'.n = op.n /\ op'.required = pending.policy
        /\ op'.basis = op.basis \cup {"pending"} /\ op'.from = pending.from
        /\ op'.no_save = op.no_save
    BY <1>1, <2>2, <2>3 DEF Op, Stages, Optional, Approvals
  <2>5. pending' = None /\ expired' \subseteq Approvals
    BY <1>1, <1>5 DEF DropPending
  <2>6. strayed \/ pending.from = op.session
    BY <1>1, <2>1 DEF IInv, GoesWithBinding
  <2>7. TypeOK' /\ MapsInTime' /\ GoesWithBinding'
    <3>1. strayed \/ op'.from = op.session
      <4>1. op'.from = pending.from
        BY <2>4
      <4> QED BY <2>6, <4>1
    <3>2. op' \in Op /\ op'.session = op.session
      BY <2>4
    <3>3. spent' \subseteq Approvals
      BY <1>1, <2>4 DEF IInv, TypeOK, Taken, Approvals
    <3> QED BY <1>1, <2>5, <3>1, <3>2, <3>3, GoesOnKeeps
  <2>8. Answered /\ op.required \in Policy
    BY <1>1, <1>5, <2>1 DEF IInv, AnswersFirst, Handling, Deciding, Guarded
  <2>9. NotNewer(pending.policy, op.required)
    BY <1>1, <2>1, <2>8 DEF IInv, HandlerInTime
  <2>10. ~Older(op.required, db.policy) /\ ~Older(pending.policy, db.policy)
         /\ NotNewer(pending.policy, db.policy)
    BY <1>1, <2>1, <2>2, <2>8, <2>9, OlderFacts
  <2>11. op.basis \cap revoked = {} /\ "pending" \notin revoked
    BY <1>1, <2>1, <2>10 DEF IInv, HandlerInTime, MapsInTime, Handling, Deciding
  <2>12. HandlerShape'
    BY <1>1, <2>2, <2>3, <2>4, <2>5 DEF IInv, HandlerShape, InContext, Handling, Deciding,
       Carrying, PolicyRead, Idle, Proposing
  <2>13. AnswersFirst' /\ ContextInTime'
    BY <2>1, <2>2, <2>4, <2>8 DEF AnswersFirst, ContextInTime, Answered, PolicyRead
  <2>14. HandlerInTime'
    BY <1>1, <2>4, <2>5, <2>10, <2>11 DEF HandlerInTime
  <2>15. NoSaveSeen'
    BY <1>1, <2>3, <2>4, <2>8, <2>10 DEF IInv, NoSaveSeen, Muted
  <2> QED BY <2>7, <2>12, <2>13, <2>14, <2>15 DEF IInv
<1> QED BY <1>2, <1>3, <1>4, <1>5, ReadPolicyEffect

\* The targets read are facts of the ledger.
LEMMA ReadTargetsKeeps ==
    ASSUME IInv, ReadTargets, UNCHANGED joining
    PROVE  IInv'
<1> DEFINE Rows(g) == IF op.text.action = "forget" THEN Representative(db, g)
                      ELSE Active(Group(db, g))
<1>1. /\ op.stage = "targets" /\ op \in Op /\ op.session \in Sessions /\ op.text \in Texts
      /\ db \in Image
      /\ UNCHANGED <<db, bound, pending, expired, challenge, tickets, used, outsider, revoked,
                     cancelled, spent, strayed, evictions, joining>>
      /\ cancelled' \subseteq Approvals /\ spent' \subseteq Approvals
      /\ expired' \subseteq Approvals
  BY DEF ReadTargets, At, IInv, TypeOK, HandlerShape, Handling, Deciding, ghosts, maps
<1>2. \A g \in Named(op.text) : Rows(g) \subseteq Fact
  <2> SUFFICES ASSUME NEW g \in Named(op.text) PROVE Rows(g) \subseteq Fact
    OBVIOUS
  <2>1. Active(Group(db, g)) \subseteq Fact
    BY <1>1 DEF Active, Group, Image
  <2>2. Representative(db, g) \subseteq Fact
    <3>1. CASE Active(Group(db, g)) = {}
      BY <3>1 DEF Representative
    <3>2. CASE Active(Group(db, g)) # {}
      BY <2>1, <3>2, EarliestIsMember DEF Representative
    <3> QED BY <3>1, <3>2
  <2> QED BY <2>1, <2>2
<1>3. PICK rows \in SUBSET Fact :
          op' = [op EXCEPT !.stage = "recheck", !.rows = rows]
  <2> HIDE DEF Rows
  <2>1. UNION {Rows(g) : g \in Named(op.text)} \in SUBSET Fact
    BY <1>2
  <2>2. op' = [op EXCEPT !.stage = "recheck", !.rows = UNION {Rows(g) : g \in Named(op.text)}]
    BY DEF ReadTargets, Rows
  <2> QED BY <2>1, <2>2
<1> HIDE DEF Rows
<1>4. /\ op' \in Op /\ op'.stage = "recheck" /\ op'.session = op.session /\ op'.text = op.text
      /\ op'.direct = op.direct /\ op'.n = op.n /\ op'.required = op.required
      /\ op'.basis = op.basis /\ op'.from = op.from /\ op'.no_save = op.no_save
  BY <1>1, <1>3 DEF Op, Stages
<1>5. TypeOK' /\ MapsInTime' /\ GoesWithBinding'
  BY <1>1, <1>4, GoesOnKeeps
<1>6. HandlerShape'
  BY <1>1, <1>4 DEF IInv, HandlerShape, InContext, Handling, Deciding, Carrying,
     PolicyRead, Idle
<1>7. AnswersFirst' /\ ContextInTime'
  BY <1>1, <1>4 DEF IInv, AnswersFirst, ContextInTime, Handling, Deciding, Carrying,
     PolicyRead, Answered
<1>8. HandlerInTime' /\ NoSaveSeen'
  BY <1>1, <1>4 DEF IInv, HandlerInTime, NoSaveSeen, Handling, Deciding, Carrying, Answered
<1> QED BY <1>5, <1>6, <1>7, <1>8 DEF IInv

\* A new proposal is never taken for the one a challenge was shown for.
LEMMA NewNameIsNew ==
    NewName \in Names /\ (challenge # None => challenge.pending # NewName)
<1>1. \E name \in Names : challenge # None => challenge.pending # name
  BY DEF Names
<1> QED BY <1>1 DEF NewName

\* The targets are events.
LEMMA TargetsType ==
    ASSUME IInv
    PROVE  Targets \subseteq Events
BY DEF Targets, Ids, IInv, TypeOK, Op, Fact

\* What the second look at the policy leads to.
LEMMA RecheckEffect ==
    ASSUME IInv, RecheckTargets
    PROVE  \/ /\ op' = NoOp /\ pending' \in {pending, None} /\ expired' \subseteq Approvals
              /\ UNCHANGED ghosts
           \/ /\ db.policy = op.policy /\ op' = NoOp
              /\ pending' = [text |-> op.text, policy |-> op.policy, targets |-> Targets,
                             name |-> NewName, from |-> op.session]
              /\ expired' = expired \ {"pending"} /\ Renew("pending") /\ strayed' = FALSE
           \/ /\ op.direct
              /\ op' = [op EXCEPT
                    !.stage = IF op.text.action = "forget" THEN "erase" ELSE "open",
                    !.targets = Targets, !.rows = {}]
              /\ pending' = pending /\ expired' = expired /\ UNCHANGED ghosts
<1>1. CASE db.policy # op.policy \/ (~Conflict /\ NoTarget)
  <2>1. op' = NoOp /\ pending' = pending /\ expired' = expired /\ UNCHANGED ghosts
    BY <1>1 DEF RecheckTargets, Done, KeepPending
  <2> QED BY <2>1 DEF IInv, TypeOK
<1>2. CASE db.policy = op.policy /\ Conflict
  <2>1. op' = NoOp /\ pending' = None /\ expired' = expired \ {"pending"} /\ UNCHANGED ghosts
    BY <1>2 DEF RecheckTargets, Done, DropPending
  <2> QED BY <2>1 DEF IInv, TypeOK
<1>3. CASE db.policy = op.policy /\ ~Conflict /\ ~NoTarget /\ ~op.direct
  BY <1>3 DEF RecheckTargets, Done
<1>4. CASE db.policy = op.policy /\ ~Conflict /\ ~NoTarget /\ op.direct
  <2>1. /\ op' = [op EXCEPT
                    !.stage = IF op.text.action = "forget" THEN "erase" ELSE "open",
                    !.targets = Targets, !.rows = {}]
        /\ KeepPending /\ UNCHANGED ghosts
    BY <1>4 DEF RecheckTargets
  <2> QED BY <1>4, <2>1 DEF KeepPending
<1> QED BY <1>1, <1>2, <1>3, <1>4

\* A proposal is made under the policy of that moment; a direct request goes on.
LEMMA RecheckTargetsKeeps ==
    ASSUME IInv, RecheckTargets, UNCHANGED joining
    PROVE  IInv'
<1>1. /\ op.stage = "recheck" /\ op \in Op /\ op.session \in Sessions /\ op.text \in Texts
      /\ op.text.action \in Proposing /\ op.n \in Sequences
      /\ UNCHANGED <<db, bound, challenge, tickets, used, outsider, evictions, joining>>
  BY DEF RecheckTargets, At, IInv, TypeOK, HandlerShape, Handling, Deciding, Proposing
<1>2. CASE /\ op' = NoOp /\ pending' \in {pending, None} /\ expired' \subseteq Approvals
           /\ UNCHANGED ghosts
  <2>1. TypeOK'
    BY <1>1, <1>2, NoOpType DEF IInv, TypeOK, Optional, ghosts
  <2> QED BY <1>1, <1>2, <2>1, LedgerStands, DoneKeeps DEF ghosts
<1>3. CASE /\ db.policy = op.policy /\ op' = NoOp
           /\ pending' = [text |-> op.text, policy |-> op.policy, targets |-> Targets,
                          name |-> NewName, from |-> op.session]
           /\ expired' = expired \ {"pending"} /\ Renew("pending") /\ strayed' = FALSE
  <2>1. /\ pending' \in Proposal /\ pending'.policy = db.policy /\ pending'.name = NewName
        /\ pending'.from = op.session /\ pending'.text.action \in Proposing
    BY <1>1, <1>3, NewNameIsNew, TargetsType, LedgerStands DEF Proposal
  <2>2. TypeOK'
    BY <1>1, <1>3, <2>1, NoOpType DEF IInv, TypeOK, Optional, Renew
  <2>3. MapsInTime'
    <3>1. NotNewer(db.policy, db.policy)
      BY <1>1, LedgerStands, OlderFacts
    <3>2. "pending" \notin revoked' /\ ("challenge" \in revoked' => "challenge" \in revoked)
      BY <1>3 DEF Renew
    <3> QED BY <1>1, <2>1, <3>1, <3>2, NewNameIsNew DEF IInv, MapsInTime
  <2>4. GoesWithBinding'
    <3>1. op'.stage = "idle" /\ op'.basis = {}
      BY <1>3 DEF NoOp
    <3> QED BY <1>1, <2>1, <3>1 DEF IInv, GoesWithBinding
  <2>5. pending'.text.action \in {"remember", "correct", "forget"}
    BY <2>1 DEF Proposing
  <2> QED BY <1>3, <2>2, <2>3, <2>4, <2>5, IdleIsFine DEF IInv
<1>4. CASE /\ op.direct
           /\ op' = [op EXCEPT
                 !.stage = IF op.text.action = "forget" THEN "erase" ELSE "open",
                 !.targets = Targets, !.rows = {}]
           /\ pending' = pending /\ expired' = expired /\ UNCHANGED ghosts
  <2>1. PICK stage \in {"erase", "open"} :
          /\ stage = "open" => op.text.action \in {"remember", "correct"}
          /\ op' = [op EXCEPT !.stage = stage, !.targets = Targets, !.rows = {}]
    BY <1>1, <1>4 DEF Proposing
  <2>2. /\ op' \in Op /\ op'.stage = stage /\ op'.session = op.session /\ op'.text = op.text
        /\ op'.direct = op.direct /\ op'.n = op.n /\ op'.required = op.required
        /\ op'.basis = op.basis /\ op'.from = op.from /\ op'.no_save = op.no_save
    BY <1>1, <2>1, TargetsType DEF Op, Stages
  <2>3. /\ UNCHANGED <<revoked, strayed>>
        /\ cancelled' \subseteq Approvals /\ spent' \subseteq Approvals
        /\ expired' \subseteq Approvals
    BY <1>4 DEF ghosts, IInv, TypeOK
  <2>4. TypeOK' /\ MapsInTime' /\ GoesWithBinding'
    BY <1>1, <1>4, <2>2, <2>3, GoesOnKeeps
  <2>5. Answered /\ op.required \in Policy
    BY <1>1, <1>4 DEF IInv, AnswersFirst, Handling, Deciding, Guarded, Proposing
  <2>6. HandlerShape'
    BY <1>1, <1>4, <2>1, <2>2 DEF IInv, HandlerShape, InContext, Handling, Deciding, Carrying,
       PolicyRead, Idle
  <2>7. AnswersFirst' /\ ContextInTime'
    BY <1>1, <1>4, <2>2, <2>5 DEF AnswersFirst, ContextInTime, PolicyRead, Answered
  <2>8. HandlerInTime' /\ NoSaveSeen'
    BY <1>1, <2>1, <2>2, <2>3, <2>5 DEF IInv, HandlerInTime, NoSaveSeen, Handling, Deciding,
       Carrying, Answered
  <2> QED BY <2>4, <2>6, <2>7, <2>8 DEF IInv
<1> QED BY <1>2, <1>3, <1>4, RecheckEffect

-----------------------------------------------------------------------------
(* What is carried out *)

\* An erasure moves the epoch on, so nothing approved before it counts.
LEMMA EraseKeeps ==
    ASSUME IInv, Erase, UNCHANGED joining
    PROVE  IInv'
<1>1. /\ op.stage = "erase" /\ op \in Op /\ db \in Image /\ StampNow \in Stamp
      /\ op' = NoOp /\ pending' = None /\ expired' \subseteq Approvals /\ used' = None
      /\ UNCHANGED <<bound, challenge, tickets, outsider, cancelled, spent, strayed, evictions, joining>>
  BY StampNowType DEF Erase, At, Done, DropPending, IInv, TypeOK, Handling, Carrying
<1>2. /\ MovesOn(db, db') /\ revoked' \subseteq Approvals
      /\ revoked' \subseteq revoked \/ Older(db.policy, db'.policy)
  <2>1. CASE ~(Expected /\ Fresh(db, StampNow))
    BY <2>1, LedgerStands DEF Erase, IInv, TypeOK
  <2>2. CASE Expected /\ Fresh(db, StampNow)
    <3>1. PICK id \in op.targets : db' = Forget(Consume(db, StampNow), id)
      BY <2>2 DEF Erase
    <3>2. id \in Events
      BY <1>1 DEF Op
    <3>3. /\ Consume(db, StampNow) \in Image
          /\ Older(db.policy, Consume(db, StampNow).policy)
      BY <1>1, <2>2, ConsumeMovesOn
    <3>4. db' \in Image /\ Older(Consume(db, StampNow).policy, db'.policy)
      BY <3>1, <3>2, <3>3, ForgetMovesOn
    <3>5. /\ db.policy \in Policy /\ Consume(db, StampNow).policy \in Policy
          /\ db'.policy \in Policy
      BY <1>1, <3>3, <3>4 DEF Image
    <3>6. Older(db.policy, db'.policy)
      BY <3>3, <3>4, <3>5, OlderFacts
    <3>7. revoked' = Approvals
      BY <2>2 DEF Erase
    <3> QED BY <3>4, <3>6, <3>7 DEF MovesOn
  <2> QED BY <2>1, <2>2
<1>3. TypeOK'
  BY <1>1, <1>2, NoOpType DEF IInv, TypeOK, Optional, MovesOn
<1> QED BY <1>1, <1>2, <1>3, DoneKeeps

\* A capture that gives up drops what was used, and nothing else.
LEMMA UnsavedKeeps ==
    ASSUME IInv, Unsaved, UNCHANGED joining,
           UNCHANGED <<bound, pending, challenge, tickets, expired, outsider, cancelled, spent,
                     strayed, evictions>>
    PROVE  IInv'
<1>1. op' = NoOp /\ used' = None /\ UNCHANGED <<db, revoked>>
  BY DEF Unsaved, Done
<1>2. TypeOK'
  BY <1>1, NoOpType DEF IInv, TypeOK
<1> QED BY <1>1, <1>2, LedgerStands, DoneKeeps

\* The look before the reservation only lets the handler on.
LEMMA OpenKeeps ==
    ASSUME IInv, Open, UNCHANGED joining
    PROVE  IInv'
<1>1. /\ op.stage = "open" /\ op \in Op
      /\ UNCHANGED <<bound, pending, challenge, tickets, expired, outsider, cancelled, spent, strayed, evictions>>
      /\ cancelled' \subseteq Approvals /\ spent' \subseteq Approvals
      /\ expired' \subseteq Approvals
  BY DEF Open, At, IInv, TypeOK
<1>2. CASE ~db.policy.enabled
  BY <1>1, <1>2, UnsavedKeeps DEF Open
<1>3. CASE db.policy.enabled
  <2>1. op' = [op EXCEPT !.stage = "reserve"] /\ UNCHANGED <<db, used, revoked>>
    BY <1>3 DEF Open, Goto
  <2>2. /\ op' \in Op /\ op'.stage = "reserve" /\ op'.session = op.session /\ op'.text = op.text
        /\ op'.direct = op.direct /\ op'.n = op.n /\ op'.required = op.required
        /\ op'.basis = op.basis /\ op'.from = op.from /\ op'.no_save = op.no_save
    BY <1>1, <2>1 DEF Op, Stages
  <2>3. TypeOK' /\ MapsInTime' /\ GoesWithBinding'
    BY <1>1, <2>1, <2>2, GoesOnKeeps
  <2>4. HandlerShape'
    BY <1>1, <2>2 DEF IInv, HandlerShape, InContext, Handling, Deciding, Carrying,
       PolicyRead, Idle
  <2>5. AnswersFirst' /\ ContextInTime'
    BY <1>1, <2>2 DEF IInv, AnswersFirst, ContextInTime, PolicyRead, Answered, Handling, Carrying
  <2>6. HandlerInTime' /\ NoSaveSeen'
    BY <1>1, <2>1, <2>2 DEF IInv, HandlerInTime, NoSaveSeen, Handling, Deciding, Carrying, Answered
  <2> QED BY <2>3, <2>4, <2>5, <2>6 DEF IInv
<1> QED BY <1>2, <1>3

\* A reservation is made under the approval's own policy; after it, only what
\* the handler itself acts on still counts.
LEMMA ReserveKeeps ==
    ASSUME IInv, Reserve, UNCHANGED joining
    PROVE  IInv'
<1>1. /\ op.stage = "reserve" /\ op \in Op /\ op.session \in Sessions /\ op.n \in Sequences
      /\ db \in Image /\ StampNow \in Stamp /\ StampNow.sequence = op.n
      /\ db.policy \in Policy
      /\ UNCHANGED <<bound, pending, challenge, tickets, expired, outsider, cancelled, spent, strayed, evictions>>
  BY StampNowType DEF Reserve, At, IInv, TypeOK, HandlerShape, Handling, Carrying, StampNow, Image
<1>2. CASE ~(Expected /\ db.policy.enabled /\ Fresh(db, StampNow))
  BY <1>1, <1>2, UnsavedKeeps DEF Reserve
<1>3. CASE Expected /\ db.policy.enabled /\ Fresh(db, StampNow)
  <2>1. /\ db' = Consume(db, StampNow)
        /\ op' = [op EXCEPT !.stage = "commit", !.epoch = db.policy.epoch]
        /\ revoked' = revoked \cup (Approvals \ op.basis)
        /\ UNCHANGED used
    BY <1>3 DEF Reserve
  <2>2. db.policy.epoch \in Nat
    BY <1>1 DEF Policy
  <2>3. /\ op' \in Op /\ op'.stage = "commit" /\ op'.session = op.session /\ op'.text = op.text
        /\ op'.direct = op.direct /\ op'.n = op.n /\ op'.required = op.required
        /\ op'.basis = op.basis /\ op'.from = op.from /\ op'.epoch = db.policy.epoch
    BY <1>1, <2>1, <2>2 DEF Op, Stages
  <2>4. /\ db' \in Image /\ Older(db.policy, db'.policy)
        /\ db'.policy.watermark = op.n /\ db'.policy.epoch = db.policy.epoch
    BY <1>1, <1>3, <2>1, ConsumeMovesOn
  <2>5. db'.modes = db.modes
    BY <1>1, <2>1, ConsumeFacts
  <2>6. MovesOn(db, db') /\ db'.policy \in Policy
    BY <2>4 DEF MovesOn, Image
  <2>7. Answered /\ op.required = db.policy
    BY <1>1, <1>3 DEF IInv, AnswersFirst, Carrying, Expected
  <2>8. ~Older(op.required, db.policy)
    BY <1>1, <2>7, OlderFacts
  <2>9. op.basis \cap revoked = {}
    BY <1>1, <2>8 DEF IInv, HandlerInTime, Handling, Carrying
  <2>10. TypeOK'
    BY <1>1, <2>1, <2>3, <2>4 DEF IInv, TypeOK
  <2>11. MapsInTime'
    BY <1>1, <2>1, <2>4, <2>6, <2>10, MapsKept
  <2>12. GoesWithBinding'
    BY <1>1, <2>1, <2>3 DEF IInv, GoesWithBinding
  <2>13. HandlerShape'
    BY <1>1, <2>3 DEF IInv, HandlerShape, InContext, Handling, Deciding, Carrying,
       PolicyRead, Idle
  <2>14. AnswersFirst' /\ ContextInTime'
    BY <1>1, <2>3, <2>7 DEF IInv, AnswersFirst, ContextInTime, PolicyRead, Answered, Handling,
       Carrying
  <2>15. HandlerInTime'
    <3>1. NotNewer(op'.required, db'.policy)
      BY <1>1, <2>3, <2>4, <2>6, <2>7, OlderFacts
    <3>2. NotNewer(Reserved', db'.policy)
      <4>1. Reserved'.epoch = db'.policy.epoch /\ Reserved'.watermark = db'.policy.watermark
        BY <2>3, <2>4 DEF Reserved
      <4>2. db'.policy.watermark \in Nat
        BY <2>6 DEF Policy
      <4> QED BY <4>1, <4>2 DEF NotNewer
    <3>3. op'.basis \cap revoked' = {}
      BY <2>1, <2>3, <2>9
    <3> QED BY <2>3, <3>1, <3>2, <3>3 DEF HandlerInTime
  <2>16. NoSaveSeen'
    <3>1. ~db.modes[op.session].no_save
      BY <1>1, <2>7, <2>8 DEF IInv, NoSaveSeen
    <3> QED BY <2>3, <2>5, <3>1 DEF NoSaveSeen
  <2> QED BY <2>10, <2>11, <2>12, <2>13, <2>14, <2>15, <2>16 DEF IInv
<1> QED BY <1>2, <1>3

\* What a handler captures is a request of the ledger.
LEMMA CapturedType ==
    ASSUME IInv, op.stage = "commit"
    PROVE  Captured \in Request /\ (Captured.targets # {} => Captured.target = NoEvent)
<1>1. /\ op \in Op /\ op.text \in Texts /\ op.n \in Sequences
      /\ op.text.action \in {"remember", "correct"}
  BY DEF IInv, TypeOK, HandlerShape, Handling, Carrying
<1>2. op.text.group \in Groups /\ op.text.value \in Values /\ op.targets \subseteq Events
  BY <1>1, TextsAssumption DEF Op
<1>3. op.n \in Events /\ op.n \in Nat
  BY <1>1, MessagesAreEvents, BoundsAssumption DEF Sequences
<1> QED BY <1>1, <1>2, <1>3, PreferenceIsKind DEF Captured, Request, Operations

\* A stored fact leaves policy and flags alone.
LEMMA CommitKeeps ==
    ASSUME IInv, Commit, UNCHANGED joining
    PROVE  IInv'
<1>1. /\ op.stage = "commit" /\ db \in Image
      /\ UNCHANGED <<bound, pending, challenge, tickets, expired, outsider, cancelled, spent, strayed, evictions>>
  BY DEF Commit, At, IInv, TypeOK
<1>2. CASE ~MayStore(Captured, op.epoch)
  BY <1>1, <1>2, UnsavedKeeps DEF Commit
<1>3. CASE MayStore(Captured, op.epoch)
  <2>1. /\ db' = Insert(db, NewFact(db, Captured))
        /\ op' = NoOp /\ used' = None /\ revoked' = revoked
    BY <1>3 DEF Commit, Done
  <2>2. MovesOn(db, db')
    BY <1>1, <1>3, <2>1, CapturedType, InsertMovesOn DEF MayStore
  <2>3. TypeOK'
    BY <1>1, <2>1, <2>2, NoOpType DEF IInv, TypeOK, MovesOn
  <2> QED BY <1>1, <2>1, <2>2, <2>3, DoneKeeps
<1> QED BY <1>2, <1>3

-----------------------------------------------------------------------------
(* Context *)

\* A handler that prepares a context acts on no approval.
LEMMA PreparesWell ==
    ASSUME IInv, TypeOK', UNCHANGED db, pending' = pending,
           op'.stage \in {"context", "context_modes", "recall", "context_recheck"},
           op'.session \in Sessions, joining' = op'.session, op'.basis = {},
           op'.stage # "context" => op'.policy \in Policy,
           MapsInTime', GoesWithBinding', ContextInTime'
    PROVE  IInv'
<1>1. HandlerShape'
  BY DEF IInv, HandlerShape, InContext, Handling, Deciding, Carrying, PolicyRead, Idle
<1>2. AnswersFirst' /\ HandlerInTime' /\ NoSaveSeen'
  BY DEF AnswersFirst, HandlerInTime, NoSaveSeen, Answered, Handling, Deciding, Carrying
<1> QED BY <1>1, <1>2 DEF IInv

\* A context begins with the ticket of a bound session, which it uses up.
LEMMA ContextBeginsKeeps ==
    ASSUME IInv, NEW s \in Sessions, NEW q \in Questions, ContextBegins(s, q)
    PROVE  IInv'
<1>1. /\ op = NoOp /\ op.stage = "idle" /\ joining = None /\ joining' = s
      /\ tickets' = [tickets EXCEPT ![s] = None]
      /\ used' \in {used, None}
      /\ UNCHANGED <<db, bound, pending, expired, challenge, outsider, revoked, cancelled, spent,
                     strayed, evictions>>
  BY DEF ContextBegins, IInv, HandlerShape, Idle, ghosts
<1>2. s # None /\ q # None
  BY NoneAssumption
<1>3. tickets' \in [Sessions -> Optional(Questions)]
  BY <1>1 DEF IInv, TypeOK, Optional
<1>4. CASE tickets[s] # q
  <2>1. op' = NoOp
    BY <1>4 DEF ContextBegins
  <2>2. TypeOK'
    BY <1>1, <1>3, <2>1, NoOpType DEF IInv, TypeOK, Optional
  <2>3. MapsInTime'
    BY <1>1, <2>2, LedgerStands, MapsKept
  <2>4. GoesWithBinding'
    BY <1>1, <2>1 DEF IInv, TypeOK, GoesWithBinding, NoOp
  <2> QED BY <1>1, <2>1, <2>2, <2>3, <2>4, LedgerStands, EndsWell
<1>5. CASE tickets[s] = q
  <2>1. op' = [stage |-> "context", session |-> s, text |-> None, direct |-> FALSE, n |-> 0,
               question |-> q, required |-> None, policy |-> None, no_save |-> FALSE,
               targets |-> {}, rows |-> {}, epoch |-> 0, basis |-> {}, from |-> None]
    BY <1>5 DEF ContextBegins, NoOp
  <2>2. /\ op' \in Op /\ op'.stage = "context" /\ op'.session = s /\ op'.basis = {}
    BY <2>1, BoundsAssumption DEF Op, Stages, Optional
  <2>3. TypeOK'
    BY <1>1, <1>3, <2>2 DEF IInv, TypeOK, Optional
  <2>4. MapsInTime'
    BY <1>1, <2>3, LedgerStands, MapsKept
  <2>5. GoesWithBinding'
    BY <1>1, <1>2, <1>5, <2>2 DEF IInv, TypeOK, GoesWithBinding
  <2>6. ContextInTime'
    BY <2>2 DEF ContextInTime, PolicyRead
  <2> QED BY <1>1, <2>2, <2>3, <2>4, <2>5, <2>6, PreparesWell
<1> QED BY <1>4, <1>5

\* The policy is read before the flags,
LEMMA ContextPolicyKeeps ==
    ASSUME IInv, ContextPolicy, UNCHANGED joining
    PROVE  IInv'
<1>1. /\ op.stage = "context" /\ op \in Op /\ op.session \in Sessions /\ joining = op.session
      /\ op.basis = {} /\ db.policy \in Policy
      /\ op' = [op EXCEPT !.stage = "context_modes", !.policy = db.policy]
      /\ UNCHANGED <<db, bound, pending, expired, challenge, tickets, used, outsider, revoked,
                     cancelled, spent, strayed, evictions>>
      /\ cancelled' \subseteq Approvals /\ spent' \subseteq Approvals
      /\ expired' \subseteq Approvals
  BY DEF ContextPolicy, At, IInv, TypeOK, HandlerShape, InContext, AnswersFirst, Image, maps,
     ghosts
<1>2. /\ op' \in Op /\ op'.stage = "context_modes" /\ op'.session = op.session
      /\ op'.basis = op.basis /\ op'.from = op.from /\ op'.policy = db.policy
  BY <1>1 DEF Op, Stages, Optional
<1>3. TypeOK' /\ MapsInTime' /\ GoesWithBinding'
  BY <1>1, <1>2, GoesOnKeeps
<1>4. ContextInTime'
  BY <1>1, <1>2, OlderFacts DEF ContextInTime
<1> QED BY <1>1, <1>2, <1>3, <1>4, PreparesWell

\* the flags before the facts,
LEMMA ContextModesKeeps ==
    ASSUME IInv, ContextModes, UNCHANGED joining
    PROVE  IInv'
<1>1. /\ op.stage = "context_modes" /\ op \in Op /\ op.session \in Sessions
      /\ joining = op.session /\ op.basis = {} /\ op.policy \in Policy
      /\ UNCHANGED <<db, bound, pending, expired, challenge, tickets, used, outsider, revoked,
                     cancelled, spent, strayed, evictions>>
      /\ cancelled' \subseteq Approvals /\ spent' \subseteq Approvals
      /\ expired' \subseteq Approvals
  BY DEF ContextModes, At, IInv, TypeOK, HandlerShape, InContext, PolicyRead, maps, ghosts
<1>2. CASE db.modes[op.session].no_recall \/ ~op.policy.enabled
  <2>1. op' = NoOp
    BY <1>2 DEF ContextModes, Done
  <2>2. TypeOK'
    BY <1>1, <2>1, NoOpType DEF IInv, TypeOK
  <2> QED BY <1>1, <2>1, <2>2, LedgerStands, DoneKeeps
<1>3. CASE ~(db.modes[op.session].no_recall \/ ~op.policy.enabled)
  <2>1. op' = [op EXCEPT !.stage = "recall"]
    BY <1>3 DEF ContextModes, Goto
  <2>2. /\ op' \in Op /\ op'.stage = "recall" /\ op'.session = op.session
        /\ op'.basis = op.basis /\ op'.from = op.from /\ op'.policy = op.policy
    BY <1>1, <2>1 DEF Op, Stages
  <2>3. TypeOK' /\ MapsInTime' /\ GoesWithBinding'
    BY <1>1, <2>2, GoesOnKeeps
  <2>4. ContextInTime'
    BY <1>1, <1>3, <2>2 DEF IInv, ContextInTime, PolicyRead
  <2> QED BY <1>1, <2>2, <2>3, <2>4, PreparesWell
<1> QED BY <1>2, <1>3

\* What is recalled exists.
LEMMA RecallExists ==
    ASSUME NEW img \in Image, NEW g \in Groups
    PROVE  Recall(img, g) \subseteq img.facts
<1> DEFINE active == Active(Group(img, g))
           says == {<<f.value, f.kind>> : f \in active}
<1>1. active \subseteq img.facts /\ active \subseteq Fact
  BY DEF Active, Group, Image
<1>2. CASE img.policy.enabled /\ Cardinality(says) = 1
  <2>1. active # {}
    <3>1. active = {} => says = {}
      OBVIOUS
    <3> HIDE DEF active, says
    <3>2. Cardinality({}) = 0
      BY FS_EmptySet
    <3> QED BY <1>2, <3>1, <3>2
  <2>2. Earliest(active) \in active
    <3> HIDE DEF active
    <3> QED BY <1>1, <2>1, EarliestIsMember
  <2>3. Recall(img, g) = {Earliest(active)}
    BY <1>2 DEF Recall
  <2> HIDE DEF active
  <2> QED BY <1>1, <2>2, <2>3
<1>3. CASE ~(img.policy.enabled /\ Cardinality(says) = 1)
  <2>1. Recall(img, g) = {}
    BY <1>3 DEF Recall
  <2> QED BY <2>1
<1> QED BY <1>2, <1>3

\* and the facts before the policy is read again.
LEMMA ContextRecallKeeps ==
    ASSUME IInv, ContextRecall, UNCHANGED joining
    PROVE  IInv'
<1>1. /\ op.stage = "recall" /\ op \in Op /\ op.session \in Sessions
      /\ joining = op.session /\ op.basis = {} /\ op.policy \in Policy /\ db \in Image
      /\ UNCHANGED <<db, bound, pending, expired, challenge, tickets, used, outsider, revoked,
                     cancelled, spent, strayed, evictions>>
      /\ cancelled' \subseteq Approvals /\ spent' \subseteq Approvals
      /\ expired' \subseteq Approvals
  BY DEF ContextRecall, At, IInv, TypeOK, HandlerShape, InContext, PolicyRead, maps, ghosts
<1>2. PICK g \in Groups :
          op' = [op EXCEPT !.stage = "context_recheck", !.rows = Recall(db, g)]
  BY DEF ContextRecall
<1>3. Recall(db, g) \subseteq db.facts /\ db.facts \subseteq Fact
  BY <1>1, RecallExists DEF Image
<1>4. /\ op' \in Op /\ op'.stage = "context_recheck" /\ op'.session = op.session
      /\ op'.basis = op.basis /\ op'.from = op.from /\ op'.policy = op.policy
      /\ op'.rows \subseteq db.facts
  BY <1>1, <1>2, <1>3 DEF Op, Stages
<1>5. TypeOK' /\ MapsInTime' /\ GoesWithBinding'
  BY <1>1, <1>4, GoesOnKeeps
<1>6. ContextInTime'
  BY <1>1, <1>4 DEF IInv, ContextInTime, PolicyRead
<1> QED BY <1>1, <1>4, <1>5, <1>6, PreparesWell

\* The policy is read again before what was recalled is used.
LEMMA ContextPreparedKeeps ==
    ASSUME IInv, ContextPrepared, UNCHANGED joining
    PROVE  IInv'
<1>1. /\ op.stage = "context_recheck" /\ op \in Op /\ op.session \in Sessions
      /\ joining = op.session /\ op.policy \in Policy
      /\ op' = NoOp
      /\ UNCHANGED <<db, bound, pending, challenge, tickets, expired, outsider, revoked,
                     cancelled, spent, strayed, evictions>>
  BY DEF ContextPrepared, At, Done, IInv, TypeOK, HandlerShape, InContext, PolicyRead, ghosts
<1>2. CASE ~Prepared
  <2>1. used' = used
    BY <1>2 DEF ContextPrepared
  <2>2. TypeOK'
    BY <1>1, <2>1, NoOpType DEF IInv, TypeOK
  <2> QED BY <1>1, <2>1, <2>2, LedgerStands, DoneKeeps
<1>3. CASE Prepared
  <2>1. used' = [policy |-> op.policy, rows |-> op.rows, added |-> FALSE]
    BY <1>3 DEF ContextPrepared
  <2>2. /\ used' \in [policy : Policy, rows : SUBSET Fact, added : BOOLEAN]
        /\ used'.policy = op.policy /\ used'.rows = op.rows
    BY <1>1, <2>1 DEF Op
  <2>3. TypeOK'
    BY <1>1, <2>2, NoOpType DEF IInv, TypeOK
  <2>4. MapsInTime'
    BY <1>1, <2>2 DEF IInv, MapsInTime, ContextInTime, PolicyRead
  <2>5. GoesWithBinding'
    <3>1. op'.stage = "idle" /\ op'.basis = {}
      BY <1>1 DEF NoOp
    <3>2. joining # None
      BY <1>1, NoneAssumption
    <3> QED BY <1>1, <3>1, <3>2 DEF IInv, GoesWithBinding
  <2> QED BY <1>1, <2>3, <2>4, <2>5, LedgerStands, EndsWell
<1> QED BY <1>2, <1>3

\* What joins a turn is what was prepared.
LEMMA ContextAddedKeeps ==
    ASSUME IInv, ContextAdded
    PROVE  IInv'
<1>1. /\ joining' = None /\ ~InContext
      /\ UNCHANGED <<db, bound, pending, challenge, tickets, expired, op, outsider, revoked,
                     cancelled, spent, strayed, evictions>>
  BY DEF ContextAdded, ghosts
<1>2. used' # None =>
          /\ used # None /\ used' \in [policy : Policy, rows : SUBSET Fact, added : BOOLEAN]
          /\ used'.policy = used.policy /\ used'.rows = used.rows /\ used'.added
  <2>1. CASE used = None
    BY <2>1 DEF ContextAdded
  <2>2. CASE used # None
    <3>1. used' = [used EXCEPT !.added = TRUE]
      BY <2>2 DEF ContextAdded
    <3> QED BY <2>2, <3>1 DEF IInv, TypeOK
  <2> QED BY <2>1, <2>2
<1>3. TypeOK'
  BY <1>1, <1>2 DEF IInv, TypeOK, Optional
<1>4. MapsInTime'
  BY <1>1, <1>2 DEF IInv, MapsInTime
<1>5. GoesWithBinding'
  BY <1>1, <1>2 DEF IInv, GoesWithBinding
<1> QED BY <1>1, <1>3, <1>4, <1>5, LedgerStands, StandsStill

\* What does not join a turn goes with the binding it was prepared under.
LEMMA ContextNotAddedKeeps ==
    ASSUME IInv, ContextNotAdded
    PROVE  IInv'
<1>1. /\ op = NoOp /\ op' = NoOp /\ joining # None /\ joining' = None
      /\ used' = IF joining \in bound THEN None ELSE used
      /\ UNCHANGED <<db, bound, pending, challenge, tickets, expired, outsider, revoked,
                     cancelled, spent, strayed, evictions>>
  BY DEF ContextNotAdded, IInv, HandlerShape, ghosts
<1>2. TypeOK'
  BY <1>1, NoOpType DEF IInv, TypeOK, Optional
<1>3. MapsInTime'
  BY <1>1, <1>2, LedgerStands, MapsKept
<1>4. GoesWithBinding'
  <2>1. op'.stage = "idle" /\ op'.basis = {}
    BY <1>1 DEF NoOp
  <2> QED BY <1>1, <2>1 DEF IInv, GoesWithBinding
<1> QED BY <1>1, <1>2, <1>3, <1>4, LedgerStands, EndsWell

-----------------------------------------------------------------------------
(* The host's side *)

\* With its binding, all that belongs to a session goes.
LEMMA FinalizeKeeps ==
    ASSUME IInv, NEW s \in Sessions, Finalize(s), UNCHANGED joining
    PROVE  IInv'
<1>1. /\ op = NoOp /\ op' = NoOp /\ bound' = bound \ {s}
      /\ tickets' = [tickets EXCEPT ![s] = None]
      /\ UNCHANGED <<db, outsider, revoked, cancelled, spent, strayed,
                     evictions>>
  BY DEF Finalize, IInv, HandlerShape, ghosts
<1>2. /\ pending' \in {pending, None} /\ expired' \subseteq Approvals /\ used' \in {used, None}
      /\ challenge' \in {challenge, None}
      /\ s \in bound => pending' = None /\ used' = None
  BY DEF Finalize, DropPending, KeepPending, IInv, TypeOK
<1>3. TypeOK'
  BY <1>1, <1>2, NoOpType DEF IInv, TypeOK, Optional
<1>4. MapsInTime'
  BY <1>1, <1>2, <1>3, LedgerStands, MapsKept
<1>5. GoesWithBinding'
  <2>1. op'.stage = "idle" /\ op'.basis = {}
    BY <1>1 DEF NoOp
  <2> QED BY <1>1, <1>2, <2>1 DEF IInv, TypeOK, GoesWithBinding
<1> QED BY <1>1, <1>2, <1>3, <1>4, <1>5, LedgerStands, EndsWell

\* A restart forgets everything the controller held.
LEMMA RestartKeeps ==
    ASSUME IInv, Restart
    PROVE  IInv'
<1>1. /\ op' = NoOp /\ bound' = {} /\ pending' = None /\ challenge' = None /\ used' = None
      /\ joining' = None /\ tickets' = [s \in Sessions |-> None]
      /\ expired' \subseteq Approvals
      /\ UNCHANGED <<db, outsider, revoked, cancelled, spent, strayed,
                     evictions>>
  BY DEF Restart, Done, DropPending, ghosts, IInv, TypeOK
<1>2. TypeOK'
  BY <1>1, NoOpType DEF IInv, TypeOK, Optional
<1>3. MapsInTime'
  BY <1>1, <1>2, LedgerStands, MapsKept
<1>4. GoesWithBinding'
  <2>1. op'.stage = "idle" /\ op'.basis = {}
    BY <1>1 DEF NoOp
  <2> QED BY <1>1, <2>1 DEF GoesWithBinding
<1> QED BY <1>1, <1>2, <1>3, <1>4, LedgerStands, EndsWell

\* A ledger that raises ends the handler.
LEMMA FailsKeeps ==
    ASSUME IInv, Fails, UNCHANGED joining
    PROVE  IInv'
<1>1. /\ op' = NoOp /\ pending' \in {pending, None} /\ expired' \subseteq Approvals
      /\ challenge' \in {challenge, None}
      /\ UNCHANGED <<db, bound, tickets, used, outsider, revoked, cancelled, spent, strayed,
                     evictions>>
  BY DEF Fails, Done, KeepPending, DropPending, IInv, TypeOK, ghosts
<1>2. TypeOK'
  BY <1>1, NoOpType DEF IInv, TypeOK, Optional
<1> QED BY <1>1, <1>2, LedgerStands, DoneKeeps

\* Deadlines only take away.
LEMMA ExpireKeeps ==
    ASSUME IInv, Expire, UNCHANGED joining
    PROVE  IInv'
<1>1. /\ challenge' = challenge /\ expired' \subseteq Approvals
      /\ tickets' \in [Sessions -> Optional(Questions)]
      /\ \A s \in Sessions : tickets'[s] # None => tickets[s] # None
      /\ UNCHANGED <<db, bound, pending, used, op, outsider, revoked, cancelled, spent, strayed,
                     evictions>>
  BY DEF Expire, IInv, TypeOK, Optional, Approvals, ghosts
<1>2. TypeOK'
  BY <1>1 DEF IInv, TypeOK, Optional
<1>3. MapsInTime'
  BY <1>1, <1>2, LedgerStands, MapsKept
<1>4. GoesWithBinding'
  BY <1>1 DEF IInv, GoesWithBinding
<1> QED BY <1>1, <1>2, <1>3, <1>4, LedgerStands, StandsStill

\* So do the entries of other chats, and then bindings vouch for nothing.
LEMMA EvictKeeps ==
    ASSUME IInv, Evict, UNCHANGED joining
    PROVE  IInv'
<1>1. /\ op = NoOp /\ op' = NoOp /\ evictions' = evictions + 1 /\ evictions < MaxEvictions
      /\ UNCHANGED <<db, tickets, outsider, revoked, cancelled, spent>>
  BY DEF Evict, IInv, HandlerShape, ghosts
<1>2. /\ challenge' \in {challenge, None} /\ pending' \in {pending, None}
      /\ used' \in {used, None} /\ expired' \subseteq Approvals
      /\ \/ bound' = bound /\ strayed' = strayed
         \/ bound' = {} /\ strayed' = TRUE
  BY DEF Evict, KeepPending, DropPending, IInv, TypeOK
<1>3. evictions' \in 0 .. MaxEvictions /\ evictions' # 0
  BY <1>1, NativeBounds DEF IInv, TypeOK
<1>4. TypeOK'
  BY <1>1, <1>2, <1>3, NoOpType DEF IInv, TypeOK, Optional
<1>5. MapsInTime'
  BY <1>1, <1>2, <1>4, LedgerStands, MapsKept
<1>6. GoesWithBinding'
  <2>1. op'.stage = "idle" /\ op'.basis = {}
    BY <1>1 DEF NoOp
  <2> QED BY <1>2, <1>3, <2>1 DEF IInv, GoesWithBinding
<1> QED BY <1>1, <1>2, <1>4, <1>5, <1>6, LedgerStands, EndsWell

-----------------------------------------------------------------------------
(* Theorems *)

\* The controller starts with nothing approved.
LEMMA InitIsFine == Init => IInv
<1> SUFFICES ASSUME Init PROVE IInv
  OBVIOUS
<1>1. TypeOK
  <2>1. tickets \in [Sessions -> Optional(Questions)]
    BY DEF Init, Optional
  <2>2. evictions \in 0 .. MaxEvictions
    BY NativeBounds DEF Init
  <2> QED BY <2>1, <2>2, EmptyImageType, NoOpType DEF Init, TypeOK, Optional
<1>2. op.stage = "idle" /\ op.basis = {} /\ op = NoOp
  BY DEF Init, NoOp
<1>3. /\ HandlerShape /\ AnswersFirst /\ HandlerInTime /\ NoSaveSeen /\ ContextInTime
  BY <1>2 DEF Init, HandlerShape, AnswersFirst, HandlerInTime, NoSaveSeen, ContextInTime, InContext,
     Handling, Deciding, Carrying, PolicyRead, Answered
<1>4. MapsInTime /\ GoesWithBinding
  BY <1>2 DEF Init, MapsInTime, GoesWithBinding
<1> QED BY <1>1, <1>3, <1>4 DEF IInv

\* Every step of the controller and of the outsider keeps the invariant.
LEMMA HandlesKeep ==
    ASSUME IInv, Handles, UNCHANGED joining
    PROVE  IInv'
<1>1. CASE \E s \in Sessions, text \in Texts :
              \/ \E n \in AskedAt : CommandAsks(s, text, n)
              \/ \E n \in Sequences : CommandTightens(s, text, n)
  BY <1>1, CommandAsksKeeps, CommandTightensKeeps
<1>2. CASE \E s \in Sessions, n \in Sequences, right \in BOOLEAN : CommandConfirms(s, n, right)
  BY <1>2, CommandConfirmsKeeps
<1>3. CASE \E text \in Texts, n \in AskedAt : ChatRequests(text, n)
  BY <1>3, ChatRequestsKeeps
<1>4. CASE \E q \in Questions : ChatAsks(q)
  BY <1>4, ChatAsksKeeps
<1>5. CASE \E q \in Questions, n \in Sequences : ChatAsksUnsaved(q, n)
  BY <1>5, ChatAsksUnsavedKeeps
<1>6. CASE Ask \/ Verify \/ Require \/ ReadModes \/ ApplyControl \/ RefuseControl
  BY <1>6, AskKeeps, VerifyKeeps, ReadModesKeeps, ApplyControlKeeps, RefuseControlKeeps
<1>7. CASE ReadPolicy \/ ReadTargets \/ RecheckTargets
  BY <1>7, ReadPolicyKeeps, ReadTargetsKeeps, RecheckTargetsKeeps
<1>8. CASE Erase \/ Open \/ Reserve \/ Commit
  BY <1>8, EraseKeeps, OpenKeeps, ReserveKeeps, CommitKeeps
<1>9. CASE ContextPolicy \/ ContextModes \/ ContextRecall \/ ContextPrepared
  BY <1>9, ContextPolicyKeeps, ContextModesKeeps, ContextRecallKeeps, ContextPreparedKeeps
<1>10. CASE (\E s \in Sessions : Finalize(s)) \/ Fails \/ Expire \/ Evict
  BY <1>10, FinalizeKeeps, FailsKeeps, ExpireKeeps, EvictKeeps
<1>11. CASE \E enabled \in BOOLEAN : OutsideConsent(enabled)
  BY <1>11, OutsideConsentKeeps
<1>12. CASE \E s \in Sessions, action \in OutsideModes, n \in Sequences :
              OutsideControl(s, action, n)
  BY <1>12, OutsideControlKeeps
<1>13. CASE (\E id \in Events : OutsideForget(id)) \/ (\E r \in Outside : OutsideReserve(r))
            \/ OutsideCommit
  BY <1>13, OutsideForgetKeeps, OutsideReserveKeeps, OutsideCommitKeeps
<1> QED BY <1>1, <1>2, <1>3, <1>4, <1>5, <1>6, <1>7, <1>8, <1>9, <1>10, <1>11, <1>12, <1>13
       DEF Handles

\* So does every step of the system.
LEMMA NextKeeps == IInv /\ [Next]_vars => IInv'
<1> SUFFICES ASSUME IInv, [Next]_vars PROVE IInv'
  OBVIOUS
<1>1. CASE Handles /\ UNCHANGED joining
  BY <1>1, HandlesKeep
<1>2. CASE \E s \in Sessions, q \in Questions : ContextBegins(s, q)
  BY <1>2, ContextBeginsKeeps
<1>3. CASE ContextAdded \/ ContextNotAdded \/ Restart
  BY <1>3, ContextAddedKeeps, ContextNotAddedKeeps, RestartKeeps
<1>4. CASE UNCHANGED vars
  <2>1. UNCHANGED <<db, bound, pending, challenge, tickets, used, expired, op, joining, outsider,
                    revoked, cancelled, spent, strayed, evictions>>
    BY <1>4 DEF vars, maps, ghosts
  <2>2. TypeOK'
    BY <2>1 DEF IInv, TypeOK
  <2> QED BY <2>1, <2>2, LedgerStands, OthersMove DEF maps
<1> QED BY <1>1, <1>2, <1>3, <1>4 DEF Next

\* The inductive invariant holds in every state: whatever the outsider does
\* between two looks at the ledger.
THEOREM Invariance == Spec => []IInv
BY InitIsFine, NextKeeps, PTL DEF Spec

\* "Why did you use that" never shows a fact that has been forgotten since: what
\* the last context used exists as long as the policy it was read under stands.
THEOREM WhyStaysCurrent == Spec => []WhyIsCurrent
<1>1. IInv => WhyIsCurrent
  <2> SUFFICES ASSUME IInv PROVE WhyIsCurrent
    OBVIOUS
  <2>1. ASSUME used # None, used.policy = db.policy
        PROVE  used.rows \subseteq db.facts
    <3>1. ~Older(used.policy, db.policy)
      BY <2>1, OlderFacts DEF IInv, TypeOK, Image
    <3> QED BY <2>1, <3>1 DEF IInv, MapsInTime
  <2> QED BY <2>1 DEF IInv, GoesWithBinding, WhyIsCurrent
<1> QED BY <1>1, Invariance, PTL

-----------------------------------------------------------------------------
(* What a step may do *)

\* Only four steps of a handler change the ledger.
LEMMA WhoChangesTheLedger ==
    ASSUME Next, op' # op, db' # db
    PROVE  ApplyControl \/ Erase \/ Reserve \/ Commit
<1>1. CASE Handles
  BY <1>1 DEF Handles, CommandAsks, CommandTightens, CommandConfirms, ChatRequests, ChatAsks,
     ChatAsksUnsaved, Ask, Verify, Require, ReadModes, RefuseControl, ReadPolicy, ReadTargets,
     RecheckTargets, Open, Unsaved, ContextPolicy, ContextModes, ContextRecall, ContextPrepared,
     Finalize, Fails, Expire, Evict, OutsideConsent, OutsideControl, OutsideForget,
     OutsideReserve, OutsideCommit, Revoke
<1>2. CASE ~Handles
  BY <1>2 DEF Next, ContextBegins, ContextAdded, ContextNotAdded, Restart
<1> QED BY <1>1, <1>2

\* Control sets the flags of its session only.
LEMMA ControlModes ==
    ASSUME NEW img \in Image, NEW action \in Actions, NEW s \in Sessions, NEW stamp \in Stamp,
           NEW new, new = Control(img, action, s, stamp)
    PROVE  \A t \in Sessions :
              new.modes[t] = IF t = s THEN ModeAfter(img.modes[s], action) ELSE img.modes[t]
<1>1. /\ Consume(img, stamp) \in Image /\ Consume(img, stamp).modes = img.modes
  BY ConsumeFacts
<1>2. PICK mid \in Image : mid = Consume(img, stamp) /\ mid.modes = img.modes
  BY <1>1
<1>3. new.modes = [mid.modes EXCEPT ![s] = ModeAfter(mid.modes[s], action)]
  BY <1>2 DEF Control, Image
<1>4. mid.modes \in [Sessions -> Modes]
  BY <1>2 DEF Image
<1> QED BY <1>2, <1>3, <1>4

\* A control expands only when it gives consent or resumes.
LEMMA ControlExpands ==
    ASSUME IInv, ApplyControl, Expands
    PROVE  op.text.action \in {"consent", "resume"}
<1>1. /\ op.stage = "control" /\ op.session \in Sessions /\ op.text.action \in Actions
      /\ db \in Image /\ StampNow \in Stamp
      /\ db' = Control(db, op.text.action, op.session, StampNow)
  BY StampNowType DEF ApplyControl, At, IInv, HandlerShape, TypeOK, Handling, Deciding
<1>2. /\ db'.facts = db.facts
      /\ db'.policy = Revised(db.policy, EnabledAfter(db.policy.enabled, op.text.action),
                              StampNow.sequence)
  BY <1>1, ControlFacts
<1>3. db'.policy.enabled = EnabledAfter(db.policy.enabled, op.text.action)
  BY <1>2, RevisedFields
<1>4. SUFFICES ASSUME op.text.action \notin {"consent", "resume"}
               PROVE  FALSE
  OBVIOUS
<1>5. ~(db'.policy.enabled /\ ~db.policy.enabled)
  BY <1>3, <1>4 DEF EnabledAfter
<1>6. ASSUME NEW s \in Sessions
      PROVE  /\ db.modes[s].no_save => db'.modes[s].no_save
             /\ db.modes[s].no_recall => db'.modes[s].no_recall
  <2>1. db'.modes[s] = IF s = op.session THEN ModeAfter(db.modes[s], op.text.action)
                       ELSE db.modes[s]
    BY <1>1, ControlModes
  <2>2. db.modes[s] \in Modes
    BY <1>1 DEF Image
  <2> QED BY <1>4, <2>1, <2>2 DEF ModeAfter, Modes
<1> QED BY <1>2, <1>5, <1>6 DEF Expands

\* A reservation expands nothing and stores nothing.
LEMMA ReserveExpandsNothing ==
    ASSUME IInv, Reserve
    PROVE  ~Expands /\ db'.facts = db.facts
<1>1. db \in Image /\ StampNow \in Stamp
  BY StampNowType DEF Reserve, At, IInv, TypeOK, Handling, Carrying
<1>2. CASE db' = db
  BY <1>2 DEF Expands
<1>3. CASE db' = Consume(db, StampNow)
  <2>1. /\ db'.facts = db.facts /\ db'.modes = db.modes
        /\ db'.policy = [enabled |-> db.policy.enabled, epoch |-> db.policy.epoch,
                         watermark |-> StampNow.sequence]
    BY <1>1, <1>3, ConsumeFacts
  <2>2. db'.policy.enabled = db.policy.enabled
    BY <2>1
  <2> QED BY <2>1, <2>2 DEF Expands
<1> QED BY <1>2, <1>3 DEF Reserve, Unsaved

\* An erasure stores nothing.
LEMMA EraseStoresNothing ==
    ASSUME IInv, Erase
    PROVE  db'.facts \subseteq db.facts
<1>1. op \in Op /\ db \in Image /\ StampNow \in Stamp
  BY StampNowType DEF Erase, At, IInv, TypeOK, Handling, Carrying
<1>2. CASE db' = db
  BY <1>2
<1>3. ASSUME NEW id \in op.targets, db' = Forget(Consume(db, StampNow), id)
      PROVE  db'.facts \subseteq db.facts
  <2>1. id \in Events
    BY <1>1 DEF Op
  <2>2. Consume(db, StampNow) \in Image /\ Consume(db, StampNow).facts = db.facts
    BY <1>1, ConsumeFacts
  <2> QED BY <1>3, <2>1, <2>2, ForgetFacts
<1> QED BY <1>2, <1>3 DEF Erase

\* A handler that stores does so under the policy its event was reserved with.
LEMMA CommitIsReserved ==
    ASSUME IInv, Commit, db' # db
    PROVE  op.stage = "commit" /\ ~Older(Reserved, db.policy)
<1>1. op.stage = "commit" /\ MayStore(Captured, op.epoch)
  BY DEF Commit, At, Unsaved
<1>2. db.policy.epoch = op.epoch /\ db.policy.watermark = op.n
  BY <1>1 DEF MayStore, Captured
<1>3. db.policy.epoch \in Nat /\ db.policy.watermark \in Nat
  BY DEF IInv, TypeOK, Image, Policy
<1> QED BY <1>1, <1>2, <1>3 DEF Older, Reserved

\* Whoever expands has answered a challenge, and nothing was revoked since.
LEMMA ExpandsOnAnswer ==
    ASSUME IInv, Next, Expands
    PROVE  /\ op.stage # "idle" /\ op.direct /\ Answered
           /\ op.basis \cap revoked = {}
<1>1. op' # op /\ db' # db
  BY DEF Expands
<1>2. db.policy \in Policy
  BY DEF IInv, TypeOK, Image
<1>3. CASE ApplyControl
  <2>1. op.stage = "control" /\ op.text.action \in {"consent", "resume"} /\ ControlApplies
    BY <1>3, ControlExpands DEF ApplyControl, At
  <2>2. op.direct
    BY <2>1 DEF IInv, HandlerShape, DirectOnly
  <2>3. Answered /\ op.required \in Policy
    BY <2>1, <2>2 DEF IInv, AnswersFirst, Handling, Deciding, Guarded
  <2>4. op.required = db.policy
    BY <2>1, <2>3, NoneAssumption DEF ControlApplies
  <2>5. ~Older(op.required, db.policy)
    BY <1>2, <2>4, OlderFacts
  <2> QED BY <2>1, <2>2, <2>3, <2>5 DEF IInv, HandlerInTime, Handling, Deciding
<1>4. CASE Erase
  <2>1. op.stage = "erase" /\ Expected
    BY <1>1, <1>4 DEF Erase, At
  <2>2. Answered /\ op.direct /\ op.required \in Policy
    BY <2>1 DEF IInv, AnswersFirst, Handling, Carrying
  <2>3. ~Older(op.required, db.policy)
    BY <1>2, <2>1, OlderFacts DEF Expected
  <2> QED BY <2>1, <2>2, <2>3 DEF IInv, HandlerInTime, Handling, Carrying
<1>5. CASE Reserve
  BY <1>5, ReserveExpandsNothing
<1>6. CASE Commit
  <2>1. op.stage = "commit" /\ ~Older(Reserved, db.policy)
    BY <1>1, <1>6, CommitIsReserved
  <2>2. Answered /\ op.direct
    BY <2>1 DEF IInv, AnswersFirst, Handling, Carrying
  <2> QED BY <2>1, <2>2 DEF IInv, HandlerInTime
<1> QED BY <1>1, <1>3, <1>4, <1>5, <1>6, WhoChangesTheLedger

\* Consent, resuming, saving and erasing only ever follow the answer to a
\* challenge, whatever is said in chat.
THEOREM AnswersOnly == Spec => OnlyAnswersExpand
<1>1. IInv /\ [Next]_vars => [Expands => op.direct /\ "challenge" \in op.basis]_vars
  BY ExpandsOnAnswer DEF Answered
<1> QED BY <1>1, Invariance, PTL DEF Spec, OnlyAnswersExpand

\* Nothing is saved or erased, and no consent given, on an approval that the
\* policy has moved on from, whoever moved it: by consent, a control, an erasure
\* or the reservation of another event.
THEOREM ApprovalsInDate == Spec => NoOutdatedApproval
<1>1. IInv /\ [Next]_vars => [Expands => op.basis \cap revoked = {}]_vars
  BY ExpandsOnAnswer
<1> QED BY <1>1, Invariance, PTL DEF Spec, NoOutdatedApproval

\* While a session is no-save, nothing is stored for it, however late the flag.
THEOREM NoSaveRespected == Spec => NoSaveHonoured
<1>1. ASSUME IInv, Next, Stores
      PROVE  ~db.modes[op.session].no_save
  <2>1. op' # op /\ db' # db /\ ~(db'.facts \subseteq db.facts)
    BY <1>1 DEF Stores
  <2>2. CASE ApplyControl
    <3>1. /\ op.session \in Sessions /\ op.text.action \in Actions
          /\ db \in Image /\ StampNow \in Stamp
          /\ db' = Control(db, op.text.action, op.session, StampNow)
      BY <1>1, <2>2, StampNowType
         DEF ApplyControl, At, IInv, HandlerShape, TypeOK, Handling, Deciding
    <3>2. db'.facts = db.facts
      BY <3>1, ControlFacts
    <3> QED BY <2>1, <3>2
  <2>3. CASE Erase \/ Reserve
    BY <1>1, <2>1, <2>3, EraseStoresNothing, ReserveExpandsNothing
  <2>4. CASE Commit
    BY <1>1, <2>1, <2>4, CommitIsReserved DEF IInv, NoSaveSeen
  <2> QED BY <1>1, <2>1, <2>2, <2>3, <2>4, WhoChangesTheLedger
<1>2. IInv /\ [Next]_vars => [Stores => ~db.modes[op.session].no_save]_vars
  BY <1>1
<1> QED BY <1>2, Invariance, PTL DEF Spec, NoSaveHonoured

\* A proposal is carried out only from the session it was made in, unless that
\* session's binding was pushed out after it was made, however many other
\* entries were.
THEOREM ProposalsStay == Spec => ApprovalsStayInSession
<1>1. IInv /\ [Next]_vars =>
          [Expands /\ "pending" \in op.basis /\ ~strayed => op.from = op.session]_vars
  BY DEF IInv, GoesWithBinding
<1> QED BY <1>1, Invariance, PTL DEF Spec, ApprovalsStayInSession

\* A step takes up an approval that is there and in time, and drops it from its
\* map; new ones are only made by Ask and by a proposal, in the place of old ones.
TakesNothing ==
    Taken = {} /\ spent' = spent /\ challenge' \in {challenge, None} /\ pending' \in {pending, None}
TakesChallenge ==
    /\ Taken \subseteq {"challenge"} /\ spent' = spent \cup Taken
    /\ challenge' = None /\ pending' \in {pending, None}
    /\ Taken # {} => challenge # None /\ "challenge" \notin expired
TakesProposal ==
    /\ Taken \subseteq {"pending"} /\ spent' = spent \cup Taken
    /\ challenge' = challenge /\ pending' \in {pending, None}
    /\ Taken # {} => pending # None /\ pending' = None /\ "pending" \notin expired
LEMMA WhoTakes ==
    ASSUME IInv, Next
    PROVE  TakesNothing \/ TakesChallenge \/ TakesProposal \/ Ask \/ RecheckTargets
<1>1. \A s \in Sessions : Bind(s) => pending' \in {pending, None}
  BY DEF Bind, DropPending, KeepPending
<1>2. op'.basis \subseteq op.basis => Taken = {}
  BY DEF Taken
<1>3. NoOp.basis = {}
  BY DEF NoOp
<1>4. op \in Op
  BY DEF IInv, TypeOK
<1>5. CASE \E s \in Sessions, text \in Texts :
              \/ \E n \in AskedAt : CommandAsks(s, text, n)
              \/ \E n \in Sequences : CommandTightens(s, text, n)
  BY <1>1, <1>2, <1>5 DEF CommandAsks, CommandTightens, Handle, NoOp, ChallengeAfterBind,
     TakesNothing, ghosts
<1>6. CASE \E s \in Sessions, n \in Sequences, right \in BOOLEAN : CommandConfirms(s, n, right)
  <2>1. PICK s \in Sessions, n \in Sequences, right \in BOOLEAN : CommandConfirms(s, n, right)
    BY <1>6
  <2>2. CASE Acceptable(s, n, right)
    <3>1. op'.basis = {"challenge"}
      BY <2>1, <2>2 DEF CommandConfirms, Handle, NoOp
    <3> QED BY <1>1, <2>1, <2>2, <3>1 DEF CommandConfirms, Acceptable, Taken, TakesChallenge
  <2>3. CASE ~Acceptable(s, n, right)
    BY <1>1, <1>2, <1>3, <2>1, <2>3 DEF CommandConfirms, TakesChallenge
  <2> QED BY <2>2, <2>3
<1>7. CASE (\E text \in Texts, n \in AskedAt : ChatRequests(text, n))
           \/ (\E q \in Questions, n \in Sequences : ChatAsksUnsaved(q, n))
  BY <1>2, <1>7 DEF ChatRequests, ChatAsksUnsaved, Handle, NoOp, TakesNothing, maps, ghosts
<1>8. CASE \E q \in Questions : ChatAsks(q)
  BY <1>2, <1>8 DEF ChatAsks, TakesNothing, ghosts
<1>9. CASE Verify \/ Require \/ RefuseControl \/ ReadTargets
  <2>1. op'.basis \subseteq op.basis
    BY <1>3, <1>4, <1>9 DEF Verify, Require, RefuseControl, ReadTargets, Done, Goto, Op
  <2> QED BY <1>2, <1>9, <2>1 DEF Verify, Require, RefuseControl, ReadTargets, TakesNothing,
          maps, ghosts
<1>10. CASE ReadModes \/ ApplyControl
  <2>1. op'.basis \subseteq op.basis
    BY <1>3, <1>4, <1>10 DEF ReadModes, ApplyControl, Done, Op
  <2> QED BY <1>2, <1>10, <2>1 DEF ReadModes, ApplyControl, DropPending, KeepPending,
          TakesNothing
<1>11. CASE ReadPolicy
  <2>1. spent' = spent \cup Taken /\ challenge' = challenge
    BY <1>11 DEF ReadPolicy
  <2>2. CASE op'.basis \subseteq op.basis /\ pending' \in {pending, None}
    BY <1>2, <2>1, <2>2 DEF TakesProposal
  <2>3. CASE op'.basis = op.basis \cup {"pending"} /\ ProposalStands /\ DropPending
    BY <2>1, <2>3 DEF Taken, TakesProposal, ProposalStands, DropPending
  <2> QED BY <1>3, <1>4, <1>11, <2>2, <2>3, ReadPolicyEffect DEF KeepPending, Op
<1>12. CASE Erase \/ Open \/ Reserve \/ Commit
  <2>1. op'.basis \subseteq op.basis
    BY <1>3, <1>4, <1>12 DEF Erase, Open, Reserve, Commit, Unsaved, Done, Goto, Op
  <2> QED BY <1>2, <1>12, <2>1 DEF Erase, Open, Reserve, Commit, DropPending, TakesNothing
<1>13. CASE ContextPolicy \/ ContextModes \/ ContextRecall \/ ContextPrepared
  <2>1. op'.basis \subseteq op.basis
    BY <1>3, <1>4, <1>13 DEF ContextPolicy, ContextModes, ContextRecall, ContextPrepared, Done,
       Goto, Op
  <2> QED BY <1>2, <1>13, <2>1 DEF ContextPolicy, ContextModes, ContextRecall, ContextPrepared,
          TakesNothing, maps, ghosts
<1>14. CASE (\E s \in Sessions : Finalize(s)) \/ Fails \/ Restart
  <2>1. op'.basis \subseteq op.basis
    BY <1>3, <1>14 DEF Finalize, Fails, Restart, Done
  <2> QED BY <1>2, <1>14, <2>1 DEF Finalize, Fails, Restart, DropPending, KeepPending,
          TakesNothing, ghosts
<1>15. CASE Expire \/ Evict
  BY <1>2, <1>15 DEF Expire, Evict, DropPending, KeepPending, TakesNothing, ghosts
<1>16. CASE \/ \E enabled \in BOOLEAN : OutsideConsent(enabled)
            \/ \E s \in Sessions, action \in OutsideModes, n \in Sequences :
                  OutsideControl(s, action, n)
            \/ \E id \in Events : OutsideForget(id)
            \/ \E r \in Outside : OutsideReserve(r)
            \/ OutsideCommit
  BY <1>2, <1>16 DEF OutsideConsent, OutsideControl, OutsideForget, OutsideReserve, OutsideCommit,
     Revoke, TakesNothing, maps, ghosts
<1>17. CASE (\E s \in Sessions, q \in Questions : ContextBegins(s, q))
            \/ ContextAdded \/ ContextNotAdded
  <2>1. op'.basis \subseteq op.basis
    BY <1>3, <1>17 DEF ContextBegins, ContextAdded, ContextNotAdded, NoOp
  <2> QED BY <1>2, <1>17, <2>1 DEF ContextBegins, ContextAdded, ContextNotAdded, TakesNothing,
          ghosts
<1> QED BY <1>5, <1>6, <1>7, <1>8, <1>9, <1>10, <1>11, <1>12, <1>13, <1>14, <1>15, <1>16, <1>17
       DEF Next, Handles

\* Nothing that was taken up, or is past its deadline, is ever taken up again.
THEOREM AnswersOnceInTime == Spec => AnsweredOnceInTime
<1>1. ASSUME IInv, Unspent, Next
      PROVE  Unspent' /\ Taken \cap (spent \cup expired) = {}
  <2>1. CASE TakesNothing \/ TakesChallenge \/ TakesProposal
    BY <1>1, <2>1 DEF Unspent, TakesNothing, TakesChallenge, TakesProposal
  <2>2. CASE Ask
    <3>1. Taken = {}
      BY <2>2 DEF Ask, Done, NoOp, Taken
    <3> QED BY <1>1, <2>2, <3>1 DEF Ask, Renew, Unspent
  <2>3. CASE RecheckTargets
    <3>1. Taken = {} /\ challenge' = challenge
      <4>1. op \in Op
        BY <1>1 DEF IInv, TypeOK
      <4>2. op'.basis = op.basis \/ op' = NoOp
        BY <1>1, <2>3, <4>1, RecheckEffect DEF Op
      <4> QED BY <2>3, <4>2 DEF RecheckTargets, NoOp, Taken
    <3> QED BY <1>1, <2>3, <3>1, RecheckEffect DEF Renew, Unspent, ghosts
  <2> QED BY <1>1, <2>1, <2>2, <2>3, WhoTakes
<1>2. Unspent /\ UNCHANGED vars => Unspent'
  BY DEF Unspent, vars, maps, ghosts
<1>3. Init => Unspent
  BY DEF Init, Unspent
<1>4. IInv /\ Unspent /\ [Next]_vars =>
          Unspent' /\ [Taken \cap (spent \cup expired) = {}]_vars
  BY <1>1, <1>2
<1> QED BY <1>3, <1>4, Invariance, PTL DEF Spec, AnsweredOnceInTime

\* Only a finished preparation makes something new count as used.
LEMMA WhoUses ==
    ASSUME IInv, Next, used' # used, used' # None, ~used'.added
    PROVE  ContextPrepared
<1>1. used' # None => \/ used' = used
                      \/ ContextPrepared
                      \/ used # None /\ used' = [used EXCEPT !.added = TRUE]
  <2>1. \A s \in Sessions : Bind(s) => used' = used \/ used' = None
    BY DEF Bind
  <2>2. CASE Handles
    BY <2>1, <2>2 DEF Handles, CommandAsks, CommandTightens, CommandConfirms, ChatRequests,
       ChatAsks, ChatAsksUnsaved, Ask, Verify, Require, ReadModes, ApplyControl, RefuseControl,
       ReadPolicy, ReadTargets, RecheckTargets, Erase, Open, Reserve, Commit, Unsaved,
       ContextPolicy, ContextModes, ContextRecall, Finalize, Fails, Expire, Evict,
       OutsideConsent, OutsideControl, OutsideForget, OutsideReserve, OutsideCommit, Revoke, maps
  <2>3. CASE ~Handles
    BY <2>3 DEF Next, ContextBegins, ContextAdded, ContextNotAdded, Restart
  <2> QED BY <2>2, <2>3
<1>2. used # None => [used EXCEPT !.added = TRUE].added
  BY DEF IInv, TypeOK
<1> QED BY <1>1, <1>2

\* Context is prepared only from facts that still exist, with consent on and the
\* session's no-recall off at that moment.
THEOREM ContextRespected == Spec => ContextHonoured
<1>1. ASSUME IInv, Next, used' # used, used' # None, ~used'.added
      PROVE  /\ db.policy.enabled
             /\ ~db.modes[op.session].no_recall
             /\ used'.rows \subseteq db.facts
  <2>1. ContextPrepared
    BY <1>1, WhoUses
  <2>2. /\ op.stage = "context_recheck" /\ db.policy = op.policy
        /\ used' = [policy |-> op.policy, rows |-> op.rows, added |-> FALSE]
    BY <1>1, <2>1 DEF ContextPrepared, At, Prepared
  <2>3. ~Older(op.policy, db.policy)
    BY <1>1, <2>2, OlderFacts DEF IInv, TypeOK, Image
  <2>4. used'.rows = op.rows
    BY <2>2
  <2> QED BY <1>1, <2>2, <2>3, <2>4 DEF IInv, ContextInTime
<1>2. IInv /\ [Next]_vars =>
          [used' # used /\ used' # None /\ ~used'.added =>
              /\ db.policy.enabled
              /\ ~db.modes[op.session].no_recall
              /\ used'.rows \subseteq db.facts]_vars
  BY <1>1
<1> QED BY <1>2, Invariance, PTL DEF Spec, ContextHonoured

=============================================================================
