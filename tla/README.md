# humanlike: formal models

TLA+ models of the `humanlike_agent` package (paths below are relative to
`src/humanlike_agent/` in the repository): what its components keep, what each
operation does to it, and what holds however callers, processes, crashes and
repeated deliveries interleave. TLC checks the models on small instances, and TLAPS
proves the safety properties for every value of the constants.

- [The system](#the-system)
- [Modules](#modules)
- [Runs](#runs)
- [Where code and documents disagree](#where-code-and-documents-disagree)
- [Proofs](#proofs)
- [What is not modelled](#what-is-not-modelled)
- [Plan](#plan)

## The system

humanlike is a behaviour layer for a chat agent. Before a model call it routes
the message, chooses a stance and guidance and hands the host a bounded context;
after the call it takes the outcome and keeps a receipt. Beside that it keeps a
durable memory of what its owner explicitly asked it to remember, in one SQLite
file, under a consent policy.

| component | code | state it keeps | operations |
|---|---|---|---|
| ledger file protocol | `memory.py` 560-900 | the image, a lock file, temporary images; locks of the process and of the file system | read an image, write a snapshot, scrub orphans |
| memory ledger | `memory.py` 900-1422 | records, supersessions, tombstones | remember, delete, recall, conflicts |
| personal memory | `personal.py` | policy (enabled, epoch, watermark), consumed events, facts in lineages, session modes, erased ids | enable/disable, control, capture (two transactions), forget, recall, inspect |
| native controller | `native.py`, `natural.py` | bindings, proposals, challenges, tickets and the facts last used, in maps of 128 entries | slash command, chat text, prepare context, finalize |
| runtime | `runtime.py` | sessions (no-save, re-anchor due, drift, discourse), turns in progress, receipts, owners of turn ids | prepare, observe, finalize, inspect |
| drift sentinel | `drift.py` | breach count, cooldown, scores | evaluate |
| discourse guard | `discourse.py` | the last tactic chains | observe, recommend, reset |
| hermes adapter | `adapters/hermes.py` | per session, the turn whose answer is awaited and its scope | pre/post hooks, finalize, prepare_authorized |
| router, stance, turn types | `router.py`, `stance.py`, `models.py` | none between calls | route a message, choose a stance, select the fragments of a context |
| creative engine | `creative.py` | none between calls; reads a pinned foundation pack | load the pack, plan, select a candidate |
| authorized host | `host.py` | none between calls | event and enrich: capture the message, recall facts and quotations |
| conversation recall, continuity | `conversation.py`, `continuity.py` | none between calls | quote an allowed history; resolve a reference to the recent one |
| hermes plugin bridge | `hermes_plugin.py` | an adapter and a controller | joins their contexts; registers hooks and commands |
| evaluation harness | `evals.py` | the results of the cases so far | read cases and pack, run cases, report |
| persona | `persona.py` | none between calls; reads a file once | render fragments |
| cli, export, build scripts | files of those names | files they write once | offline tools |

How they interact: Hermes calls the bridge's hooks; the bridge calls the adapter,
which drives a runtime of its own, and the controller, which reads and writes the
personal memory. `prepare_authorized` goes from the adapter through the authorized
host to the personal memory. The personal memory keeps its tables in the ledger's
image: each of its transactions reads the whole file into an in-memory database,
changes it and replaces the file. The runtime and adapter each have a lock, and the
controller has one too, but **every look at the ledger is a transaction of its
own**, and other processes may use the same file.

What is hard here, and what the properties are for (`PROJECT.json`, "hazards", has
each one at its line):

- operations in two transactions with arbitrary time between them (capture reserves
  an event, runs an extractor, then stores), against consent changes, forgets,
  replays and other captures;
- the file protocol: readers and writers of several processes, I/O errors at each
  step, death of a process, power loss with a directory not yet on disk, orphaned
  copies of erased data;
- approvals that outlive what they were given for: proposals and one-use challenges
  against another process, another conversation, expiry, eviction from bounded maps;
- lineages: long legal sequences of statements, corrections and forgets after which
  two definitions of "active" might disagree, or a fact be out of reach;
- hooks that are dropped, repeated, late or refused half-way, with two bounded
  tables (adapter, runtime) that must agree on which turns are out;
- a context of bounded length put together from up to twelve fragments, any of which
  may be missing because its component failed, that must always carry what keeps a turn
  safe, and a re-anchor that must not get lost among them;
- files that other programs change between the calls that open, check and read them,
  and descriptors to be closed on every way out.

## Modules

```
PersonalStore ─────── PersonalMemory ── MemoryPages ── MCPersonalRaces
   │  │                   └── MCPersonalLineage
   │  └── NativeController ──┬─ MCNative (four configurations)
   │                         │
   │ (INSTANCE Store)   Continuity
   └──────────────────────────────────┐
Contracts ─┬─ Router ─┐               │
           └─ Stance ─┴ TurnPlans ┐   │
TurnContext ──────────┘           │   │
DriftSentinel ────────────────────┤   │
DiscourseGuard (Contracts) ───────┴ RuntimeState ─┬─ HermesAdapter ── AuthorizedTurns ─┐
                                                  │     ConversationRecall ────────────┴─ MCAuthorized
                                                  └─ Runtime ─┬─ MCRuntime
                                        CreativeStudio ───────┘
PackFiles ── Conformance ── MCConformance
AtomicLedger ◄─(refines)─ LedgerFile ── MCLedgerFile (two configurations)
MemoryLedger ── MCMemoryLedger

proofs: PersonalStoreProofs (PersonalStore) ─┬─ PersonalMemoryProofs (MemoryPages)
                                             └─ NativeProofs (NativeController)
        RuntimeStateProofs (RuntimeState, CreativeStudio) ─┬─ RuntimeProofs (Runtime)
                                                           └─ AuthorizedProofs (AuthorizedTurns)
        LedgerProofs (LedgerFile, MemoryLedger), ConformanceProofs (Conformance)
```

Modules without variables (`PersonalStore`, `RuntimeState`, `DriftSentinel`,
`DiscourseGuard`, `TurnPlans` and what it extends) define state as values and each
transaction or handler as an operator; the modules above them hold the variables and
the interleavings. `ConversationRecall`, `Continuity` and `CreativeStudio` are pure
algorithms: they are checked against what is documented of them over all small inputs,
by assumptions that TLC evaluates at the start of a run. A few
definitions say of themselves that they are slips: they are faults a change of the
code could introduce, no model uses them, and each property is checked to fail when
one takes the place of the operator it is next to.

**PersonalStore** is the image behind `personal.py` for one (owner, profile,
session) namespace: policy, consumed events, facts, supersessions, erased ids,
session modes; `Consume`, `SetConsent`, `Control`, `NewFact`, `Storable`, `Insert`,
`Forget` are its transactions. A record id is a digest of the event id, which stands
for it. `Active` is `_active` of the Python code and `ActiveInPage` the SQL of
`inspect_page`. `Insertable` is what the ledger itself demands of an insert (no
duplicate key, nothing superseded twice).

**PersonalMemory** runs any number of callers over one image. Capture is
`OpenCapture`, `Reserve`, then `Commit`, `Refused` or `Abandon`, with everything
else in between. A caller may have read the policy earlier (`ReadPolicy`) and tie
its operation to it. `MaxEpoch` bounds revocations, `Requests` and `Stamps` are the
messages a host may deliver, repeated and out of order.

**MemoryPages** adds what a chat sees of the memory page by page (`_inspect` over
`inspect_page`): policy, one snapshot and policy again for each page, a cursor that a
later request goes on from, and other callers at work in between.

**LedgerFile** is `_read_image_bytes` and `_write_snapshot`, one label per system
call that matters: the two `stat`s, opening and locking the lock file, loading,
scrubbing orphans, creating, writing and fsyncing the temporary, replacing, fsyncing
the directory, unlocking. Files are inodes with contents, directories map names to
inodes. Directory changes reach the disk in order but late (`passed` holds every
directory since the last fsync; a power loss leaves any of them), and an inode that
was not synced is torn by a power loss. I/O errors before and after the effect,
process deaths and power losses are actions, `MaxFaults` of them in all.
**AtomicLedger** is what a caller may count on: one durable value, updates and reads
that take effect at one moment between call and answer, errors that leave open
whether the update happened. `RefinesAtomicLedger` is the refinement.
Assumptions: the file system orders directory changes (as journalling file systems
do); ownership, mode and link-count checks always pass. `Leftovers` are
orphans a restored directory starts with.

**MemoryLedger** is `remember`, `delete`, `recall` and `conflicts` of one image, each
call atomic as LedgerFile shows: scopes (profile, session), validity instants,
supersession edges that outlive both ends, tombstones.

**NativeController** is one chat of one owner over Telegram: admitted chat messages,
slash commands, proposals confirmed in chat, challenges confirmed by code, tickets
and the one-use context, expiry, session changes, and evictions by the 128 other
chats. A handler holds the controller's lock, but its looks at the ledger (`op` is
the handler in progress) alternate with an outsider, another process that changes
consent, controls sessions, forgets and captures. The number of a message stands for
its event id; hosts may hand over any number. `expired` holds the approvals whose deadline
has passed, which is only looked at when they are answered; they pass in the order the
approvals were given. A ticket past its deadline is refused like a missing one. Two
proposals are told apart by a name, "a" or "b", as the code tells them apart by their
deadline. `joining` is the pre hook of `hermes_plugin.py`: the context the controller
prepared is added to what the adapter has for the turn (`ContextAdded`), or is not,
because the adapter has none or both are too long together (`ContextNotAdded`).

**Contracts** holds the modes, moves, scopes and budgets that turns, routes and receipts
are made of. **Router** is `route_turn`: of a text it keeps the signs its patterns find.
**Stance** is `decide_stance` over the metrics of a probe, with the checks of
`StanceDecision`. **TurnContext** is `TurnPlan.selected_fragments`: mandatory fragments
first, then the optional ones by rank as long as they fit, with the length of the text
they are joined to. **TurnPlans** puts them together as `prepare` does: the route or the
safe one when the router raises or answers out of bounds, the narrowing to the scope
asked for, the fragments of the memory, the stance, the creative studio and the persona
unless they fail, and the context.

**Runtime** is `HumanlikeRuntime` driven by a host from any number of threads. Every
handler runs under the runtime's lock, so each is one action. A turn's plan is looked up
in `Plans` of TurnPlans; whether a due re-anchor was among the selected fragments is what
decides if it stays due. `PrepareRaises` is a prepare that raises after the session was
opened, or after the context was selected. A write to the memory that raises may
have landed. Receipts keep what they say of writes and errors.

**DriftSentinel** counts breaches and cools down; a probe is calm, a breach or severe
(a failed truth boundary). `DecisionAccepted` and `SnapshotAccepted` are the checks
that its results make of themselves.

**DiscourseGuard** is the bounded history of tactic chains, `recommend`, and the
checks of `DiscourseDecision`. The runtime model uses its history; its
recommendations are read-only there and are the subject of proofs.

**HermesAdapter** is the adapter's hooks over `RuntimeState`. Hermes may drop, repeat,
delay and interleave them over sessions, with more sessions and turns than adapter or
runtime admit (the pre hook may be refused by either, or raise half-way).
**AuthorizedTurns** adds `prepare_authorized`: the turn is prepared under the
adapter's lock, then, with the lock released, the authorized host captures the
message into a `PersonalStore` image, in two transactions, while hooks, consent
changes, forgets, storage errors and a restart of the process go on.

**ConversationRecall** is `ConversationContext.recall` over a history whose callback may
raise or yield something else at any item, and the length of what `enrich` makes of it.
**Continuity** is `resolve_recent` for "continue", "the second version", "my last
correction" and "we discussed". **CreativeStudio** is the size and admission of a
creative plan and `select_candidate`.

**PackFiles** is what a conformance run reads before it begins, call by call: the two
case files, then the pack, directory by directory and file by file, while other programs
replace, rewrite and remove what is still to be read and any system call may fail.
**Conformance** is `run_conformance` after that: steps, cases, cases that raise, and the
report.

`PROJECT.json`, "map", names the lines each definition stands for.

## Runs

All runs explore their whole state space. CHECK_DEADLOCK is off for `runtime`,
`memory_ledger`, `authorized` and `conformance`: once every turn id or record is used up,
or the report is made, the model may stop, and so may the host. The other systems can
always take a step. The type of each module's state is part of the inductive invariant
its proofs rest on.

| run | instance | what it shows |
|---|---|---|
| `personal_races` | 2 callers, 3 events in 2 lineages, sequences 1-3, one event replayable, 3 revocations, pages of one version | `NoStoreAfterRevocation`, `StoredInOrder`, `ForgottenStaysForgotten`, `FencesHold` under every interleaving of two captures with consent changes, controls and forgets; `PagesTell` |
| `personal_lineage` | 1 caller, 4 events, 2 lineages of at most 3 facts, 54 different statements | `StoreNeverRaises`, `ActiveViewsAgree`, `LineageReachable` over every sequence of remember, change, confirm, correct (one fact or a whole group, of the wrong group too), late observations and forgets |
| `ledger_file` | 2 processes with one thread each, put/erase/keep/read, 2 faults of any kind, up to 2 leftover orphans with a limit of 1 | `ImageNeverTorn`, `AtMostOneTemp`, `NoFalseAlarm`, `ErasedEverywhere`, `RefinesAtomicLedger` |
| `ledger_calls` | 3 threads, two in one process, put/read, 1 fault, fairness | `CallsReturn` |
| `native_approvals` | 2 conversations, an outsider, an eviction, message numbers 1-3, 2 revocations | `NoOutdatedApproval`, `ApprovalsStayInSession`, `AnsweredOnceInTime` |
| `native_context` | 1 conversation, an eviction, the bridge, an outsider that sets session modes and changes consent | `WhyIsCurrent`, `OnlyAnswersExpand`, `NoSaveHonoured`, `ContextHonoured` |
| `native_conflict`, `native_cancel` | small ones | a statement of a document, violated: see below |
| `runtime` | 3 turns, 2 sessions, 2 turns in progress and 2 receipts kept, cooldown 1, 2 breaches required, 12 kinds of message, batches of two records, the tightest context | `OwnersMatch`, `DriftNeverRefused`, `AnchorsSpaced`, `NoSaveHonoured`, `ReceiptsStand`, `ReceiptsHonest`, `ContextKept`, `AnchorsDelivered` |
| `memory_ledger` | 3 ids with many variants each, 2 profiles, 2 sessions, instants 0-2 | `IdsNameOneRecord`, `NeverBothShown`, `HiddenStaysHidden`, `ScopesIndependent` |
| `authorized` | 3 messages of one session, hooks of 3 sessions, room for 2 in adapter and runtime, one explicit message, 2 consent changes | `ActiveIsPending`, `EndsWithReceipt`, `NoSaveTurnsNotKept`, `CaptureHonest` |
| `conformance` | 5 files of 2 parts, 3 directories, 2 changes, 1 failing call; 2 cases of 3 steps in all | `LoadsSound`, `DescriptorsClosed`, `ReportHonest` |

Pure algorithms, checked by named assumptions in the MC modules:

| in | assumption | inputs |
|---|---|---|
| `authorized` | `RecallKeepsItsPromise`, `EnrichedFits`, `RecallReachesItsLimit` | every history of up to 4 items over 2 sources, 12 kinds of item (large, foreign, of another kind, failing), and of 8 to 10 items of sources of their own; scan limit 9, 900 characters |
| `native_*` | `ContinuityKeepsItsPromise`, `ContinueMayMissTheLatest` | every history of up to 4 rows of 14 kinds (too long, quoted, numbered otherwise, the request itself), 3 of them recent |
| `runtime` | `LargestPackFits`, `CandidatesSelected` | the largest valid pack; every three candidates over few metrics (the proofs cover all) |

Why the bounds are enough to be interesting:

- `personal_races`: an overtaken capture needs one reservation, one revocation and
  one store; a re-ordered one needs two callers; a replay needs a third sequence;
  `MaxEpoch` 3 allows off, on and a forget between. With pages of one version, two facts
  need two pages, and anything can happen between them. Lineage structure is left to the
  other run, where one caller suffices since structure only depends on the order of
  commits, but four events are needed for a fact that replaces two, one of which
  replaced a third. The proofs cover every size of both.
- `ledger_file`: two faults allow a crash in the recovery from a crash, and a power
  loss after an I/O error. Three inodes are image, temporary and one orphan.
  Whether a thread waits for the lock of its own process adds no state of files, so
  threads that share a process are left to `ledger_calls`. States that differ only in
  what unused inodes held are identified.
- `native_*`: two messages make a proposal and its answer, the third is a stale or
  repeated one. `native_approvals` leaves out session modes and `native_context` the
  approvals, to keep each within reach; the two together fire every action. One
  eviction pushes out a binding, a proposal or a challenge at any moment, which is
  enough for what guards an approval to be gone before the approval.
- `runtime`: with room for two turns and two receipts, the third turn id meets every
  limit: refused, evicted, reused. A cooldown of 1 and two required breaches
  distinguish counting during cooldown from not. With the smallest context limits the
  code admits, a re-anchor has no room in an urgent turn that may not be saved, and has
  in any other. Of a batch of two records the memory may raise for either, both or
  none, and for one it kept or one it did not; the proof covers every size.
- `authorized`: the one explicit message meets two later turns of its session, one of
  which may be a no-save one; two other sessions fill the tables. Two callers at a
  time only add the interleavings of two captures that `personal_races` covers;
  they were left out for size.
- `conformance`: a file that is read after it was checked needs one change, one that is
  changed and changed back two; one failing call meets each of the closes on the way
  out. Two cases share a dimension, and each has one the other may lack.

Sessions, turns and callers that are interchangeable are identified (symmetry), as are
inodes and records of a batch; no symmetry is used with a liveness property. A VIEW leaves
out what no action reads: a call's history once it ended, what a remembered tactic chain
is, what a turn's context holds once given, what a receipt counts once written, marks on
an approval that is gone and the name of a proposal, but for whether a challenge was shown
for it. The action properties see these at the step that makes or changes them.

**Fairness.** Only `ledger_calls` uses it: weak fairness of `Proceed(t)` for each
thread, that is, a thread that is inside a call and can take its next step takes it
eventually. The code waits for the file lock by polling every 10 ms up to a deadline,
so a waiting thread always has a next step (acquire, or time out), and every other
step is a system call that returns. Nothing is assumed of calls being made, of faults,
or of a thread ever getting the lock of its own process, which is an ordinary
untimed lock: `CallsReturn` says of a thread that holds it that it lets go.

## Where code and documents disagree

Two runs check a statement of the repository and find a behaviour of the code that
contradicts it.

- `native_conflict`: `native.py:63` tells the owner "Conflicting preferences are NOT
  stored", and `docs/PERSONAL_MEMORY.md:136` promises a choice before storage. The look
  for conflicts and the capture are separate transactions tied by the policy triple,
  but a capture that another process *reserved* earlier moves the triple only at its
  reservation. If it commits between the look and the store, the conflict is stored.
  The approval acted on is then older than another process's write, whereas
  `docs/STABILITY.md:47` says that concurrent writes invalidate old approvals. What holds
  is weaker: an approval is invalid once the policy has moved (`NoOutdatedApproval`), and
  the store of an event that was reserved before does not move it.
- `native_cancel`: "cancel" in chat drops the proposal and answers that nothing was
  saved, but a challenge issued for a direct request stays valid and its code still
  stores. `docs/STABILITY.md:47` says that cancellation invalidates old approvals.

Observed and not counted as a disagreement: a session-wide no-save wish that comes
with a *later* turn does not stop a capture whose turn was prepared before it
(`adapters/hermes.py:469`); `NoSaveTurnsNotKept` states what does hold. A `prepare`
whose text cannot be encoded loses a re-anchor that was due (`runtime.py:715`); no
document says it survives, and `AnchorsDelivered` names that step, `RaisedWithAnchor`,
as its one exception.

A disagreement without a run of its own: `docs/STABILITY.md:47` says that session changes
invalidate old approvals. A pending proposal of an old session is dropped by looking at the
chat's earlier binding. Once 128 other chats have pushed the binding out of its map but not
the proposal, a proposal made in one session can be confirmed in the next (`native.py:113`;
leave `~strayed` out of `ApprovalsStayInSession` to see it). The property has this
exception and no other: `native_approvals`, where an eviction may come at any moment, shows
that a proposal is carried out from another session only if its binding was pushed out
after it was made, and `ProposalsStay` proves it for any number of evictions.

"continue" takes the rows around the latest answer oldest first, so a long row before it
can leave no room for that answer itself (`continuity.py:119`,
`ContinueMayMissTheLatest`); the documentation does not say which rows are shown. A
correction of more than 4096 characters is passed over and the one before it is taken for
the last. `plan` of `creative.py`, with its own default limit of 8192 characters refuses the
largest packs it admits; the runtime asks for 16 000, which `StudioServesRoutes` proves to
be enough.

## Proofs

Every theorem rests only on the named assumptions about constants that the modules
state, which TLC evaluates in the runs. They say

- that a value which stands for "none" differs from what it stands beside
  (`NoEventAssumption`, `NoRequestAssumption`, `NoPolicyAssumption`,
  `NoSessionAssumption`, `NoneAssumption`, `AbsentAssumption`, `DistinctNames`, parts of
  `RuntimeAssumption`): in the code it is Python's `None`, no string, tuple or number.
  `DistinctNames` also says that a torn file is no set of items, so that SQLite can tell;
- that limits are numbers, and in the ranges their constructors admit
  (`BoundsAssumption`, `PageAssumption`, `SentinelAssumption`, `DiscourseAssumption`,
  `LimitsAssumption`, `RuntimeAssumption`, `AdapterAssumption`, `LedgerBounds`,
  `NativeBounds`, the bounds of the models `MaxEpoch` and `MaxTime`);
- that messages, records and outcomes have the fields they should
  (`RequestsAssumption`, `OutsideAssumption`, `StampsAssumption`, `CandidatesAssumption`,
  `TextsAssumption`, `InputsAssumption`, `OutcomesAssumption`, `MessagesAssumption`,
  `PreferenceIsKind`), among them that a statement which names several facts does not also
  name one, as `_store` refuses it, and that an outcome holds finitely many records;
- that a conformance suite has cases of one to three steps, each expecting something
  (`CasesAssumption`), and that the directories down to a pack have names of their own
  (`FilesAssumption`);
- that a disk has finitely many inodes (`DiskIsFinite`), without which the orphans of
  a directory could not be counted, and that each thread is of one process.

Where an argument is by induction over numbers or sequences it goes by a least
counterexample in a well-founded set (`LeastNatural`, `EveryNatural`).

**PersonalMemory** (`PersonalStoreProofs`, `PersonalMemoryProofs`): for any number of
callers, events, lineages, facts and revocations,
`TypeOK`, `FencesHold`, `StoreNeverRaises`, `ActiveViewsAgree`, `LineageReachable`,
`RelationsResolve`, `NoStoreAfterRevocation`, `ForgottenStaysForgotten` and
`StoredInOrder`. The inductive invariant `IInv` is the conjunction of

- `TypeOK`;
- `Fenced(db)`: consumed sequences are unique and not above the watermark, and every
  record, live or erased, consumed its event. It is why a replay finds its event used;
- `WellLinked(db)`: an id names one live row or a tombstone; what a fact replaces is
  live and in its own lineage; the supersession table says the same as the rows, and
  edges whose rows are gone have both ends gone, since lineages are erased whole. The
  two views of "active" could not be compared without it;
- `Reachable(db)`: a lineage with facts has an active one;
- `Reservations`: a capture between its transactions owns its event: consumed, not
  recorded, held by nobody else. `StoreNeverRaises` needs it;
- `Epochs`: what a caller remembers of the policy is never ahead of it, and strictly
  behind once a revocation has overtaken the caller. `NoStoreAfterRevocation` needs it.

`PersonalStoreProofs` has one lemma per transaction and part (what `Consume`,
`Control`, `Insert`, `Forget` keep), `PersonalMemoryProofs` one per action. The action
properties follow from `IInv` and the fact that only `Commit` stores. `RelationsResolve`,
which is proved and in no run, is inductive beside `IInv` once it also says that a relation's fact is of the same
lineage and older (`Resolved`): what `_store` relates to is active, and only whole
lineages are erased.

**MemoryPages** (`PersonalMemoryProofs`, last section): `PagesTell`, for any page size and
any number of facts and callers. `PagesInv` says that under an unchanged policy the list
shown so far *covers* the image: every stored version missing from it is either younger
than all of it, with more to come, or the capture reserved last, and whatever it says of
activity is true unless that capture replaced it (`Covers`); that the versions after a
cursor are those the list does not reach (`Follows`); and the same of a page that was
read and not yet shown. A step either makes the policy younger, and then nothing is
claimed of the old list, or is the commit of the capture reserved last, or stores nothing.

**NativeController** (`NativeProofs`): `WhyIsCurrent`, `OnlyAnswersExpand`,
`NoOutdatedApproval`, `NoSaveHonoured`, `ContextHonoured`, `ApprovalsStayInSession` and
`AnsweredOnceInTime` for any texts, sessions, facts, evictions and outsiders. `IInv` dates everything that was read before a look
at the ledger by its policy: an approval (proposal, challenge, the one a handler acts on,
the event it reserved) is never younger than the ledger's policy and is *older* once it was
revoked or the session asked not to be saved (`MapsInTime`, `HandlerInTime`, `NoSaveSeen`);
the facts of a context exist as long as their policy stands (`ContextInTime`). Since
policies only grow, and every write is tied to the policy of its approval, an overtaken
handler finds it changed. `HandlerShape` and `AnswersFirst` say what is known at each stage
of a handler, above all that whoever expands has answered a challenge; `GoesWithBinding`
that a proposal lives no longer than its session's binding unless that was pushed out
since; `Unspent` that an approval which can still be taken up never was.

**LedgerFile** (`LedgerProofs`, first part): `ImageNeverTorn`, `AtMostOneTemp`, `NoFalseAlarm`,
`ErasedEverywhere`, and `ImplementsAtomicLedger`, the refinement of AtomicLedger, for any
number of processes, threads, files, leftovers and faults. There is never more than one
temporary image, or as many as the directory started with (`Leftovers`). `IInv` speaks of every directory
a crash or a power loss can leave, the visible one, the one on disk and those passed
through between (`Reach`):

- `LockFileFirst`: no directory has an image without a lock file;
- `ImagesWhole`: the image of every directory is on disk, whole and no one's temporary;
- `Writing`: at each label, what the writer has read and written, and that its temporary
  is the only one; it rests on `WriterHoldsFlock`;
- `OrphansFew`, `NoErrorSeen`, and the labels a call of each kind can be at.

The refinement maps the abstract value to the bytes of the visible image, the values a
power loss may bring back to those of the directories in `Reach`, and an update that took
effect without an answer to a thread between its rename and the fsync of the directory.
Each step is then an abstract step or a stutter; a rename is an update of the right value
because the writer's base still is the visible image (`Writing`).

**MemoryLedger** (`LedgerProofs`, second part): `RecordsTyped`, `IdsNameOneRecord`,
`NeverBothShown`, `HiddenStaysHidden`, `ScopesIndependent`, and that "not new" is only
answered for a record that took effect. `RecordsInv` is `RecordsTyped`, `IdsNameOneRecord` and
`Accounted`: what was written is live or buried, and the edges of all that was
written are still there. The last is what keeps a replaced record hidden after its
successor is deleted.

**What a turn is made of** (`RuntimeStateProofs`): theorems about operators, for every set
of signs, router, probe, failing component, history, pack and limits the code admits.

- *Plans*: whichever router answers, however it fails, the route passes its checks, is never
  milder than the scope asked for, and asks for a save only in the default one; the
  stance passes its own; the selected context holds every mandatory fragment, nothing not
  offered, and fits; the mandatory fragments never take more than the smallest limit, so no
  turn is refused for want of room (`PlansAccepted`); each plan keeps what `ContextKept`
  asks (`PlansKept`); and a session told not to save plans no turn that may
  (`NoSaveIsInherited`). The heart is a bound on the joined length of the mandatory
  fragments, 571 characters against a smallest limit of 600.
- *DiscourseGuard*: `recommend` never builds a decision that its own checks refuse (so no
  turn loses its advice or gets an error for it); a rotated opening is not rotated again at
  once; a guard that forgets old chains recommends exactly what one with the whole history
  would.
- *CreativeStudio*: a plan exists for every creative route and every valid pack; the ranking
  of candidates is a strict total order; whenever a candidate is valid one is selected, it
  stays selected whichever losers are withdrawn (`LosersDoNotDecide`), and none that is as
  good by every metric is better by one. That it exists comes from the well-foundedness of
  finite sets under strict inclusion.
- *The state of a runtime*: `prepare`, `observe` and `finalize` keep `Sound(r)` whoever calls
  them: types, a session for each turn in progress, drift counters that pass their checks,
  tables within their limits, one receipt for each turn that has one, and `Owned`: a turn
  has an owner exactly while it is in progress or has a receipt, under the session these
  name. The list of receipts is filtered when a session is finalized; that the filter keeps
  what it should is by induction over its length.

**Runtime** (`RuntimeProofs`): `OwnersMatch`, `ReceiptsStand`, `ReceiptsHonest`,
`DriftNeverRefused`, `AnchorsSpaced`, `NoSaveHonoured`, `ContextKept`, `AnchorsDelivered`,
for any sessions, turns, limits and outcomes. The inductive invariant `Inv` is
`Sound(runtime)` and

- `PlansRemembered`: a turn in progress has one of the plans of TurnPlans;
- `FencesRemembered`: a session that was told not to save has its flag set, whatever turn
  brought it; `NoSaveHonoured` needs it for turns prepared before the wish;
- `CooldownCounted`: what is left of a cooldown is what the probes since the last
  re-anchor have not used up. `AnchorsSpaced` is not inductive without it.

The action properties follow from `Inv` and the step; those about receipts need that every
receipt of the next state was one before or is that of a turn that was in progress.

**AuthorizedTurns over HermesAdapter** (`AuthorizedProofs`): `ActiveIsPending`,
`CaptureHonest`, `NoSaveTurnsNotKept` and `EndsWithReceipt`, for any sessions, turns,
callers, limits, restarts and storage errors. `HostInv` is `Sound(runtime)` with
`ActiveIsPending` (`Awaited`), the fields of the image, and of each call that what it answers
is true of the memory for good, live or erased (`Known` only grows), and that a call whose
turn was told not to save never opens a capture (`CallsKept`). `EndsWithReceipt` is proved for
an adapter that keeps two receipts or more. With a limit of one it is false: a turn whose
context is too long is retired within the hook that retired the one before it, and its
receipt takes the place of the only one. The default is 128 (`runtime.py:203`).

**Conformance over PackFiles** (`ConformanceProofs`): `LoadsSound`, `DescriptorsClosed` and
`ReportHonest`, for any suite, any depth of directories, and any number of changes and
failed calls. `LoadInv` says where in its order of files the reader can be at each stage
(`Ordered`); that every open descriptor is one whose close failed or one that the stage has
yet to close (`Closes`, over `Mine`): its file, the directory it is in, the one above it while
it steps down; that a reader nothing disturbed sees the original files only (`Smooth`); and
that a loaded pack is the pinned one (`Pins`). `ReportInv` counts: for the cases before the
current one, what passed, what each dimension covers and fails, and for the current one, that
a dimension is missed exactly when one of the codes collected so far is of it.

**Only model-checked.** Out of the prover's reach and left to TLC: liveness
(`CallsReturn`) and ENABLED; induction over data through an operator parameter, hence what
the folds of `ConversationRecall` and `Continuity` compute for every history. No module uses
RECURSIVE.

## What is not modelled

- *Content*: wording, search terms, relevance of memory records, digests, the words that
  are a sign to the router, and the checks that refuse malformed text or fields.
- *Persona*: immutable data read once from a file and rendered. That a turn has a persona
  fragment of some length, or none because it failed, is part of TurnPlans.
- *Creative engine*: what is checked of the texts and the JSON of a pack, and the digests
  themselves (equal when the contents are).
- *Evaluation harness*: how one step's dimensions are scored; the model takes any outcome.
  The double that stands for the memory in a case differs from the ledger, so no
  agreement of the two is stated.
- *NativeController*: status and help text, diagnostics, the command-line transport
  (which has no tickets), and an I/O error reported after its effect persisted.
- *Hermes plugin bridge*: registration, the status command and the fallback without a
  controller; its finalize makes two calls, each modelled with its component.
- *Hermes adapter*: loading its configuration, and the rewrite of an answer.
- *LedgerFile*: checks of ownership, mode and links, which only refuse; file systems
  that reorder directory changes.
- *MemoryLedger*: the integrity checks of a loaded image, which only refuse, and the order
  and limit of what recall returns.
- *Hosts that spell one session id in two ways*: the adapter's table is keyed by the
  spelling (`adapters/hermes.py:380`), the runtime's by the canonical form; the models take
  canonical ids.
- *The limit of 256 versions of a group* is modelled (`Full`), and has no property of its
  own: one test in the transaction that inserts guards it (`personal.py:544`).
- Offline tools: command line, export, build and release scripts.

## Plan

Done, in this order: PersonalStore and PersonalMemory with their proofs; LedgerFile
over AtomicLedger; NativeController; Runtime with DriftSentinel; HermesAdapter;
MemoryLedger with its proofs; AuthorizedTurns; DiscourseGuard; the plan of a turn
(Contracts, Router, Stance, TurnContext, TurnPlans) with the proofs of Runtime; PackFiles
and Conformance; MemoryPages; the bridge; ConversationRecall, Continuity and
CreativeStudio.

Then the proofs of LedgerFile and its refinement, NativeController, the state of a
runtime, Runtime's receipts, AuthorizedTurns over HermesAdapter, MemoryPages, and
Conformance over PackFiles.

What is left: *lemmas about Continuity and ConversationRecall* that need no induction over
a fold: the bound on the length of what `enrich` adds, that a row shown is one of the history.
