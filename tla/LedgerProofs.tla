---------------------------- MODULE LedgerProofs ----------------------------
(***************************************************************************)
(* Proofs about SQLiteMemoryLedger, in two parts that share no variable.   *)
(*                                                                         *)
(* LedgerFile: the image of the ledger is never torn, orphans never pile   *)
(* up, an erasure that was answered "saved" holds on the disk, and the     *)
(* file protocol implements AtomicLedger, whatever fails, dies or loses    *)
(* power, for any number of threads, processes, files and faults.          *)
(*                                                                         *)
(* MemoryLedger: what an image holds and shows, for any records and        *)
(* instants.                                                               *)
(***************************************************************************)
EXTENDS LedgerFile, MemoryLedger, FiniteSetTheorems, TLAPS

-----------------------------------------------------------------------------
(* The inductive invariant *)

\* The directories a crash, of a process or of the machine, can leave.
Reach == passed \cup {dir, disk}

\* Where a thread has its advisory lock.
Holding == {"load", "clean", "clean_sync", "apply", "create", "write", "sync",
            "replace", "sync_dir", "undo", "unlock"}
ForReaders == {"idle", "stat_image", "stat_lock", "flock", "load", "unlock", "leave"}
ForUpdates == {"create", "write", "sync", "replace", "sync_dir", "undo"}
Unpublished == {"write", "sync", "replace"}
Pending == Labels \ {"idle", "unlock", "leave"}

\* Readers stay out of the writer's part, and only updates persist.
InTheirPart ==
    \A t \in Threads : /\ Reading(t) => pc[t] \in ForReaders
                       /\ pc[t] \in ForUpdates => job[t].kind \in {"put", "erase"}

\* A thread has no answer before its call ends.
Unanswered == \A t \in Threads : pc[t] \in Pending => result[t] = None

\* A writer past its flock is the one that holds it.
WriterHoldsFlock ==
    \A t \in Threads : ~Reading(t) /\ pc[t] \in Holding => flock.exclusive = t

\* The lock file is there before an image is, and stays.
LockFileFirst ==
    /\ \A t \in Threads : saw[t] => dir.lock
    /\ \A t \in Threads : ~Reading(t) /\ pc[t] \in Holding \cup {"flock"} => dir.lock
    /\ \A d \in Reach : d.image # Absent => d.lock

\* Every image that can be found is whole, on disk, and nobody's temporary.
ImagesWhole ==
    \A d \in Reach : d.image # Absent =>
        d.image \in synced /\ d.image \notin torn \cup dir.temps \cup d.temps

\* What the writer has read and written so far, and that its temporary image is
\* the only one from the moment it adds it.
Writing ==
    \A t \in Threads :
        /\ pc[t] \in {"clean", "clean_sync", "apply", "create"} \cup Unpublished
              => base[t] = Bytes(dir) /\ ~Reading(t)
        /\ pc[t] \in {"apply", "create", "sync_dir"} => dir.temps = {}
        /\ pc[t] \in Unpublished => dir.temps = {mine[t]}
        /\ pc[t] \in Unpublished \cup {"sync_dir"}
              => mine[t] \in Inodes /\ data[mine[t]] = NewBytes(t)
        /\ pc[t] \in {"sync", "replace"} => mine[t] \notin torn
        /\ pc[t] = "replace" => mine[t] \in synced
        /\ pc[t] = "sync_dir" => dir.image = mine[t]

Few(S) == Cardinality(S) <= IF Leftovers > 1 THEN Leftovers ELSE 1

\* No directory that can be found holds more orphans than one, or the leftovers.
OrphansFew == \A d \in Reach : Few(d.temps)

NoErrorSeen == \A t \in Threads : result[t].kind \notin {"corrupt", "lock_missing"}

IInv ==
    /\ TypeOK
    /\ InTheirPart /\ Unanswered /\ WriterHoldsFlock /\ LockFileFirst
    /\ ImagesWhole /\ Writing /\ OrphansFew
    /\ NoErrorSeen /\ ErasedEverywhere

-----------------------------------------------------------------------------
(* Lemmas about the invariant *)

\* Two writers never hold the advisory lock at once.
LEMMA OneWriter ==
    ASSUME IInv, NEW t \in Threads, NEW u \in Threads,
           ~Reading(t), pc[t] \in Holding, ~Reading(u), pc[u] \in Holding
    PROVE  t = u
BY DEF IInv, WriterHoldsFlock

\* Nothing on disk is torn, so what is read is a set of items.
LEMMA ImageReadable == IInv => Bytes(dir) \in Contents /\ Bytes(dir) # Torn
BY DistinctNames DEF IInv, TypeOK, ImagesWhole, Reach, Bytes, Directory, Contents

\* Fewer orphans than few are few.
LEMMA FewerOrphans ==
    ASSUME NEW S \in SUBSET Inodes, NEW T \in SUBSET S, Few(S)
    PROVE  Few(T)
<1>1. IsFiniteSet(S) /\ IsFiniteSet(T)
  BY DiskIsFinite, FS_Subset
<1>2. Cardinality(T) <= Cardinality(S) /\ Cardinality(S) \in Nat /\ Cardinality(T) \in Nat
  BY <1>1, FS_Subset, FS_CardinalityType
<1> QED BY <1>2, LedgerBounds DEF Few

\* One orphan is few, and so is none.
LEMMA OneOrphan == Few({}) /\ \A n \in Inodes : Few({n})
<1>1. Cardinality({}) = 0 /\ \A n \in Inodes : Cardinality({n}) = 1
  BY FS_EmptySet, FS_Singleton
<1> QED BY <1>1, LedgerBounds DEF Few

-----------------------------------------------------------------------------
(* Each step of a thread keeps the invariant *)

\* A call takes its process's lock; it has touched no file.
LEMMA EnterKeeps ==
    ASSUME IInv, NEW t \in Threads, NEW j \in Jobs, Enter(t, j)
    PROVE  IInv'
<1> USE DEF Enter, At, Goto, Ends, Answer, files, memory, names
<1>1. TypeOK'
  BY LedgerBounds, ProcessOfAssumption DEF IInv, TypeOK, Labels, Jobs, Results, Contents
<1>2. InTheirPart' /\ Unanswered' /\ NoErrorSeen'
  BY DEF IInv, TypeOK, InTheirPart, Unanswered, NoErrorSeen, ForReaders,
         ForUpdates, Pending, Labels, Reading, None
<1>3. WriterHoldsFlock' /\ LockFileFirst'
  BY DEF IInv, TypeOK, WriterHoldsFlock, LockFileFirst, Holding, Reading, Reach
<1>4. ImagesWhole' /\ OrphansFew' /\ ErasedEverywhere'
  BY DEF IInv, TypeOK, ImagesWhole, OrphansFew, ErasedEverywhere, Reach
<1>5. Writing'
  BY OneWriter DEF IInv, TypeOK, Writing, Unpublished, Holding, Reading, NewBytes, Bytes
<1> QED BY <1>1, <1>2, <1>3, <1>4, <1>5 DEF IInv

\* A reader that finds no image is done; anyone else goes on.
LEMMA StatImageKeeps ==
    ASSUME IInv, NEW t \in Threads, StatImage(t)
    PROVE  IInv'
<1>1. PICK label \in {"leave", "stat_lock"}, r \in {result[t], [kind |-> "read", seen |-> {}]} :
          /\ pc[t] = "stat_image" /\ pc' = [pc EXCEPT ![t] = label]
          /\ result' = [result EXCEPT ![t] = r]
          /\ label = "stat_lock" => r = result[t]
          /\ r.kind \notin {"corrupt", "lock_missing"}
          /\ saw' = [saw EXCEPT ![t] = dir.image # Absent]
          /\ UNCHANGED <<dir, disk, passed, data, torn, synced, local, flock, job, base,
                         mine, gone, faults>>
  <2>1. result = [result EXCEPT ![t] = result[t]]
    BY DEF IInv, TypeOK
  <2>2. result[t].kind \notin {"corrupt", "lock_missing"}
    BY DEF IInv, NoErrorSeen
  <2> QED BY <2>1, <2>2 DEF StatImage, At, Goto, Answer, files, names, locks
<1>2. TypeOK'
  BY <1>1, LedgerBounds, ProcessOfAssumption
     DEF IInv, TypeOK, Labels, Jobs, Results, Contents
<1>3. InTheirPart' /\ Unanswered' /\ NoErrorSeen'
  BY <1>1 DEF IInv, TypeOK, InTheirPart, Unanswered, NoErrorSeen, ForReaders,
         ForUpdates, Pending, Labels, Reading, None
<1>4. WriterHoldsFlock' /\ LockFileFirst'
  BY <1>1 DEF IInv, TypeOK, WriterHoldsFlock, LockFileFirst, Holding, Reading, Reach
<1>5. ImagesWhole' /\ OrphansFew' /\ ErasedEverywhere'
  BY <1>1 DEF IInv, TypeOK, ImagesWhole, OrphansFew, ErasedEverywhere, Reach
<1>6. Writing'
  BY <1>1, OneWriter
     DEF IInv, TypeOK, Writing, Unpublished, Holding, Reading, NewBytes, Bytes
<1> QED BY <1>2, <1>3, <1>4, <1>5, <1>6 DEF IInv

\* The missing-lock error is out of reach: the lock file precedes the image.
LEMMA StatLockKeeps ==
    ASSUME IInv, NEW t \in Threads, StatLock(t)
    PROVE  IInv'
<1>1. ~(saw[t] /\ ~dir.lock)
  BY DEF IInv, LockFileFirst
<1>2. /\ pc[t] = "stat_lock"
      /\ pc' = [pc EXCEPT ![t] = IF Reading(t) THEN "flock" ELSE "open_lock"]
      /\ UNCHANGED <<dir, disk, passed, data, torn, synced, local, flock, job, saw, base,
                     mine, result, gone, faults>>
  BY <1>1 DEF StatLock, At, Goto, files, names, locks, memory
<1>3. TypeOK'
  BY <1>2, LedgerBounds, ProcessOfAssumption
     DEF IInv, TypeOK, Labels, Jobs, Results, Contents
<1>4. InTheirPart' /\ Unanswered' /\ NoErrorSeen'
  BY <1>2 DEF IInv, TypeOK, InTheirPart, Unanswered, NoErrorSeen, ForReaders,
         ForUpdates, Pending, Labels, Reading, None
<1>5. WriterHoldsFlock' /\ LockFileFirst'
  BY <1>2 DEF IInv, TypeOK, WriterHoldsFlock, LockFileFirst, Holding, Reading, Reach
<1>6. ImagesWhole' /\ OrphansFew' /\ ErasedEverywhere'
  BY <1>2 DEF IInv, TypeOK, ImagesWhole, OrphansFew, ErasedEverywhere, Reach
<1>7. Writing'
  BY <1>2, OneWriter
     DEF IInv, TypeOK, Writing, Unpublished, Holding, Reading, NewBytes, Bytes
<1> QED BY <1>3, <1>4, <1>5, <1>6, <1>7 DEF IInv

\* Creating the lock file changes neither image nor temporaries.
LEMMA OpenLockKeeps ==
    ASSUME IInv, NEW t \in Threads, OpenLock(t)
    PROVE  IInv'
<1>1. /\ pc[t] = "open_lock" /\ pc' = [pc EXCEPT ![t] = "flock"]
      /\ UNCHANGED <<disk, data, torn, synced, local, flock, job, saw, base,
                     mine, result, gone, faults>>
  BY DEF OpenLock, At, Goto, Change, names, locks, memory
<1>2. /\ dir' \in Directory /\ passed' \subseteq passed \cup {dir}
      /\ dir'.lock /\ dir'.image = dir.image /\ dir'.temps = dir.temps
  BY DEF OpenLock, Change, names, IInv, TypeOK, Directory
<1>3. Bytes(dir)' = Bytes(dir)
  BY <1>1, <1>2 DEF Bytes
<1>4. TypeOK'
  BY <1>1, <1>2, LedgerBounds, ProcessOfAssumption
     DEF IInv, TypeOK, Labels, Jobs, Results, Contents
<1>5. InTheirPart' /\ Unanswered' /\ NoErrorSeen'
  BY <1>1, <1>2 DEF IInv, TypeOK, InTheirPart, Unanswered, NoErrorSeen, ForReaders,
         ForUpdates, Pending, Labels, Reading, None
<1>6. WriterHoldsFlock' /\ LockFileFirst'
  BY <1>1, <1>2 DEF IInv, TypeOK, WriterHoldsFlock, LockFileFirst, Holding, Reading, Reach
<1>7. ImagesWhole' /\ OrphansFew' /\ ErasedEverywhere'
  BY <1>1, <1>2 DEF IInv, TypeOK, ImagesWhole, OrphansFew, ErasedEverywhere, Reach
<1>8. Writing'
  BY <1>1, <1>2, OneWriter, <1>3
     DEF IInv, TypeOK, Writing, Unpublished, Holding, Reading, NewBytes, Bytes
<1> QED BY <1>4, <1>5, <1>6, <1>7, <1>8 DEF IInv

\* A writer gets the flock only when nobody holds it.
LEMMA FlockKeeps ==
    ASSUME IInv, NEW t \in Threads, Flock(t)
    PROVE  IInv'
<1> USE DEF Flock, At, Goto, files, memory, names
<1>1. TypeOK'
  BY LedgerBounds, ProcessOfAssumption DEF IInv, TypeOK, Labels, Jobs, Results, Contents
<1>2. InTheirPart' /\ Unanswered' /\ NoErrorSeen'
  BY DEF IInv, TypeOK, InTheirPart, Unanswered, NoErrorSeen, ForReaders,
         ForUpdates, Pending, Labels, Reading, None
<1>3. WriterHoldsFlock' /\ LockFileFirst'
  <2>1. flock.exclusive = Nobody /\ flock'.exclusive = IF Reading(t) THEN Nobody ELSE t
    BY DEF IInv, TypeOK, Grantable
  <2>2. \A u \in Threads : ~Reading(u) => pc[u] \notin Holding
    BY <2>1, DistinctNames DEF IInv, WriterHoldsFlock
  <2>3. WriterHoldsFlock'
    BY <2>1, <2>2 DEF IInv, TypeOK, WriterHoldsFlock, Reading
  <2>4. LockFileFirst'
    BY DEF IInv, TypeOK, LockFileFirst, Holding, Reading, Reach
  <2> QED BY <2>3, <2>4
<1>4. ImagesWhole' /\ OrphansFew' /\ ErasedEverywhere'
  BY DEF IInv, TypeOK, ImagesWhole, OrphansFew, ErasedEverywhere, Reach
<1>5. Writing'
  BY OneWriter DEF IInv, TypeOK, Writing, Unpublished, Holding, Reading, NewBytes, Bytes
<1> QED BY <1>1, <1>2, <1>3, <1>4, <1>5 DEF IInv

\* A deadline that passes leaves everything as it was.
LEMMA FlockTimeoutKeeps ==
    ASSUME IInv, NEW t \in Threads, FlockTimeout(t)
    PROVE  IInv'
<1> USE DEF FlockTimeout, At, Goto, Ends, Answer, files, locks, memory, names
<1>1. TypeOK'
  BY LedgerBounds, ProcessOfAssumption DEF IInv, TypeOK, Labels, Jobs, Results, Contents
<1>2. InTheirPart' /\ Unanswered' /\ NoErrorSeen'
  BY DEF IInv, TypeOK, InTheirPart, Unanswered, NoErrorSeen, ForReaders,
         ForUpdates, Pending, Labels, Reading, None
<1>3. WriterHoldsFlock' /\ LockFileFirst'
  BY DEF IInv, TypeOK, WriterHoldsFlock, LockFileFirst, Holding, Reading, Reach
<1>4. ImagesWhole' /\ OrphansFew' /\ ErasedEverywhere'
  BY DEF IInv, TypeOK, ImagesWhole, OrphansFew, ErasedEverywhere, Reach
<1>5. Writing'
  BY OneWriter DEF IInv, TypeOK, Writing, Unpublished, Holding, Reading, NewBytes, Bytes
<1> QED BY <1>1, <1>2, <1>3, <1>4, <1>5 DEF IInv

\* What is read is whole, so a writer starts from the value.
LEMMA LoadKeeps ==
    ASSUME IInv, NEW t \in Threads, Load(t)
    PROVE  IInv'
<1>1. PICK label \in {"unlock", "clean"}, r \in Results, b \in Contents :
          /\ pc[t] = "load" /\ pc' = [pc EXCEPT ![t] = label]
          /\ result' = [result EXCEPT ![t] = r]
          /\ base' = [base EXCEPT ![t] = b]
          /\ r.kind \notin {"corrupt", "lock_missing"}
          /\ label = "clean" => ~Reading(t) /\ b = Bytes(dir) /\ r = result[t]
          /\ UNCHANGED <<dir, disk, passed, data, torn, synced, local, flock, job, saw,
                         mine, gone, faults>>
  <2>1. UNCHANGED <<dir, disk, passed, data, torn, synced, local, flock, job, saw, mine,
                    gone, faults>> /\ pc[t] = "load" /\ Bytes(dir) \in Contents
    BY ImageReadable DEF Load, At, files, names, locks
  <2>2. CASE Reading(t)
    <3>1. /\ pc' = [pc EXCEPT ![t] = "unlock"] /\ base' = [base EXCEPT ![t] = base[t]]
          /\ result' = [result EXCEPT ![t] = [kind |-> "read", seen |-> Bytes(dir)]]
      BY <2>2, ImageReadable DEF Load, Goto, Answer, IInv, TypeOK
    <3>2. [kind |-> "read", seen |-> Bytes(dir)] \in Results /\ base[t] \in Contents
      BY <2>1 DEF Results, IInv, TypeOK
    <3> QED BY <2>1, <3>1, <3>2
  <2>3. CASE ~Reading(t)
    <3>1. /\ pc' = [pc EXCEPT ![t] = "clean"] /\ base' = [base EXCEPT ![t] = Bytes(dir)]
          /\ result' = [result EXCEPT ![t] = result[t]]
      BY <2>3, ImageReadable DEF Load, Goto, IInv, TypeOK
    <3>2. result[t] \in Results /\ result[t].kind \notin {"corrupt", "lock_missing"}
      BY DEF IInv, TypeOK, NoErrorSeen
    <3> QED BY <2>1, <2>3, <3>1, <3>2
  <2> QED BY <2>2, <2>3
<1>2. TypeOK'
  BY <1>1, LedgerBounds, ProcessOfAssumption
     DEF IInv, TypeOK, Labels, Jobs, Results, Contents
<1>3. InTheirPart' /\ Unanswered' /\ NoErrorSeen'
  BY <1>1 DEF IInv, TypeOK, InTheirPart, Unanswered, NoErrorSeen, ForReaders,
         ForUpdates, Pending, Labels, Reading, None
<1>4. WriterHoldsFlock' /\ LockFileFirst'
  BY <1>1 DEF IInv, TypeOK, WriterHoldsFlock, LockFileFirst, Holding, Reading, Reach
<1>5. ImagesWhole' /\ OrphansFew' /\ ErasedEverywhere'
  BY <1>1 DEF IInv, TypeOK, ImagesWhole, OrphansFew, ErasedEverywhere, Reach
<1>6. Writing'
  BY <1>1, OneWriter
     DEF IInv, TypeOK, Writing, Unpublished, Holding, Reading, NewBytes, Bytes
<1> QED BY <1>2, <1>3, <1>4, <1>5, <1>6 DEF IInv

\* A writer goes on when it sees no orphan left.
LEMMA CleanDoneKeeps ==
    ASSUME IInv, NEW t \in Threads, CleanDone(t)
    PROVE  IInv'
<1> USE DEF CleanDone, At, Goto, files, locks, memory, names
<1>1. TypeOK'
  BY LedgerBounds, ProcessOfAssumption DEF IInv, TypeOK, Labels, Jobs, Results, Contents
<1>2. InTheirPart' /\ Unanswered' /\ NoErrorSeen'
  BY DEF IInv, TypeOK, InTheirPart, Unanswered, NoErrorSeen, ForReaders,
         ForUpdates, Pending, Labels, Reading, None
<1>3. WriterHoldsFlock' /\ LockFileFirst'
  BY DEF IInv, TypeOK, WriterHoldsFlock, LockFileFirst, Holding, Reading, Reach
<1>4. ImagesWhole' /\ OrphansFew' /\ ErasedEverywhere'
  BY DEF IInv, TypeOK, ImagesWhole, OrphansFew, ErasedEverywhere, Reach
<1>5. Writing'
  BY OneWriter DEF IInv, TypeOK, Writing, Unpublished, Holding, Reading, NewBytes, Bytes
<1> QED BY <1>1, <1>2, <1>3, <1>4, <1>5 DEF IInv

\* The limit on orphans ends the call.
LEMMA TooManyOrphansKeeps ==
    ASSUME IInv, NEW t \in Threads, TooManyOrphans(t)
    PROVE  IInv'
<1> USE DEF TooManyOrphans, At, Goto, Ends, Answer, files, locks, memory, names
<1>1. TypeOK'
  BY LedgerBounds, ProcessOfAssumption DEF IInv, TypeOK, Labels, Jobs, Results, Contents
<1>2. InTheirPart' /\ Unanswered' /\ NoErrorSeen'
  BY DEF IInv, TypeOK, InTheirPart, Unanswered, NoErrorSeen, ForReaders,
         ForUpdates, Pending, Labels, Reading, None
<1>3. WriterHoldsFlock' /\ LockFileFirst'
  BY DEF IInv, TypeOK, WriterHoldsFlock, LockFileFirst, Holding, Reading, Reach
<1>4. ImagesWhole' /\ OrphansFew' /\ ErasedEverywhere'
  BY DEF IInv, TypeOK, ImagesWhole, OrphansFew, ErasedEverywhere, Reach
<1>5. Writing'
  BY OneWriter DEF IInv, TypeOK, Writing, Unpublished, Holding, Reading, NewBytes, Bytes
<1> QED BY <1>1, <1>2, <1>3, <1>4, <1>5 DEF IInv

\* Nothing but the current directory can be found after the sync.
LEMMA CleanSyncKeeps ==
    ASSUME IInv, NEW t \in Threads, CleanSync(t)
    PROVE  IInv'
<1> USE DEF CleanSync, At, Goto, SyncDirectory, locks, memory
<1>1. TypeOK'
  BY LedgerBounds, ProcessOfAssumption DEF IInv, TypeOK, Labels, Jobs, Results, Contents
<1>2. InTheirPart' /\ Unanswered' /\ NoErrorSeen'
  BY DEF IInv, TypeOK, InTheirPart, Unanswered, NoErrorSeen, ForReaders,
         ForUpdates, Pending, Labels, Reading, None
<1>3. WriterHoldsFlock' /\ LockFileFirst'
  BY DEF IInv, TypeOK, WriterHoldsFlock, LockFileFirst, Holding, Reading, Reach
<1>4. ImagesWhole' /\ OrphansFew' /\ ErasedEverywhere'
  BY DEF IInv, TypeOK, ImagesWhole, OrphansFew, ErasedEverywhere, Reach
<1>5. Writing'
  BY OneWriter DEF IInv, TypeOK, Writing, Unpublished, Holding, Reading, NewBytes, Bytes
<1> QED BY <1>1, <1>2, <1>3, <1>4, <1>5 DEF IInv

\* An orphan that is emptied is no image and nobody's temporary.
LEMMA ScrubKeeps ==
    ASSUME IInv, NEW t \in Threads, NEW n \in Inodes, Scrub(t, n)
    PROVE  IInv'
<1>1. /\ pc[t] = "clean" /\ n \in dir.temps
      /\ data' = [data EXCEPT ![n] = {}] /\ torn' = torn \ {n} /\ synced' = synced \cup {n}
      /\ UNCHANGED <<dir, disk, passed, local, flock, pc, job, saw, base, mine, result,
                     gone, faults>>
  BY DEF Scrub, MayClean, At, names, locks, memory
<1>2. ~Reading(t) /\ Bytes(dir)' = Bytes(dir)
  BY <1>1 DEF IInv, TypeOK, InTheirPart, ForReaders, ImagesWhole, Reach, Bytes
<1>3. \A u \in Threads : pc[u] \notin Unpublished \cup {"sync_dir"}
  BY <1>1, <1>2, OneWriter DEF IInv, InTheirPart, ForReaders, Holding, Unpublished
<1>4. TypeOK'
  BY <1>1, LedgerBounds, ProcessOfAssumption
     DEF IInv, TypeOK, Labels, Jobs, Results, Contents
<1>5. InTheirPart' /\ Unanswered' /\ NoErrorSeen'
  BY <1>1 DEF IInv, TypeOK, InTheirPart, Unanswered, NoErrorSeen, ForReaders,
         ForUpdates, Pending, Labels, Reading, None
<1>6. WriterHoldsFlock' /\ LockFileFirst'
  BY <1>1 DEF IInv, TypeOK, WriterHoldsFlock, LockFileFirst, Holding, Reading, Reach
<1>7. ImagesWhole' /\ OrphansFew' /\ ErasedEverywhere'
  BY <1>1 DEF IInv, TypeOK, ImagesWhole, OrphansFew, ErasedEverywhere, Reach
<1>8. Writing'
  BY <1>1, OneWriter, <1>2, <1>3
     DEF IInv, TypeOK, Writing, Unpublished, Holding, Reading, NewBytes, Bytes
<1> QED BY <1>4, <1>5, <1>6, <1>7, <1>8 DEF IInv

\* Removing an orphan leaves fewer.
LEMMA UnlinkKeeps ==
    ASSUME IInv, NEW t \in Threads, NEW n \in Inodes, Unlink(t, n)
    PROVE  IInv'
<1>1. /\ pc[t] = "clean" /\ n \in dir.temps /\ pc' = [pc EXCEPT ![t] = "clean_sync"]
      /\ passed' = passed \cup {dir}
      /\ UNCHANGED <<disk, data, torn, synced, local, flock, job, saw, base, mine,
                     result, gone, faults>>
  BY DEF Unlink, MayClean, Change, At, Goto, names, locks, memory
<1>2. /\ dir' \in Directory
      /\ dir'.lock = dir.lock /\ dir'.image = dir.image /\ dir'.temps = dir.temps \ {n}
  BY DEF Unlink, Change, IInv, TypeOK, Directory
<1>3. ~Reading(t) /\ Bytes(dir)' = Bytes(dir)
  BY <1>1, <1>2 DEF IInv, InTheirPart, ForReaders, Bytes
<1>4. \A u \in Threads : u # t =>
          pc[u] \notin {"clean", "clean_sync", "apply", "create", "sync_dir"} \cup Unpublished
  BY <1>1, <1>3, OneWriter DEF IInv, InTheirPart, ForReaders, Holding, Unpublished
<1>10. Few(dir'.temps)
  BY <1>2, FewerOrphans DEF IInv, TypeOK, Directory, OrphansFew, Reach
<1>5. TypeOK'
  BY <1>1, <1>2, LedgerBounds, ProcessOfAssumption
     DEF IInv, TypeOK, Labels, Jobs, Results, Contents
<1>6. InTheirPart' /\ Unanswered' /\ NoErrorSeen'
  BY <1>1, <1>2 DEF IInv, TypeOK, InTheirPart, Unanswered, NoErrorSeen, ForReaders,
         ForUpdates, Pending, Labels, Reading, None
<1>7. WriterHoldsFlock' /\ LockFileFirst'
  BY <1>1, <1>2 DEF IInv, TypeOK, WriterHoldsFlock, LockFileFirst, Holding, Reading, Reach
<1>8. ImagesWhole' /\ OrphansFew' /\ ErasedEverywhere'
  BY <1>1, <1>2, <1>10 DEF IInv, TypeOK, ImagesWhole, OrphansFew, ErasedEverywhere, Reach
<1>9. Writing'
  BY <1>1, <1>2, OneWriter, <1>3, <1>4
     DEF IInv, TypeOK, Writing, Unpublished, Holding, Reading, NewBytes, Bytes
<1> QED BY <1>5, <1>6, <1>7, <1>8, <1>9 DEF IInv

\* A transaction that keeps the value ends here.
LEMMA ApplyKeeps ==
    ASSUME IInv, NEW t \in Threads, Apply(t)
    PROVE  IInv'
<1>1. PICK label \in {"unlock", "create"}, r \in {result[t], [kind |-> "unchanged", seen |-> {}]} :
          /\ pc[t] = "apply" /\ pc' = [pc EXCEPT ![t] = label]
          /\ result' = [result EXCEPT ![t] = r]
          /\ label = "create" => r = result[t] /\ job[t].kind # "keep"
          /\ r.kind \notin {"corrupt", "lock_missing"}
          /\ UNCHANGED <<dir, disk, passed, data, torn, synced, local, flock, job, saw, base,
                         mine, gone, faults>>
  <2>1. result = [result EXCEPT ![t] = result[t]]
    BY DEF IInv, TypeOK
  <2>2. result[t].kind \notin {"corrupt", "lock_missing"}
    BY DEF IInv, NoErrorSeen
  <2> QED BY <2>1, <2>2 DEF Apply, At, Goto, Ends, Answer, files, names, locks, memory
<1>2. TypeOK'
  BY <1>1, LedgerBounds, ProcessOfAssumption
     DEF IInv, TypeOK, Labels, Jobs, Results, Contents
<1>3. InTheirPart' /\ Unanswered' /\ NoErrorSeen'
  BY <1>1, KindsOfCall DEF IInv, TypeOK, InTheirPart, Unanswered, NoErrorSeen, ForReaders,
         ForUpdates, Pending, Labels, Reading, None, Jobs
<1>4. WriterHoldsFlock' /\ LockFileFirst'
  BY <1>1 DEF IInv, TypeOK, WriterHoldsFlock, LockFileFirst, Holding, Reading, Reach
<1>5. ImagesWhole' /\ OrphansFew' /\ ErasedEverywhere'
  BY <1>1 DEF IInv, TypeOK, ImagesWhole, OrphansFew, ErasedEverywhere, Reach
<1>6. Writing'
  BY <1>1, OneWriter
     DEF IInv, TypeOK, Writing, Unpublished, Holding, Reading, NewBytes, Bytes
<1> QED BY <1>2, <1>3, <1>4, <1>5, <1>6 DEF IInv

\* The temporary image is a new file, the only temporary, and holds no erased item.
LEMMA CreateTempKeeps ==
    ASSUME IInv, NEW t \in Threads, CreateTemp(t)
    PROVE  IInv'
<1>1. PICK n \in Inodes \ InUse :
          /\ Change([dir EXCEPT !.temps = @ \cup {n}])
          /\ data' = [data EXCEPT ![n] = NewBytes(t)]
          /\ torn' = torn \cup {n} /\ synced' = synced \ {n}
          /\ mine' = [mine EXCEPT ![t] = n]
  BY DEF CreateTemp
<1>2. /\ pc[t] = "create" /\ pc' = [pc EXCEPT ![t] = "write"]
      /\ gone' = IF job[t].kind = "put" THEN gone \ {job[t].item} ELSE gone
      /\ passed' = passed \cup {dir}
      /\ UNCHANGED <<disk, local, flock, job, saw, base, result, faults>>
  BY <1>1 DEF CreateTemp, At, Goto, Change, locks
<1>3. ~Reading(t) /\ dir.temps = {} /\ base[t] = Bytes(dir) /\ NewBytes(t) \in Contents
  <2>1. ~Reading(t) /\ dir.temps = {} /\ base[t] = Bytes(dir)
    BY <1>2 DEF IInv, Writing
  <2>2. base[t] \in SUBSET Items /\ job[t].item \in Items
    BY DEF IInv, TypeOK, Jobs, Contents
  <2> QED BY <2>1, <2>2 DEF NewBytes, Contents
<1>4. /\ dir' \in Directory
      /\ dir'.lock = dir.lock /\ dir'.image = dir.image /\ dir'.temps = {n}
  BY <1>1, <1>3 DEF Change, IInv, TypeOK, Directory
<1>5. \A d \in Reach : n \notin d.temps /\ n # d.image
  BY <1>1 DEF InUse, Reach
<1>6. Bytes(dir)' = Bytes(dir)
  BY <1>1, <1>4, <1>5 DEF Bytes, Reach, IInv, TypeOK, Directory
<1>7. \A u \in Threads : u # t => pc[u] \notin
          {"clean", "clean_sync", "apply", "create", "sync_dir"} \cup Unpublished
  BY <1>2, <1>3, OneWriter DEF IInv, InTheirPart, ForReaders, Holding, Unpublished
<1>8. TypeOK'
  BY <1>1, <1>2, <1>3, <1>4 DEF IInv, TypeOK, Labels
<1>9. InTheirPart' /\ Unanswered' /\ NoErrorSeen'
  BY <1>2, <1>3 DEF IInv, TypeOK, InTheirPart, Unanswered, NoErrorSeen, ForReaders,
         ForUpdates, Pending, Labels, Reading
<1>10. WriterHoldsFlock' /\ LockFileFirst'
  BY <1>2, <1>4 DEF IInv, TypeOK, WriterHoldsFlock, LockFileFirst, Holding, Reading, Reach
<1>11. ImagesWhole'
  BY <1>1, <1>2, <1>4, <1>5, DistinctNames DEF IInv, TypeOK, Directory, ImagesWhole, Reach
<1>12. OrphansFew'
  BY <1>2, <1>4, OneOrphan DEF IInv, OrphansFew, Reach
<1>13. \A x \in gone' : x \in gone /\ x \notin NewBytes(t)
  <2>1. \A x \in gone : x \notin Bytes(dir)
    BY ImageReadable DEF IInv, ErasedEverywhere, Reach, Bytes
  <2> QED BY <1>2, <1>3, <2>1 DEF NewBytes
<1>14. ErasedEverywhere'
  BY <1>1, <1>2, <1>4, <1>5, <1>13 DEF IInv, TypeOK, Directory, ErasedEverywhere, Reach
<1>15. Writing'
  <2>1. NewBytes(t)' = NewBytes(t)
    BY <1>2 DEF NewBytes
  <2>2. data'[n] = NewBytes(t) /\ mine'[t] = n /\ ~Reading(t)'
    BY <1>1, <1>2, <1>3 DEF IInv, TypeOK, Reading
  <2> QED BY <1>1, <1>2, <1>3, <1>4, <1>6, <1>7, <2>1, <2>2
      DEF IInv, TypeOK, Writing, Unpublished
<1> QED BY <1>8, <1>9, <1>10, <1>11, <1>12, <1>14, <1>15 DEF IInv

\* Once written, the temporary image is not torn.
LEMMA WriteTempKeeps ==
    ASSUME IInv, NEW t \in Threads, WriteTemp(t)
    PROVE  IInv'
<1> USE DEF WriteTemp, At, Goto, names, locks, memory
<1>1. TypeOK'
  BY LedgerBounds, ProcessOfAssumption DEF IInv, TypeOK, Labels, Jobs, Results, Contents
<1>2. InTheirPart' /\ Unanswered' /\ NoErrorSeen'
  BY DEF IInv, TypeOK, InTheirPart, Unanswered, NoErrorSeen, ForReaders,
         ForUpdates, Pending, Labels, Reading, None
<1>3. WriterHoldsFlock' /\ LockFileFirst'
  BY DEF IInv, TypeOK, WriterHoldsFlock, LockFileFirst, Holding, Reading, Reach
<1>4. ImagesWhole' /\ OrphansFew' /\ ErasedEverywhere'
  BY DEF IInv, TypeOK, ImagesWhole, OrphansFew, ErasedEverywhere, Reach
<1>5. Writing'
  <2>1. ~Reading(t) /\ dir.temps = {mine[t]} /\ mine[t] # dir.image
    BY DistinctNames DEF IInv, Writing, Unpublished, ImagesWhole, Reach
  <2>2. \A u \in Threads : u # t => pc[u] \notin
             {"clean", "clean_sync", "apply", "create", "sync_dir"} \cup Unpublished
    BY <2>1, OneWriter DEF IInv, InTheirPart, ForReaders, Holding, Unpublished
  <2>3. Bytes(dir)' = Bytes(dir) /\ NewBytes(t)' = NewBytes(t) /\ ~Reading(t)'
    BY <2>1 DEF Bytes, NewBytes, Reading
  <2> QED BY <2>2, <2>3 DEF IInv, TypeOK, Writing, Unpublished
<1> QED BY <1>1, <1>2, <1>3, <1>4, <1>5 DEF IInv

\* Once synced, the temporary image is on disk.
LEMMA SyncTempKeeps ==
    ASSUME IInv, NEW t \in Threads, SyncTemp(t)
    PROVE  IInv'
<1> USE DEF SyncTemp, At, Goto, names, locks, memory
<1>1. TypeOK'
  <2>1. mine[t] \in Inodes
    BY DEF IInv, Writing, Unpublished
  <2> QED BY <2>1 DEF IInv, TypeOK, Labels
<1>2. InTheirPart' /\ Unanswered' /\ NoErrorSeen'
  BY DEF IInv, TypeOK, InTheirPart, Unanswered, NoErrorSeen, ForReaders,
         ForUpdates, Pending, Labels, Reading, None
<1>3. WriterHoldsFlock' /\ LockFileFirst'
  BY DEF IInv, TypeOK, WriterHoldsFlock, LockFileFirst, Holding, Reading, Reach
<1>4. ImagesWhole' /\ OrphansFew' /\ ErasedEverywhere'
  BY DEF IInv, TypeOK, ImagesWhole, OrphansFew, ErasedEverywhere, Reach
<1>5. Writing'
  BY OneWriter DEF IInv, TypeOK, Writing, Unpublished, Holding, Reading, NewBytes, Bytes
<1> QED BY <1>1, <1>2, <1>3, <1>4, <1>5 DEF IInv

\* The temporary image that becomes the image is whole and on disk.
LEMMA ReplaceKeeps ==
    ASSUME IInv, NEW t \in Threads, Replace(t)
    PROVE  IInv'
<1>1. /\ pc[t] = "replace" /\ pc' = [pc EXCEPT ![t] = "sync_dir"]
      /\ passed' = passed \cup {dir}
      /\ UNCHANGED <<disk, data, torn, synced, local, flock, job, saw, base, mine, result,
                     gone, faults>>
  BY DEF Replace, At, Goto, Change, locks, memory
<1>2. /\ ~Reading(t) /\ dir.temps = {mine[t]} /\ mine[t] \in Inodes /\ dir.lock
      /\ mine[t] \in synced /\ mine[t] \notin torn /\ data[mine[t]] = NewBytes(t)
  BY <1>1 DEF IInv, Writing, Unpublished, LockFileFirst, Holding
<1>3. /\ dir' \in Directory
      /\ dir'.lock /\ dir'.image = mine[t] /\ dir'.temps = {}
  BY <1>2 DEF Replace, Change, IInv, TypeOK, Directory
<1>4. \A u \in Threads : u # t => pc[u] \notin
          {"clean", "clean_sync", "apply", "create", "sync_dir"} \cup Unpublished
  BY <1>1, <1>2, OneWriter DEF IInv, InTheirPart, ForReaders, Holding, Unpublished
<1>5. TypeOK'
  BY <1>1, <1>3 DEF IInv, TypeOK, Labels
<1>6. InTheirPart' /\ Unanswered' /\ NoErrorSeen'
  BY <1>1, <1>2 DEF IInv, TypeOK, InTheirPart, Unanswered, NoErrorSeen, ForReaders,
         ForUpdates, Pending, Labels, Reading
<1>7. WriterHoldsFlock' /\ LockFileFirst'
  BY <1>1, <1>2, <1>3
     DEF IInv, TypeOK, WriterHoldsFlock, LockFileFirst, Holding, Reading, Reach
<1>8. ImagesWhole'
  BY <1>1, <1>2, <1>3 DEF IInv, ImagesWhole, Reach
<1>9. OrphansFew'
  BY <1>1, <1>3, OneOrphan DEF IInv, OrphansFew, Reach
<1>10. ErasedEverywhere'
  <2>1. dir'.temps \cup {dir'.image} \subseteq dir.temps \cup {dir.image}
    BY <1>2, <1>3
  <2> QED BY <1>1, <2>1 DEF IInv, ErasedEverywhere, Reach
<1>11. Writing'
  <2>1. NewBytes(t)' = NewBytes(t) /\ ~Reading(t)'
    BY <1>1, <1>2 DEF NewBytes, Reading
  <2> QED BY <1>1, <1>2, <1>3, <1>4, <2>1 DEF IInv, TypeOK, Writing, Unpublished
<1> QED BY <1>5, <1>6, <1>7, <1>8, <1>9, <1>10, <1>11 DEF IInv

\* An erasure is answered when only the new image can be found.
LEMMA SyncDirKeeps ==
    ASSUME IInv, NEW t \in Threads, SyncDir(t)
    PROVE  IInv'
<1> USE DEF SyncDir, At, Goto, Ends, SyncDirectory, Answer, locks, memory
<1>1. TypeOK'
  BY LedgerBounds, ProcessOfAssumption DEF IInv, TypeOK, Labels, Jobs, Results, Contents
<1>2. InTheirPart' /\ Unanswered' /\ NoErrorSeen'
  BY DEF IInv, TypeOK, InTheirPart, Unanswered, NoErrorSeen, ForReaders,
         ForUpdates, Pending, Labels, Reading, None
<1>3. WriterHoldsFlock' /\ LockFileFirst'
  BY DEF IInv, TypeOK, WriterHoldsFlock, LockFileFirst, Holding, Reading, Reach
<1>4. ImagesWhole' /\ OrphansFew' /\ ErasedEverywhere'
  <2>1. /\ Reach' = {dir} /\ Reach' \subseteq Reach /\ dir' = dir
    BY DEF Reach
  <2>2. ImagesWhole' /\ OrphansFew'
    BY <2>1 DEF IInv, ImagesWhole, OrphansFew
  <2>3. dir.temps = {} /\ dir.image = mine[t] /\ data[dir.image] = NewBytes(t)
    BY DEF IInv, Writing
  <2>4. job[t].kind = "erase" => job[t].item \notin NewBytes(t)
    BY DEF NewBytes
  <2> QED BY <2>1, <2>2, <2>3, <2>4 DEF IInv, ErasedEverywhere, Reach
<1>5. Writing'
  BY OneWriter DEF IInv, TypeOK, Writing, Unpublished, Holding, Reading, NewBytes, Bytes
<1> QED BY <1>1, <1>2, <1>3, <1>4, <1>5 DEF IInv

\* Removing the temporary image, or failing to, leaves the image alone.
LEMMA UndoKeeps ==
    ASSUME IInv, NEW t \in Threads, Undo(t)
    PROVE  IInv'
<1>1. /\ pc[t] = "undo" /\ pc' = [pc EXCEPT ![t] = "unlock"]
      /\ result' = [result EXCEPT ![t] = [kind |-> "failed", seen |-> {}]]
      /\ UNCHANGED <<data, torn, synced, local, flock, job, saw, base, mine, gone>>
  BY DEF Undo, At, Goto, Ends, Answer, locks, memory
<1>2. /\ dir' \in Directory /\ passed' \subseteq passed \cup {dir} /\ disk' = disk
      /\ dir'.lock = dir.lock /\ dir'.image = dir.image /\ dir'.temps \subseteq dir.temps
  BY DEF Undo, Change, names, IInv, TypeOK, Directory
<1>3. ~Reading(t) /\ Bytes(dir)' = Bytes(dir)
  BY <1>1, <1>2 DEF IInv, InTheirPart, ForReaders, Bytes
<1>4. \A u \in Threads : u # t => pc[u] \notin
          {"clean", "clean_sync", "apply", "create", "sync_dir"} \cup Unpublished
  BY <1>1, <1>3, OneWriter DEF IInv, InTheirPart, ForReaders, Holding, Unpublished
<1>5. Few(dir'.temps)
  BY <1>2, FewerOrphans DEF IInv, TypeOK, Directory, OrphansFew, Reach
<1>6. faults' \in 0 .. MaxFaults
  BY LedgerBounds DEF Undo, Fault, IInv, TypeOK
<1>7. TypeOK'
  BY <1>1, <1>2, LedgerBounds, ProcessOfAssumption, <1>6
     DEF IInv, TypeOK, Labels, Jobs, Results, Contents
<1>8. InTheirPart' /\ Unanswered' /\ NoErrorSeen'
  BY <1>1, <1>2 DEF IInv, TypeOK, InTheirPart, Unanswered, NoErrorSeen, ForReaders,
         ForUpdates, Pending, Labels, Reading, None
<1>9. WriterHoldsFlock' /\ LockFileFirst'
  BY <1>1, <1>2 DEF IInv, TypeOK, WriterHoldsFlock, LockFileFirst, Holding, Reading, Reach
<1>10. ImagesWhole' /\ OrphansFew' /\ ErasedEverywhere'
  BY <1>1, <1>2, <1>5 DEF IInv, TypeOK, ImagesWhole, OrphansFew, ErasedEverywhere, Reach
<1>11. Writing'
  BY <1>1, <1>2, OneWriter, <1>3, <1>4
     DEF IInv, TypeOK, Writing, Unpublished, Holding, Reading, NewBytes, Bytes
<1> QED BY <1>7, <1>8, <1>9, <1>10, <1>11 DEF IInv

\* Letting go of the flock changes no file.
LEMMA UnlockKeeps ==
    ASSUME IInv, NEW t \in Threads, Unlock(t)
    PROVE  IInv'
<1> USE DEF Unlock, At, Goto, files, memory, names
<1>1. TypeOK'
  BY LedgerBounds, ProcessOfAssumption DEF IInv, TypeOK, Labels, Jobs, Results, Contents
<1>2. InTheirPart' /\ Unanswered' /\ NoErrorSeen'
  BY DEF IInv, TypeOK, InTheirPart, Unanswered, NoErrorSeen, ForReaders,
         ForUpdates, Pending, Labels, Reading, None
<1>3. WriterHoldsFlock' /\ LockFileFirst'
  BY DEF IInv, TypeOK, WriterHoldsFlock, LockFileFirst, Holding, Reading, Reach
<1>4. ImagesWhole' /\ OrphansFew' /\ ErasedEverywhere'
  BY DEF IInv, TypeOK, ImagesWhole, OrphansFew, ErasedEverywhere, Reach
<1>5. Writing'
  BY OneWriter DEF IInv, TypeOK, Writing, Unpublished, Holding, Reading, NewBytes, Bytes
<1> QED BY <1>1, <1>2, <1>3, <1>4, <1>5 DEF IInv

\* Letting go of the process's lock changes no file.
LEMMA LeaveKeeps ==
    ASSUME IInv, NEW t \in Threads, Leave(t)
    PROVE  IInv'
<1> USE DEF Leave, At, Goto, files, names
<1>1. TypeOK'
  BY LedgerBounds, ProcessOfAssumption DEF IInv, TypeOK, Labels, Jobs, Results, Contents
<1>2. InTheirPart' /\ Unanswered' /\ NoErrorSeen'
  BY DEF IInv, TypeOK, InTheirPart, Unanswered, NoErrorSeen, ForReaders,
         ForUpdates, Pending, Labels, Reading, None
<1>3. WriterHoldsFlock' /\ LockFileFirst'
  BY DEF IInv, TypeOK, WriterHoldsFlock, LockFileFirst, Holding, Reading, Reach
<1>4. ImagesWhole' /\ OrphansFew' /\ ErasedEverywhere'
  BY DEF IInv, TypeOK, ImagesWhole, OrphansFew, ErasedEverywhere, Reach
<1>5. Writing'
  BY OneWriter DEF IInv, TypeOK, Writing, Unpublished, Holding, Reading, NewBytes, Bytes
<1> QED BY <1>1, <1>2, <1>3, <1>4, <1>5 DEF IInv

\* An error while persisting changes no file by itself.
LEMMA PersistFailsKeeps ==
    ASSUME IInv, NEW t \in Threads, PersistFails(t)
    PROVE  IInv'
<1> USE DEF PersistFails, Goto, Fault, files, locks, memory, names
<1>1. TypeOK'
  BY LedgerBounds, ProcessOfAssumption DEF IInv, TypeOK, Labels, Jobs, Results, Contents
<1>2. InTheirPart' /\ Unanswered' /\ NoErrorSeen'
  BY DEF IInv, TypeOK, InTheirPart, Unanswered, NoErrorSeen, ForReaders,
         ForUpdates, Pending, Labels, Reading, None
<1>3. WriterHoldsFlock' /\ LockFileFirst'
  BY DEF IInv, TypeOK, WriterHoldsFlock, LockFileFirst, Holding, Reading, Reach
<1>4. ImagesWhole' /\ OrphansFew' /\ ErasedEverywhere'
  BY DEF IInv, TypeOK, ImagesWhole, OrphansFew, ErasedEverywhere, Reach
<1>5. Writing'
  BY OneWriter DEF IInv, TypeOK, Writing, Unpublished, Holding, Reading, NewBytes, Bytes
<1> QED BY <1>1, <1>2, <1>3, <1>4, <1>5 DEF IInv

\* An error before the temporary image exists changes no file.
LEMMA FailsEarlyKeeps ==
    ASSUME IInv, NEW t \in Threads, FailsEarly(t)
    PROVE  IInv'
<1> USE DEF FailsEarly, Goto, Ends, Fault, Answer, files, locks, memory, names
<1>1. TypeOK'
  BY LedgerBounds, ProcessOfAssumption DEF IInv, TypeOK, Labels, Jobs, Results, Contents
<1>2. InTheirPart' /\ Unanswered' /\ NoErrorSeen'
  BY DEF IInv, TypeOK, InTheirPart, Unanswered, NoErrorSeen, ForReaders,
         ForUpdates, Pending, Labels, Reading, None
<1>3. WriterHoldsFlock' /\ LockFileFirst'
  BY DEF IInv, TypeOK, WriterHoldsFlock, LockFileFirst, Holding, Reading, Reach
<1>4. ImagesWhole' /\ OrphansFew' /\ ErasedEverywhere'
  BY DEF IInv, TypeOK, ImagesWhole, OrphansFew, ErasedEverywhere, Reach
<1>5. Writing'
  BY OneWriter DEF IInv, TypeOK, Writing, Unpublished, Holding, Reading, NewBytes, Bytes
<1> QED BY <1>1, <1>2, <1>3, <1>4, <1>5 DEF IInv


-----------------------------------------------------------------------------
(* Crashes *)

\* What a set of threads that dies leaves of the threads.
LEMMA DiesKeeps ==
    ASSUME IInv, NEW dead \in SUBSET Threads, Dies(dead)
    PROVE  /\ local' \in [Processes -> Threads \cup {Nobody}]
           /\ flock' \in [exclusive : Threads \cup {Nobody}, shared : SUBSET Threads]
           /\ pc' \in [Threads -> Labels] /\ job' \in [Threads -> Jobs]
           /\ saw' \in [Threads -> BOOLEAN] /\ base' \in [Threads -> Contents]
           /\ mine' \in [Threads -> Inodes \cup {Absent}]
           /\ result' \in [Threads -> Results] /\ gone' \subseteq Items
           /\ InTheirPart' /\ Unanswered' /\ NoErrorSeen' /\ WriterHoldsFlock'
<1>1. /\ local' \in [Processes -> Threads \cup {Nobody}]
      /\ flock' \in [exclusive : Threads \cup {Nobody}, shared : SUBSET Threads]
  BY DEF IInv, TypeOK, Dies
<1>2. /\ pc' \in [Threads -> Labels] /\ job' \in [Threads -> Jobs]
      /\ saw' \in [Threads -> BOOLEAN] /\ gone' \subseteq Items
  BY DEF IInv, TypeOK, Dies, Labels
<1>3. /\ base' \in [Threads -> Contents] /\ mine' \in [Threads -> Inodes \cup {Absent}]
      /\ result' \in [Threads -> Results]
  BY DEF IInv, TypeOK, Dies, Contents, Results, None
<1>4. InTheirPart' /\ Unanswered' /\ NoErrorSeen'
  BY DEF IInv, TypeOK, Dies, InTheirPart, Unanswered, NoErrorSeen, ForReaders, ForUpdates,
         Pending, Labels, Reading, None
<1>5. WriterHoldsFlock'
  BY DEF IInv, TypeOK, Dies, WriterHoldsFlock, Holding, Reading
<1> QED BY <1>1, <1>2, <1>3, <1>4, <1>5

\* A process that dies leaves its files; the kernel drops its locks.
LEMMA ProcessCrashKeeps == ASSUME IInv, NEW p \in Processes, ProcessCrash(p) PROVE IInv'
<1> DEFINE dead == {t \in Threads : ProcessOf[t] = p}
<1>1. /\ Dies(dead) /\ dead \in SUBSET Threads
      /\ UNCHANGED <<dir, disk, passed, data, torn, synced>>
      /\ faults < MaxFaults /\ faults' = faults + 1
  BY DEF ProcessCrash, Fault, files, names
<1> HIDE DEF dead
<1>2. TypeOK'
  BY <1>1, DiesKeeps, LedgerBounds DEF IInv, TypeOK
<1>3. \A t \in Threads :
          /\ t \notin dead => pc'[t] = pc[t] /\ base'[t] = base[t] /\ mine'[t] = mine[t]
          /\ t \in dead => pc'[t] = "idle"
  BY <1>1 DEF Dies
<1>4. /\ \A t \in Threads : saw'[t] => saw[t]
      /\ job' = job /\ gone' = gone
  BY <1>1 DEF Dies
<1>5. LockFileFirst'
  BY <1>1, <1>3, <1>4 DEF IInv, LockFileFirst, Holding, Reading, Reach
<1>6. ImagesWhole' /\ OrphansFew' /\ ErasedEverywhere'
  BY <1>1, <1>4 DEF IInv, ImagesWhole, OrphansFew, ErasedEverywhere, Reach
<1>7. Writing'
  <2>1. Bytes(dir)' = Bytes(dir) /\ \A t \in Threads : Reading(t)' = Reading(t)
    BY <1>1, <1>4 DEF Bytes, Reading
  <2>2. \A t \in Threads : t \notin dead => NewBytes(t)' = NewBytes(t)
    BY <1>3, <1>4 DEF NewBytes
  <2> QED BY <1>1, <1>3, <2>1, <2>2 DEF IInv, Writing, Unpublished
<1> QED BY <1>1, <1>2, <1>5, <1>6, <1>7, DiesKeeps DEF IInv

\* After a power loss the directory is one that could be found.
LEMMA PowerLossKeeps == ASSUME IInv, PowerLoss PROVE IInv'
<1>1. PICK d \in Reach : dir' = d /\ disk' = d
  BY DEF PowerLoss, Reach
<1>2. /\ passed' = {} /\ torn' = torn \cup (Inodes \ synced) /\ Dies(Threads)
      /\ data' = data /\ synced' = synced /\ faults < MaxFaults /\ faults' = faults + 1
  BY DEF PowerLoss, Fault
<1>3. d \in Directory
  BY DEF IInv, TypeOK, Reach
<1>4. TypeOK'
  BY <1>1, <1>2, <1>3, DiesKeeps, LedgerBounds DEF IInv, TypeOK
<1>5. \A t \in Threads : pc'[t] = "idle" /\ saw'[t] = FALSE
  BY <1>2 DEF Dies
<1>6. Reach' = {d} /\ gone' = gone
  BY <1>1, <1>2 DEF Reach, Dies
<1>7. LockFileFirst'
  BY <1>5, <1>6 DEF IInv, LockFileFirst, Holding
<1>8. ImagesWhole'
  BY <1>1, <1>2, <1>3, <1>6, DistinctNames DEF IInv, ImagesWhole, Directory
<1>9. OrphansFew' /\ ErasedEverywhere'
  BY <1>2, <1>6 DEF IInv, OrphansFew, ErasedEverywhere, Reach
<1>10. Writing'
  BY <1>5 DEF Writing, Unpublished
<1> QED BY <1>2, <1>4, <1>7, <1>8, <1>9, <1>10, DiesKeeps DEF IInv

\* A step of something else keeps the invariant.
LEMMA StutterKeeps == ASSUME IInv, UNCHANGED vars PROVE IInv'
<1>1. TypeOK' /\ InTheirPart' /\ Unanswered' /\ NoErrorSeen'
  BY DEF IInv, vars, TypeOK, InTheirPart, Unanswered, NoErrorSeen, Reading
<1>2. WriterHoldsFlock' /\ LockFileFirst'
  BY DEF IInv, vars, WriterHoldsFlock, LockFileFirst, Reading, Reach
<1>3. ImagesWhole' /\ OrphansFew' /\ ErasedEverywhere'
  BY DEF IInv, vars, ImagesWhole, OrphansFew, ErasedEverywhere, Reach
<1>4. Writing'
  BY DEF IInv, vars, Writing, Unpublished, Reading, NewBytes, Bytes
<1> QED BY <1>1, <1>2, <1>3, <1>4 DEF IInv

-----------------------------------------------------------------------------
(* The ledger file is safe *)

\* The ledger starts without an image, perhaps with leftovers.
LEMMA InitHolds == Init => IInv
<1> SUFFICES ASSUME Init PROVE IInv
  OBVIOUS
<1>1. PICK left \in SUBSET Inodes :
          /\ Cardinality(left) <= Leftovers
          /\ dir = [lock |-> FALSE, image |-> Absent, temps |-> left]
          /\ data = [n \in Inodes |-> IF n \in left THEN Items ELSE {}]
          /\ synced = left
  BY DEF Init
<1>2. Reach = {dir}
  BY DEF Init, Reach
<1>3. PICK x \in Items : job = [t \in Threads |-> [kind |-> "read", item |-> x]]
  BY DEF Init
<1>4. dir \in Directory /\ data \in [Inodes -> Contents]
  BY <1>1 DEF Directory, Contents
<1>5. job \in [Threads -> Jobs] /\ result \in [Threads -> Results]
  BY <1>3, KindsOfCall DEF Init, Jobs, Results, None, Contents
<1>6. TypeOK
  BY <1>1, <1>4, <1>5, LedgerBounds DEF Init, TypeOK, Labels, Contents
<1>7. InTheirPart /\ Unanswered /\ NoErrorSeen
  BY <1>3
     DEF Init, InTheirPart, ForReaders, ForUpdates, Unanswered, Pending, NoErrorSeen, None
<1>8. WriterHoldsFlock /\ LockFileFirst /\ ImagesWhole /\ Writing /\ ErasedEverywhere
  BY <1>1, <1>2 DEF Init, WriterHoldsFlock, Holding, LockFileFirst, ImagesWhole, Writing,
                    Unpublished, ErasedEverywhere
<1>9. OrphansFew
  <2>1. IsFiniteSet(left) /\ Cardinality(left) \in Nat
    BY DiskIsFinite, FS_Subset, FS_CardinalityType
  <2> QED BY <1>1, <1>2, <2>1, LedgerBounds DEF OrphansFew, Few
<1> QED BY <1>6, <1>7, <1>8, <1>9 DEF IInv

\* Every step keeps the invariant.
LEMMA StepKeeps == IInv /\ [Next]_vars => IInv'
<1> SUFFICES ASSUME IInv, [Next]_vars PROVE IInv'
  OBVIOUS
<1>1. ASSUME NEW t \in Threads, NEW j \in Jobs, Enter(t, j) PROVE IInv'
  BY <1>1, EnterKeeps
<1>2. ASSUME NEW t \in Threads, Proceed(t) PROVE IInv'
  <2>1. CASE StatImage(t) \/ StatLock(t) \/ OpenLock(t) \/ Flock(t) \/ FlockTimeout(t)
             \/ Load(t)
    BY <2>1, StatImageKeeps, StatLockKeeps, OpenLockKeeps, FlockKeeps, FlockTimeoutKeeps,
       LoadKeeps
  <2>2. CASE CleanDone(t) \/ TooManyOrphans(t) \/ CleanSync(t)
             \/ \E n \in Inodes : Scrub(t, n) \/ Unlink(t, n)
    BY <2>2, CleanDoneKeeps, TooManyOrphansKeeps, CleanSyncKeeps, ScrubKeeps, UnlinkKeeps
  <2>3. CASE Apply(t) \/ CreateTemp(t) \/ WriteTemp(t) \/ SyncTemp(t) \/ Replace(t)
             \/ SyncDir(t)
    BY <2>3, ApplyKeeps, CreateTempKeeps, WriteTempKeeps, SyncTempKeeps, ReplaceKeeps,
       SyncDirKeeps
  <2>4. CASE Undo(t) \/ Unlock(t) \/ Leave(t)
    BY <2>4, UndoKeeps, UnlockKeeps, LeaveKeeps
  <2> QED BY <1>2, <2>1, <2>2, <2>3, <2>4 DEF Proceed
<1>3. ASSUME NEW t \in Threads, PersistFails(t) \/ FailsEarly(t) PROVE IInv'
  BY <1>3, PersistFailsKeeps, FailsEarlyKeeps
<1>4. ASSUME NEW p \in Processes, ProcessCrash(p) PROVE IInv'
  BY <1>4, ProcessCrashKeeps
<1> QED BY <1>1, <1>2, <1>3, <1>4, PowerLossKeeps, StutterKeeps DEF Next

\* The inductive invariant: what the files, the locks and the threads have to
\* do with each other at every moment.
THEOREM Invariance == Spec => []IInv
BY InitHolds, StepKeeps, PTL DEF Spec

\* memory.py `_persist_snapshot`: whatever crashes or loses power when, the
\* image is whole, and no call ever reports it corrupt.
THEOREM ImageSafe == Spec => []ImageNeverTorn
<1>1. IInv => ImageNeverTorn
  BY ImageReadable DEF IInv, NoErrorSeen, ImageNeverTorn
<1> QED BY <1>1, Invariance, PTL

\* memory.py `_cleanup_orphan_temps`: temporary images never pile up towards
\* the limit that locks everyone out, however many writers crash.
THEOREM OrphansBounded == Spec => []AtMostOneTemp
<1>1. IInv => AtMostOneTemp
  BY DEF IInv, OrphansFew, Reach, Few, AtMostOneTemp
<1> QED BY <1>1, Invariance, PTL

\* memory.py `_read_image_bytes`: a first write by another process between the
\* two lookups never makes the missing-lock error appear.
THEOREM NoAlarm == Spec => []NoFalseAlarm
<1>1. IInv => NoFalseAlarm
  BY DEF IInv, NoErrorSeen, NoFalseAlarm
<1> QED BY <1>1, Invariance, PTL

\* memory.py `delete` and `forget_scope`: an erasure answered "saved" holds in
\* every file that exists or that a power loss could bring back.
THEOREM ErasureDurable == Spec => []ErasedEverywhere
<1>1. IInv => ErasedEverywhere
  BY DEF IInv
<1> QED BY <1>1, Invariance, PTL

-----------------------------------------------------------------------------
(* The file protocol implements AtomicLedger *)

\* The abstract state, as the refinement mapping defines it.
Value == Bytes(dir)
Possible == {Bytes(d) : d \in passed \cup {dir, disk}}
Did == {t \in Threads : At(t, "sync_dir")}
AbstractStep == [Abstract!Next]_(Abstract!vars)

\* Where no image changes, the abstract value and what a power loss may leave
\* do not change either.
LEMMA SameImages ==
    ASSUME \A d \in Reach : Bytes(d)' = Bytes(d),
           disk' = disk, passed \subseteq passed', passed' \subseteq passed \cup {dir},
           dir' # dir => dir \in passed',
           Bytes(dir)' = Bytes(dir)
    PROVE  Value' = Value /\ Possible' = Possible
BY DEF Reach, Value, Possible

\* Who has published an update: a step of t moves only t.
LEMMA DidMoves ==
    ASSUME IInv, NEW t \in Threads, NEW label \in Labels, pc' = [pc EXCEPT ![t] = label]
    PROVE  Did' = IF label = "sync_dir" THEN Did \cup {t} ELSE Did \ {t}
BY DEF IInv, TypeOK, Did, At

\* A step that changes neither the abstract state nor a call is a stutter.
LEMMA Stutters ==
    ASSUME Value' = Value, Possible' = Possible, Did' = Did, job' = job, result' = result
    PROVE  AbstractStep
BY DEF AbstractStep, Abstract!vars, Value, Possible, Did

\* A call begins.
LEMMA EnterSimulates ==
    ASSUME IInv, NEW t \in Threads, NEW j \in Jobs, Enter(t, j)
    PROVE  AbstractStep
<1>1. /\ pc[t] = "idle" /\ pc' = [pc EXCEPT ![t] = "stat_image"]
      /\ job' = [job EXCEPT ![t] = j]
      /\ result' = [result EXCEPT ![t] = [kind |-> "none", seen |-> {}]]
      /\ UNCHANGED <<dir, disk, passed, data, torn>>
  BY DEF Enter, At, Goto, Ends, Answer, files, names
<1>2. Value' = Value /\ Possible' = Possible
  BY <1>1, SameImages DEF Bytes
<1>3. t \notin Did /\ Did' = Did
  BY <1>1, DidMoves DEF Labels, Did, At
<1>4. j \in Abstract!Jobs
  BY KindsOfCall DEF Jobs, Abstract!Jobs
<1>5. Abstract!Begin(t)
  BY <1>1, <1>2, <1>3, <1>4 DEF Abstract!Begin, Abstract!Answer, Value, Possible, Did
<1> QED BY <1>5 DEF AbstractStep, Abstract!Next

\* A reader that finds no image reads the empty value.
LEMMA StatImageSimulates ==
    ASSUME IInv, NEW t \in Threads, StatImage(t)
    PROVE  AbstractStep
<1>1. pc[t] = "stat_image" /\ UNCHANGED <<dir, disk, passed, data, torn, job>>
  BY DEF StatImage, At, files, names
<1>2. Value' = Value /\ Possible' = Possible
  BY <1>1, SameImages DEF Bytes
<1>3. CASE Reading(t) /\ dir.image = Absent
  <2>1. /\ pc' = [pc EXCEPT ![t] = "leave"]
        /\ result' = [result EXCEPT ![t] = [kind |-> "read", seen |-> {}]]
    BY <1>3 DEF StatImage, Goto, Answer
  <2>2. t \notin Did /\ Did' = Did
    BY <1>1, <2>1, DidMoves DEF Labels, Did, At
  <2>3. Value = {}
    BY <1>3 DEF Value, Bytes
  <2>4. Abstract!Read(t)
    BY <1>1, <1>2, <1>3, <2>1, <2>2, <2>3
    DEF Abstract!Read, Abstract!Answer, Reading, Value, Possible, Did
  <2> QED BY <2>4 DEF AbstractStep, Abstract!Next
<1>4. CASE ~(Reading(t) /\ dir.image = Absent)
  <2>1. pc' = [pc EXCEPT ![t] = "stat_lock"] /\ result' = result
    BY <1>4 DEF StatImage, Goto
  <2>2. t \notin Did /\ Did' = Did
    BY <1>1, <2>1, DidMoves DEF Labels, Did, At
  <2> QED BY <1>1, <1>2, <2>1, <2>2, Stutters
<1> QED BY <1>3, <1>4

\* The steps that neither touch a file nor answer.
LEMMA QuietSimulates ==
    ASSUME IInv, NEW t \in Threads,
           StatLock(t) \/ Flock(t) \/ CleanDone(t) \/ Unlock(t) \/ Leave(t)
    PROVE  AbstractStep
<1>1. UNCHANGED <<dir, disk, passed, data, torn, job>> /\ pc[t] # "sync_dir"
  BY DEF StatLock, Flock, CleanDone, Unlock, Leave, At, files, names
<1>2. result' = result
  BY DEF IInv, LockFileFirst, StatLock, Flock, CleanDone, Unlock, Leave
<1>3. \E label \in Labels \ {"sync_dir"} : pc' = [pc EXCEPT ![t] = label]
  BY DEF StatLock, Flock, CleanDone, Unlock, Leave, Goto, Labels
<1>4. Did' = Did
  BY <1>1, <1>3, DidMoves DEF Did, At
<1>5. Value' = Value /\ Possible' = Possible
  BY <1>1, SameImages DEF Bytes
<1> QED BY <1>1, <1>2, <1>4, <1>5, Stutters

\* The steps that change files but no image.
LEMMA TempStepsSimulate ==
    ASSUME IInv, NEW t \in Threads,
           \/ OpenLock(t) \/ CreateTemp(t) \/ WriteTemp(t) \/ SyncTemp(t)
           \/ \E n \in Inodes : Scrub(t, n) \/ Unlink(t, n)
    PROVE  AbstractStep
<1>1. job' = job /\ result' = result /\ disk' = disk /\ pc[t] # "sync_dir"
  BY DEF OpenLock, CreateTemp, WriteTemp, SyncTemp, Scrub, Unlink, MayClean, Change, At,
         names, memory
<1>2. \E label \in Labels \ {"sync_dir"} : pc' = [pc EXCEPT ![t] = label]
  <2>1. pc = [pc EXCEPT ![t] = pc[t]] /\ pc[t] \in Labels
    BY DEF IInv, TypeOK
  <2> QED BY <1>1, <2>1
      DEF OpenLock, CreateTemp, WriteTemp, SyncTemp, Scrub, Unlink, Goto, Labels
<1>3. Did' = Did
  BY <1>1, <1>2, DidMoves DEF Did, At
<1>4. /\ dir'.image = dir.image
      /\ \/ dir' = dir /\ passed' = passed
         \/ passed' = passed \cup {dir}
  BY DEF OpenLock, CreateTemp, WriteTemp, SyncTemp, Scrub, Unlink, Change, names, IInv,
         TypeOK, Directory
<1>5. \A d \in Reach : Bytes(d)' = Bytes(d)
  <2>1. ASSUME NEW n \in Inodes, n \in dir.temps \/ n \notin InUse,
               \A m \in Inodes \ {n} : (m \in torn' <=> m \in torn) /\ data'[m] = data[m]
        PROVE  \A d \in Reach : Bytes(d)' = Bytes(d)
    <3>1. ASSUME NEW d \in Reach, d.image # Absent
          PROVE  d.image \in Inodes \ {n}
      BY <2>1, <3>1 DEF IInv, TypeOK, Directory, ImagesWhole, Reach, InUse
    <3> QED BY <2>1, <3>1 DEF Bytes
  <2>2. CASE OpenLock(t) \/ SyncTemp(t) \/ \E n \in Inodes : Unlink(t, n)
    BY <2>2 DEF OpenLock, SyncTemp, Unlink, Bytes
  <2>3. CASE CreateTemp(t)
    <3>1. PICK n \in Inodes \ InUse :
              data' = [data EXCEPT ![n] = NewBytes(t)] /\ torn' = torn \cup {n}
      BY <2>3 DEF CreateTemp
    <3> QED BY <2>1, <3>1 DEF IInv, TypeOK
  <2>4. CASE WriteTemp(t)
    <3>1. mine[t] \in Inodes /\ mine[t] \in dir.temps /\ torn' = torn \ {mine[t]} /\ data' = data
      BY <2>4 DEF WriteTemp, At, IInv, Writing, Unpublished
    <3> QED BY <2>1, <3>1
  <2>5. ASSUME NEW n \in Inodes, Scrub(t, n)
        PROVE  \A d \in Reach : Bytes(d)' = Bytes(d)
    <3>1. n \in dir.temps /\ data' = [data EXCEPT ![n] = {}] /\ torn' = torn \ {n}
      BY <2>5 DEF Scrub, MayClean
    <3> QED BY <2>1, <3>1 DEF IInv, TypeOK
  <2> QED BY <2>2, <2>3, <2>4, <2>5
<1>6. Bytes(dir)' = Bytes(dir)
  BY <1>4, <1>5 DEF Bytes, Reach
<1>7. Value' = Value /\ Possible' = Possible
  BY <1>1, <1>4, <1>5, <1>6, SameImages DEF Reach
<1> QED BY <1>1, <1>3, <1>7, Stutters

\* A reader reads the value; a writer only looks.
LEMMA LoadSimulates ==
    ASSUME IInv, NEW t \in Threads, Load(t)
    PROVE  AbstractStep
<1>1. pc[t] = "load" /\ UNCHANGED <<dir, disk, passed, data, torn, job>>
  BY DEF Load, At, files, names
<1>2. Value' = Value /\ Possible' = Possible
  BY <1>1, SameImages DEF Bytes
<1>3. CASE Reading(t)
  <2>1. /\ pc' = [pc EXCEPT ![t] = "unlock"]
        /\ result' = [result EXCEPT ![t] = [kind |-> "read", seen |-> Value]]
    BY <1>3, ImageReadable DEF Load, Goto, Answer, Value
  <2>2. t \notin Did /\ Did' = Did
    BY <1>1, <2>1, DidMoves DEF Labels, Did, At
  <2>3. Abstract!Read(t)
    BY <1>1, <1>2, <1>3, <2>1, <2>2
    DEF Abstract!Read, Abstract!Answer, Reading, Value, Possible, Did
  <2> QED BY <2>3 DEF AbstractStep, Abstract!Next
<1>4. CASE ~Reading(t)
  <2>1. pc' = [pc EXCEPT ![t] = "clean"] /\ result' = result
    BY <1>4, ImageReadable DEF Load, Goto
  <2>2. t \notin Did /\ Did' = Did
    BY <1>1, <2>1, DidMoves DEF Labels, Did, At
  <2> QED BY <1>1, <1>2, <2>1, <2>2, Stutters
<1> QED BY <1>3, <1>4

\* A transaction that keeps the value says so.
LEMMA ApplySimulates ==
    ASSUME IInv, NEW t \in Threads, Apply(t)
    PROVE  AbstractStep
<1>1. pc[t] = "apply" /\ UNCHANGED <<dir, disk, passed, data, torn, job>>
  BY DEF Apply, At, files, names
<1>2. Value' = Value /\ Possible' = Possible
  BY <1>1, SameImages DEF Bytes
<1>3. CASE job[t].kind = "keep"
  <2>1. /\ pc' = [pc EXCEPT ![t] = "unlock"]
        /\ result' = [result EXCEPT ![t] = [kind |-> "unchanged", seen |-> {}]]
    BY <1>3 DEF Apply, Goto, Ends, Answer
  <2>2. t \notin Did /\ Did' = Did
    BY <1>1, <2>1, DidMoves DEF Labels, Did, At
  <2>3. Abstract!Keeps(t)
    BY <1>1, <1>2, <1>3, <2>1, <2>2
    DEF Abstract!Keeps, Abstract!Answer, Value, Possible, Did
  <2> QED BY <2>3 DEF AbstractStep, Abstract!Next
<1>4. CASE job[t].kind # "keep"
  <2>1. pc' = [pc EXCEPT ![t] = "create"] /\ result' = result
    BY <1>4 DEF Apply, Goto
  <2>2. t \notin Did /\ Did' = Did
    BY <1>1, <2>1, DidMoves DEF Labels, Did, At
  <2> QED BY <1>1, <1>2, <2>1, <2>2, Stutters
<1> QED BY <1>3, <1>4

\* Replacing the image is the moment the update takes effect.
LEMMA ReplaceSimulates ==
    ASSUME IInv, NEW t \in Threads, Replace(t)
    PROVE  AbstractStep
<1>1. /\ pc[t] = "replace" /\ pc' = [pc EXCEPT ![t] = "sync_dir"]
      /\ passed' = passed \cup {dir} /\ dir'.image = mine[t]
      /\ UNCHANGED <<disk, data, torn, job, result>>
  BY DEF Replace, At, Goto, Change, memory, IInv, TypeOK, Directory
<1>2. /\ mine[t] \in Inodes /\ mine[t] \notin torn /\ data[mine[t]] = NewBytes(t)
      /\ base[t] = Value /\ job[t].kind \in {"put", "erase"} /\ result[t] = None
  BY <1>1
     DEF IInv, Writing, Unpublished, InTheirPart, ForUpdates, Unanswered, Pending, Labels,
              Value
<1>3. Value' = Abstract!Effect(job[t], Value)
  BY <1>1, <1>2, DistinctNames DEF Value, Bytes, NewBytes, Abstract!Effect
<1>4. Possible' = Possible \cup {Value'}
  <2>1. \A d \in Reach : Bytes(d)' = Bytes(d)
    BY <1>1 DEF Bytes
  <2> QED BY <1>1, <2>1 DEF Possible, Value, Reach
<1>5. t \notin Did /\ Did' = Did \cup {t}
  BY <1>1, DidMoves DEF Labels, Did, At
<1>6. Abstract!Update(t)
  BY <1>1, <1>2, <1>3, <1>4, <1>5
  DEF Abstract!Update, Abstract!None, None, Value, Possible, Did
<1> QED BY <1>6 DEF AbstractStep, Abstract!Next

\* Once the directory is synced nothing but the value can be found.
LEMMA SyncSimulates ==
    ASSUME IInv, NEW t \in Threads, SyncDir(t) \/ CleanSync(t)
    PROVE  AbstractStep
<1>1. /\ disk' = dir /\ passed' = {} /\ UNCHANGED <<dir, data, torn, job>>
  BY DEF SyncDir, CleanSync, SyncDirectory
<1>2. Value' = Value /\ Possible' = {Value}
  BY <1>1 DEF Value, Possible, Bytes
<1>3. CASE SyncDir(t)
  <2>1. /\ pc[t] = "sync_dir" /\ pc' = [pc EXCEPT ![t] = "unlock"]
        /\ result' = [result EXCEPT ![t] = [kind |-> "saved", seen |-> {}]]
    BY <1>3 DEF SyncDir, At, Goto, Ends, Answer
  <2>2. t \in Did /\ Did' = Did \ {t}
    BY <2>1, DidMoves DEF Labels, Did, At
  <2>3. Abstract!Saved(t)
    BY <1>1, <1>2, <2>1, <2>2 DEF Abstract!Saved, Abstract!Answer, Value, Possible, Did
  <2> QED BY <2>3 DEF AbstractStep, Abstract!Next
<1>4. CASE CleanSync(t)
  <2>1. /\ pc[t] = "clean_sync" /\ pc' = [pc EXCEPT ![t] = "clean"] /\ result' = result
    BY <1>4 DEF CleanSync, At, Goto
  <2>2. t \notin Did /\ Did' = Did
    BY <2>1, DidMoves DEF Labels, Did, At
  <2>3. Abstract!Settle
    BY <1>1, <1>2, <2>1, <2>2 DEF Abstract!Settle, Value, Possible, Did
  <2> QED BY <2>3 DEF AbstractStep, Abstract!Next
<1> QED BY <1>3, <1>4

\* An update that fails may have taken effect; nothing else changes.
LEMMA FailuresSimulate ==
    ASSUME IInv, NEW t \in Threads,
           \/ FlockTimeout(t) \/ TooManyOrphans(t) \/ Undo(t) \/ FailsEarly(t)
           \/ PersistFails(t)
    PROVE  AbstractStep
<1>1. job' = job /\ data' = data /\ torn' = torn /\ disk' = disk
  BY DEF FlockTimeout, TooManyOrphans, Undo, FailsEarly, PersistFails, Change, files, names
<1>2. /\ dir'.image = dir.image
      /\ \/ dir' = dir /\ passed' = passed
         \/ passed' = passed \cup {dir}
  BY DEF FlockTimeout, TooManyOrphans, Undo, FailsEarly, PersistFails, Change, files, names,
         IInv, TypeOK, Directory
<1>3. Value' = Value /\ Possible' = Possible
  BY <1>1, <1>2, SameImages DEF Bytes
<1>4. CASE PersistFails(t)
  <2>1. pc' = [pc EXCEPT ![t] = "undo"] /\ result' = result
    BY <1>4 DEF PersistFails, Goto
  <2>2. Did' = Did \ {t}
    BY <2>1, DidMoves DEF Labels
  <2> QED BY <1>1, <1>3, <2>1, <2>2
          DEF AbstractStep, Abstract!Next, Abstract!Fails, Value, Possible, Did
<1>5. CASE ~PersistFails(t)
  <2>1. /\ pc[t] # "sync_dir"
        /\ \E label \in {"leave", "unlock"} : pc' = [pc EXCEPT ![t] = label]
        /\ result' = [result EXCEPT ![t] = [kind |-> "failed", seen |-> {}]]
    BY <1>5 DEF FlockTimeout, TooManyOrphans, Undo, FailsEarly, At, Goto, Ends, Answer
  <2>2. t \notin Did /\ Did' = Did
    BY <2>1, DidMoves DEF Labels, Did, At
  <2>3. Abstract!Fails(t)
    BY <1>1, <1>3, <2>1, <2>2 DEF Abstract!Fails, Abstract!Answer, Value, Possible, Did
  <2> QED BY <2>3 DEF AbstractStep, Abstract!Next
<1> QED BY <1>4, <1>5

\* What a set of threads that dies is in the abstract specification.
LEMMA DiesSimulates ==
    ASSUME IInv, NEW dead \in SUBSET Threads, Dies(dead)
    PROVE  Abstract!Dies(dead)
<1>1. Did' = Did \ dead
  BY DEF Dies, Did, At
<1> QED BY <1>1 DEF Dies, Abstract!Dies, None, Abstract!None, Did

\* A dead process forgets its calls, the value stays.
LEMMA ProcessCrashSimulates ==
    ASSUME IInv, NEW p \in Processes, ProcessCrash(p)
    PROVE  AbstractStep
<1>1. PICK dead \in SUBSET Threads : Dies(dead)
  BY DEF ProcessCrash
<1>2. UNCHANGED <<dir, disk, passed, data, torn>>
  BY DEF ProcessCrash, files, names
<1>3. Value' = Value /\ Possible' = Possible
  BY <1>2, SameImages DEF Bytes
<1>4. Abstract!ProcessCrash
  BY <1>1, <1>3, DiesSimulates DEF Abstract!ProcessCrash, Value, Possible
<1> QED BY <1>4 DEF AbstractStep, Abstract!Next

\* A power loss leaves one of the values that could be found.
LEMMA PowerLossSimulates == ASSUME IInv, PowerLoss PROVE AbstractStep
<1>1. PICK d \in Reach : dir' = d /\ disk' = d
  BY DEF PowerLoss, Reach
<1>2. passed' = {} /\ torn' = torn \cup (Inodes \ synced) /\ data' = data /\ Dies(Threads)
  BY DEF PowerLoss
<1>3. Bytes(dir)' = Bytes(d)
  BY <1>1, <1>2 DEF IInv, ImagesWhole, Bytes
<1>4. Value' \in Possible
  BY <1>3 DEF Value, Possible, Reach
<1>5. Possible' = {Value'}
  BY <1>1, <1>2 DEF Value, Possible
<1>6. Abstract!PowerLoss
  BY <1>2, <1>4, <1>5, DiesSimulates DEF Abstract!PowerLoss, Value, Possible
<1> QED BY <1>6 DEF AbstractStep, Abstract!Next

\* Every step of the file protocol is a step of AtomicLedger, or a stutter.
LEMMA StepSimulates == IInv /\ [Next]_vars => AbstractStep
<1> SUFFICES ASSUME IInv, [Next]_vars PROVE AbstractStep
  OBVIOUS
<1>1. ASSUME NEW t \in Threads, Proceed(t) PROVE AbstractStep
  <2>1. CASE \/ StatLock(t) \/ Flock(t) \/ CleanDone(t) \/ Unlock(t) \/ Leave(t)
    BY <2>1, QuietSimulates
  <2>2. CASE \/ OpenLock(t) \/ CreateTemp(t) \/ WriteTemp(t) \/ SyncTemp(t)
             \/ \E n \in Inodes : Scrub(t, n) \/ Unlink(t, n)
    BY <2>2, TempStepsSimulate
  <2>3. CASE FlockTimeout(t) \/ TooManyOrphans(t) \/ Undo(t)
    BY <2>3, FailuresSimulate
  <2>4. CASE StatImage(t) \/ Load(t) \/ Apply(t) \/ Replace(t) \/ SyncDir(t) \/ CleanSync(t)
    BY <2>4, StatImageSimulates, LoadSimulates, ApplySimulates, ReplaceSimulates,
       SyncSimulates
  <2> QED BY <1>1, <2>1, <2>2, <2>3, <2>4 DEF Proceed
<1>2. CASE UNCHANGED vars
  BY <1>2, Stutters DEF vars, Value, Possible, Did, Bytes, At
<1>3. CASE Next
  BY <1>1, <1>3, EnterSimulates, FailuresSimulate, ProcessCrashSimulates, PowerLossSimulates
  DEF Next
<1> QED BY <1>2, <1>3

\* Both start empty.
LEMMA InitSimulates == Init => Abstract!Init
<1> SUFFICES ASSUME Init PROVE Abstract!Init
  OBVIOUS
<1>1. Bytes(dir) = {} /\ passed \cup {dir, disk} = {dir}
  BY DEF Init, Bytes
<1>2. job \in [Threads -> Abstract!Jobs]
  BY DEF Init, Abstract!Jobs
<1>3. {t \in Threads : At(t, "sync_dir")} = {}
  BY DEF Init, At
<1>4. {Bytes(d) : d \in passed \cup {dir, disk}} = {{}}
  BY <1>1
<1> QED BY <1>1, <1>2, <1>3, <1>4 DEF Init, Abstract!Init, None, Abstract!None

\* memory.py `SQLiteMemoryLedger`: the lock file, the flock, the temporary image
\* and the replacement together give what AtomicLedger promises.
THEOREM ImplementsAtomicLedger == Spec => RefinesAtomicLedger
<1>1. IInv /\ [Next]_vars => [Abstract!Next]_(Abstract!vars)
  BY StepSimulates DEF AbstractStep
<1> QED BY <1>1, InitSimulates, Invariance, PTL DEF Spec, RefinesAtomicLedger, Abstract!Spec

-----------------------------------------------------------------------------
(* The records of an image.  RecordsInv adds to the type invariant that the *)
(* tables hold exactly the records ever written, one per id, and that the   *)
(* supersessions are those the written records ask for: deleting a record   *)
(* takes none of them away.                                                 *)

Replaces(r) == {[target |-> id, by |-> r.id, from |-> r.from] : id \in r.supersedes}

Accounted ==
    /\ live \cup buried = written
    /\ \A r \in written : Replaces(r) \subseteq supersessions

RecordsInv == RecordsTyped /\ IdsNameOneRecord /\ Accounted

\* What is remembered was never written, and is unlike all that was.
LEMMA RememberedIsNew ==
    ASSUME RecordsInv, NEW r \in Candidates, Remember(r)
    PROVE  /\ r \notin written
           /\ \A q \in written : q.id # r.id
           /\ written' = written \cup {r}
           /\ live' = live \cup {r} /\ buried' = buried
           /\ supersessions' = supersessions \cup Replaces(r)
  BY DEF RecordsInv, Accounted, Remember, Known, Taken, Insert, Replaces, EffectiveFrom

\* What is replaced was not replaced before.
LEMMA ReplacedOnce ==
    ASSUME RecordsInv, NEW r \in Candidates, Remember(r), NEW id \in r.supersedes
    PROVE  /\ ~Superseded(id)
           /\ \E q \in live : q.id = id /\ Replaceable(q, r)
  BY DEF Remember, MaySupersede, Replaceable

LEMMA DeletedIsBuried ==
    ASSUME RecordsInv, NEW r \in live, Delete(r)
    PROVE  /\ live' = live \ {r} /\ buried' = buried \cup {r}
           /\ supersessions' = supersessions /\ written' = written
           /\ r \in Candidates
  BY DEF RecordsInv, RecordsTyped, Delete

LEMMA RecordsInitHolds == RecordsInit => RecordsInv
  BY DEF RecordsInit, RecordsInv, RecordsTyped, IdsNameOneRecord, Accounted

-----------------------------------------------------------------------------
LEMMA RememberKeeps ==
    ASSUME RecordsInv, NEW r \in Candidates, Remember(r)
    PROVE  RecordsInv'
<1>1. r \in Record
  BY CandidatesAssumption
<1>2. Replaces(r) \subseteq Supersession
  BY <1>1 DEF Replaces, Record, Supersession
<1>3. \A s \in Replaces(r), t \in supersessions : s.target # t.target
  BY ReplacedOnce DEF Replaces, Superseded
<1>4. \A s, t \in Replaces(r) : s.target = t.target => s = t
  BY DEF Replaces
<1>5. RecordsTyped'
  <2>1. live' \subseteq Candidates /\ buried' \subseteq Candidates /\ written' \subseteq Candidates
    BY RememberedIsNew DEF RecordsInv, RecordsTyped
  <2>2. supersessions' \subseteq Supersession
    BY <1>2, RememberedIsNew DEF RecordsInv, RecordsTyped
  <2>3. \A s, t \in supersessions' : s.target = t.target => s = t
    BY <1>3, <1>4, RememberedIsNew DEF RecordsInv, RecordsTyped
  <2> QED BY <2>1, <2>2, <2>3 DEF RecordsTyped
<1>6. IdsNameOneRecord'
  BY RememberedIsNew DEF RecordsInv, IdsNameOneRecord
<1>7. Accounted'
  <2>1. live' \cup buried' = written'
    BY RememberedIsNew DEF RecordsInv, Accounted
  <2>2. \A q \in written' : Replaces(q) \subseteq supersessions'
    BY RememberedIsNew DEF RecordsInv, Accounted
  <2> QED BY <2>1, <2>2 DEF Accounted, Replaces
<1> QED BY <1>5, <1>6, <1>7 DEF RecordsInv

LEMMA DeleteKeeps ==
    ASSUME RecordsInv, NEW r \in live, Delete(r)
    PROVE  RecordsInv'
<1>1. RecordsTyped'
  BY DeletedIsBuried DEF RecordsInv, RecordsTyped
<1>2. IdsNameOneRecord'
  BY DeletedIsBuried DEF RecordsInv, IdsNameOneRecord
<1>3. Accounted'
  BY DeletedIsBuried DEF RecordsInv, Accounted, Replaces
<1> QED BY <1>1, <1>2, <1>3 DEF RecordsInv

LEMMA RecordsStepKeeps == RecordsInv /\ [RecordsNext]_recordVars => RecordsInv'
<1> SUFFICES ASSUME RecordsInv, [RecordsNext]_recordVars
             PROVE  RecordsInv'
  OBVIOUS
<1>1. ASSUME NEW r \in Candidates, Remember(r)
      PROVE  RecordsInv'
  BY <1>1, RememberKeeps
<1>2. ASSUME NEW r \in live, Delete(r)
      PROVE  RecordsInv'
  BY <1>2, DeleteKeeps
<1>3. CASE UNCHANGED recordVars
  BY <1>3 DEF RecordsInv, RecordsTyped, IdsNameOneRecord, Accounted, Replaces, recordVars, tables
<1> QED BY <1>1, <1>2, <1>3 DEF RecordsNext

LEMMA RecordsInvariance == RecordsSpec => []RecordsInv
  BY RecordsInitHolds, RecordsStepKeeps, PTL DEF RecordsSpec

-----------------------------------------------------------------------------
\* The tables keep their types; in particular no record is replaced twice.
THEOREM LedgerTypeCorrect == RecordsSpec => []RecordsTyped
<1>1. RecordsInv => RecordsTyped
  BY DEF RecordsInv
<1> QED BY <1>1, RecordsInvariance, PTL

\* An id names one record for ever, whatever is deleted, retried or raised.
THEOREM IdsAlwaysNameOneRecord == RecordsSpec => []IdsNameOneRecord
<1>1. RecordsInv => IdsNameOneRecord
  BY DEF RecordsInv
<1> QED BY <1>1, RecordsInvariance, PTL

\* What remember reports as already known did take effect.
THEOREM KnownWasWritten == RecordsSpec => []KnownMeansWritten
<1>1. RecordsInv => KnownMeansWritten
  BY DEF RecordsInv, Accounted, KnownMeansWritten, Known
<1> QED BY <1>1, RecordsInvariance, PTL

\* A record and its successor are never shown for the same instant.
THEOREM NeverShownTogether == RecordsSpec => []NeverBothShown
<1>1. ASSUME RecordsInv
      PROVE  NeverBothShown
  <2> SUFFICES ASSUME NEW r \in live, NEW q \in live, NEW at \in Instants,
                      r.id \in q.supersedes, Shown(q, at)
               PROVE  ~Shown(r, at)
    BY DEF NeverBothShown
  <2> DEFINE s == [target |-> r.id, by |-> q.id, from |-> q.from]
  <2>1. s \in supersessions
    BY <1>1 DEF RecordsInv, Accounted, Replaces
  <2>2. s.target = r.id /\ s.from = q.from
    OBVIOUS
  <2>3. q.from <= at
    BY DEF Shown, ActiveAt
  <2> HIDE DEF s
  <2> QED BY <2>1, <2>2, <2>3 DEF Shown, SupersededAt
<1> QED BY <1>1, RecordsInvariance, PTL

\* What was hidden from an instant stays hidden from it.
THEOREM NothingRevives == RecordsSpec => HiddenStaysHidden
<1>1. ASSUME RecordsInv, [RecordsNext]_recordVars, NEW r \in written, NEW at \in Instants, Shown(r, at)'
      PROVE  Shown(r, at)
  <2>1. r \in live' /\ ActiveAt(r, at) /\ ~SupersededAt(r.id, at)'
    BY <1>1 DEF Shown, ActiveAt
  <2>2. r \in live /\ supersessions \subseteq supersessions'
    <3>1. ASSUME NEW q \in Candidates, Remember(q)
          PROVE  r \in live /\ supersessions \subseteq supersessions'
      BY <1>1, <2>1, <3>1, RememberedIsNew
    <3>2. ASSUME NEW q \in live, Delete(q)
          PROVE  r \in live /\ supersessions \subseteq supersessions'
      BY <1>1, <2>1, <3>2, DeletedIsBuried
    <3>3. CASE UNCHANGED recordVars
      BY <2>1, <3>3 DEF recordVars, tables
    <3> QED BY <1>1, <3>1, <3>2, <3>3 DEF RecordsNext
  <2> QED BY <2>1, <2>2 DEF Shown, SupersededAt
<1>2. RecordsInv /\ [RecordsNext]_recordVars
        => [\A r \in written : \A at \in Instants : Shown(r, at)' => Shown(r, at)]_recordVars
  BY <1>1
<1> QED BY <1>2, RecordsInvariance, PTL DEF RecordsSpec, HiddenStaysHidden

-----------------------------------------------------------------------------
\* A record only hides records that the same queries look at.
LEMMA HidesOwnScopeOnly ==
    ASSUME RecordsInv, NEW r \in Candidates, Remember(r), NEW query \in Query,
           ~InScope(r, query), NEW q \in live, InScope(q, query)
    PROVE  SupersededAt(q.id, query.at)' <=> SupersededAt(q.id, query.at)
<1>1. supersessions' = supersessions \cup Replaces(r)
  BY RememberedIsNew
<1>2. q.id \notin r.supersedes
  <2> SUFFICES ASSUME q.id \in r.supersedes
               PROVE  FALSE
    OBVIOUS
  <2>1. PICK p \in live : p.id = q.id /\ Replaceable(p, r)
    BY ReplacedOnce
  <2>2. p = q
    BY <2>1 DEF RecordsInv, Accounted, IdsNameOneRecord
  <2>3. InScope(r, query)
    BY <2>1, <2>2 DEF Replaceable, InScope
  <2> QED BY <2>3
<1>3. \A s \in Replaces(r) : s.target # q.id
  BY <1>2 DEF Replaces
<1>4. \A s \in supersessions' : s.target = q.id => s \in supersessions
  BY <1>1, <1>3
<1>5. supersessions \subseteq supersessions'
  BY <1>1
<1> QED BY <1>4, <1>5 DEF SupersededAt

\* The records a query looks at, unchanged, are shown unchanged.
LEMMA OwnScopeStays ==
    ASSUME RecordsInv, [RecordsNext]_recordVars, NEW query \in Query,
           \A r \in Candidates : InScope(r, query) => (r \in live <=> r \in live'),
           NEW q \in Candidates, InScope(q, query)
    PROVE  Shown(q, query.at)' <=> Shown(q, query.at)
<1>1. q \in live <=> q \in live'
  OBVIOUS
<1>2. ASSUME q \in live
      PROVE  SupersededAt(q.id, query.at)' <=> SupersededAt(q.id, query.at)
  <2>1. ASSUME NEW r \in Candidates, Remember(r)
        PROVE  SupersededAt(q.id, query.at)' <=> SupersededAt(q.id, query.at)
    <3>1. r \notin live /\ r \in live'
      BY <2>1, RememberedIsNew DEF RecordsInv, Accounted
    <3>2. ~InScope(r, query)
      BY <3>1
    <3> QED BY <1>2, <2>1, <3>2, HidesOwnScopeOnly
  <2>2. ASSUME NEW r \in live, Delete(r)
        PROVE  SupersededAt(q.id, query.at)' <=> SupersededAt(q.id, query.at)
    BY <2>2, DeletedIsBuried DEF SupersededAt
  <2>3. CASE UNCHANGED recordVars
    BY <2>3 DEF recordVars, tables, SupersededAt
  <2> QED BY <2>1, <2>2, <2>3 DEF RecordsNext
<1> QED BY <1>1, <1>2 DEF Shown, ActiveAt

\* What a query is shown depends on the records of its own scope only.
THEOREM ScopesStayIndependent == RecordsSpec => ScopesIndependent
<1> DEFINE Undisturbed(query) ==
        Recall(query)' = Recall(query)
        /\ \A key \in Keys : Conflicts(query, key)' = Conflicts(query, key)
<1>1. ASSUME RecordsInv, RecordsInv', [RecordsNext]_recordVars, NEW query \in Query,
             \A r \in Candidates : InScope(r, query) => (r \in live <=> r \in live')
      PROVE  Undisturbed(query)
  <2>1. live \subseteq Candidates /\ live' \subseteq Candidates
    BY <1>1 DEF RecordsInv, RecordsTyped
  <2>2. \A q \in Candidates : InScope(q, query)
          => (Shown(q, query.at)' <=> Shown(q, query.at))
    BY <1>1, OwnScopeStays
  <2>3. Recall(query)' = Recall(query)
    BY <1>1, <2>1, <2>2 DEF Recall, InScope
  <2>4. \A key \in Keys : Conflicts(query, key)' = Conflicts(query, key)
    BY <2>3 DEF Conflicts
  <2> QED BY <2>3, <2>4
<1>2. RecordsInv /\ RecordsInv' /\ [RecordsNext]_recordVars
        => [\A query \in Query :
              (\A r \in Candidates : InScope(r, query) => (r \in live <=> r \in live'))
              => /\ Recall(query)' = Recall(query)
                 /\ \A key \in Keys : Conflicts(query, key)' = Conflicts(query, key)]_recordVars
  BY <1>1
<1> QED BY <1>2, RecordsInvariance, PTL DEF RecordsSpec, ScopesIndependent
=============================================================================
