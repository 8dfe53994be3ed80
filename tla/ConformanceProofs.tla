-------------------------- MODULE ConformanceProofs --------------------------
(***************************************************************************)
(* For any suite, any depth of directories and any number of changes and   *)
(* failures: what a conformance run may take the pack it loaded for, which *)
(* descriptors it leaves open, and what its report says.                   *)
(***************************************************************************)
EXTENDS Conformance, FiniteSetTheorems, TLAPS

-----------------------------------------------------------------------------
(* The inductive invariant of the reader *)

WithFile == {"fstat", "read", "again", "name_again", "close", "close_refused"}
FileStages == {"stat", "open"} \cup WithFile
Stages == FileStages \cup {"walk", "step", "leave", "abandon", "loaded", "refused"}

Types ==
    /\ disk \in [Names -> File \cup {Absent}]
    /\ changes \in Nat /\ faults \in Nat
    /\ before \in Nat /\ held \in File \cup {Absent} /\ opened \in File
    /\ got \in Seq(Parts) /\ texts \in Seq(Seq(Parts))
    /\ at \in WithFile => held \in File

\* Where in its order the reader is at each stage: the suite comes before the
\* way down to the pack, and its files after.
Ordered ==
    /\ at \in Stages /\ next \in 1..6 /\ level \in 0..Len(Path)
    /\ Len(texts) = next - 1
    /\ at \in FileStages => (next \in 1..2 /\ level = 0) \/ (next \in 3..5 /\ level = Len(Path))
    /\ at = "walk" => next = 3 /\ level \in 0..Len(Path) - 1
    /\ at = "step" => next = 3 /\ level \in 2..Len(Path)
    /\ at \in {"leave", "loaded"} => next = 6
    /\ at = "leave" => level = Len(Path)

\* The descriptors that a stage has yet to close.
Mine ==
    (IF at \in WithFile THEN {Name} ELSE {})
    \cup (IF level > 0 /\ at \in FileStages \cup {"walk", "step", "leave"}
          THEN {Path[level]} ELSE {})
    \cup (IF at = "step" THEN {Path[level - 1]} ELSE {})
    \cup (IF at = "abandon" THEN Directory ELSE {})
Closes == open \subseteq stuck \cup Mine

\* A reader that nothing disturbed finds what the pack pins.
Undisturbed == whole /\ changes = 0 /\ faults = 0
Smooth ==
    /\ \A n \in Names : disk[n] = Original
    /\ at \notin {"close_refused", "abandon", "refused"}
    /\ at \in {"open", "fstat"} => before = 0
    /\ at \in WithFile => held = Original
    /\ at \in WithFile \ {"fstat"} => opened = Original
    /\ at \in {"stat", "open", "fstat", "walk", "step"} => got = <<>>
    /\ at = "read" => Len(got) <= 2 /\ \A i \in 1..Len(got) : got[i] = "pinned"
    /\ at \in {"again", "name_again", "close"} => got = Pinned
    /\ \A i \in DOMAIN texts : texts[i] = Pinned

Pins == at = "loaded" => \A i \in DOMAIN Order : Order[i] \in Pack => texts[i] = Pinned

LoadInv == Types /\ Ordered /\ Closes /\ (Undisturbed => Smooth) /\ Pins

-----------------------------------------------------------------------------
LEMMA OriginalFile ==
    /\ Original \in File /\ Original # Absent
    /\ Original.inode = 0 /\ Original.stamp = 0 /\ Original.parts = Pinned
    /\ Pinned \in Seq(Parts) /\ Len(Pinned) = 2 /\ Pinned # <<>>
    /\ Pinned[1] = "pinned" /\ Pinned[2] = "pinned"
<1>1. Pinned \in Seq(Parts) /\ Len(Pinned) = 2 /\ Pinned[1] = "pinned" /\ Pinned[2] = "pinned"
  BY DEF Pinned, Parts
<1>2. Original \in File
  BY <1>1 DEF Original, File
<1> QED BY <1>1, <1>2, AbsentAssumption DEF Original

LEMMA OtherParts == <<"other", "other">> \in Seq(Parts)
BY DEF Parts

LEMMA RewrittenParts ==
    ASSUME NEW was \in Seq(Parts), NEW parts \in Rewritten(was)
    PROVE  parts \in Seq(Parts)
<1>1. CASE parts \in {[was EXCEPT ![i] = part] : i \in DOMAIN was, part \in Parts}
  <2>1. PICK i \in DOMAIN was, part \in Parts : parts = [was EXCEPT ![i] = part]
    BY <1>1
  <2> QED BY <2>1
<1>2. CASE parts = Append(was, "other") \/ parts = <<>>
  <2>1. "other" \in Parts
    BY DEF Parts
  <2>2. Append(was, "other") \in Seq(Parts)
    BY <2>1
  <2>3. <<>> \in Seq(Parts)
    OBVIOUS
  <2> QED BY <1>2, <2>2, <2>3
<1> QED BY <1>1, <1>2 DEF Rewritten

LEMMA WholeParts ==
    ASSUME NEW parts \in Seq(Parts), Len(parts) = 2, parts[1] = "pinned", parts[2] = "pinned"
    PROVE  parts = Pinned
BY DEF Pinned

\* The files of the suite come first, then the manifest and what it names.
LEMMA NamesInOrder ==
    ASSUME next \in 1..5
    PROVE  /\ Name \in Names
           /\ Careful <=> next \in 3..5
           /\ Name = "en" <=> next = 2
           /\ Name = "manifest" <=> next = 3
           /\ Name = "anti_patterns" <=> next = 5
BY DEF Name, Careful, Order, Names, Suite, Pack

LEMMA PathFacts == Len(Path) \in Nat /\ Len(Path) >= 1 /\ DOMAIN Path = 1..Len(Path)
BY FilesAssumption

LEMMA DirectoriesFinite == IsFiniteSet(Directories)
<1>1. Path \in Surjection(DOMAIN Path, Directory)
  BY PathFacts, FilesAssumption DEF Surjection, Directory
<1>2. IsFiniteSet(DOMAIN Path)
  BY PathFacts, FS_Interval
<1>3. IsFiniteSet(Directory)
  BY <1>1, <1>2, FS_Surjection
<1> QED BY <1>3, FS_Subset DEF Directories

LEMMA LoadStarts == LoadInit => LoadInv
<1> SUFFICES ASSUME LoadInit PROVE LoadInv
  OBVIOUS
<1>1. disk \in [Names -> File \cup {Absent}]
  <2>1. [Original EXCEPT !.parts = <<"other", "other">>] \in File
    BY OriginalFile, OtherParts DEF File
  <2> QED BY <2>1, OriginalFile DEF LoadInit
<1>2. Types
  BY <1>1, OriginalFile DEF LoadInit, Types, WithFile
<1>3. Ordered
  BY PathFacts DEF LoadInit, Ordered, Stages, FileStages, WithFile
<1>4. Undisturbed => Smooth
  <2>1. whole => \A n \in Names : disk[n] = Original
    BY Zenon DEF LoadInit
  <2>2. at = "stat" /\ got = <<>> /\ texts = <<>>
    BY DEF LoadInit
  <2> QED BY <2>1, <2>2 DEF Undisturbed, Smooth, WithFile
<1> QED BY <1>2, <1>3, <1>4 DEF LoadInit, LoadInv, Closes, Pins

-----------------------------------------------------------------------------
(* The other programs *)

LEMMA InterfereKeepsLoad ==
    ASSUME LoadInv, Interfere
    PROVE  LoadInv'
<1>1. PICK n \in Names : Replace(n) \/ Remove(n) \/ Rewrite(n)
  BY DEF Interfere
<1>2. PICK file \in File \cup {Absent} :
         /\ Change(n, file)
         /\ \/ held' = held
            \/ held # Absent /\ held' = file /\ file # Absent
  <2>1. CASE Replace(n)
    <3>1. PICK parts \in {Pinned, <<"other", "other">>}, stamp \in {0, changes + 1} :
             Change(n, [inode |-> changes + 1, parts |-> parts, stamp |-> stamp])
      BY <2>1 DEF Replace
    <3>2. changes + 1 \in Nat /\ stamp \in Nat
      BY DEF LoadInv, Types
    <3>3. parts \in Seq(Parts)
      BY OriginalFile, OtherParts
    <3>4. [inode |-> changes + 1, parts |-> parts, stamp |-> stamp] \in File
      BY <3>2, <3>3 DEF File
    <3> QED BY <2>1, <3>1, <3>4 DEF Replace
  <2>2. CASE Remove(n)
    BY <2>2 DEF Remove
  <2>3. CASE Rewrite(n)
    <3>1. disk[n] \in File
      BY <2>3 DEF Rewrite, LoadInv, Types
    <3> PICK old : old = disk[n]
      OBVIOUS
    <3>2. PICK parts \in Rewritten(old.parts), stamp \in {old.stamp, changes + 1} :
             /\ Change(n, [old EXCEPT !.parts = parts, !.stamp = stamp])
             /\ held' = IF held # Absent /\ n = Name /\ held.inode = old.inode
                        THEN [old EXCEPT !.parts = parts, !.stamp = stamp] ELSE held
      BY <2>3 DEF Rewrite
    <3>3. parts \in Seq(Parts)
      <4>1. old.parts \in Seq(Parts)
        BY <3>1 DEF File
      <4> QED BY <4>1, RewrittenParts
    <3>4. [old EXCEPT !.parts = parts, !.stamp = stamp] \in File
      <4>1. stamp \in Nat
        BY <3>1 DEF File, LoadInv, Types
      <4> QED BY <3>1, <3>3, <4>1 DEF File
    <3> QED BY <3>2, <3>4, AbsentAssumption
  <2> QED BY <1>1, <2>1, <2>2, <2>3
<1>3. /\ changes' = changes + 1 /\ disk' = [disk EXCEPT ![n] = file]
      /\ UNCHANGED <<whole, at, level, next, before, opened, got, texts, open, stuck, faults>>
  BY <1>2 DEF Change, descriptors
<1>4. Types'
  BY <1>2, <1>3 DEF LoadInv, Types
<1>5. Ordered'
  BY <1>3 DEF LoadInv, Ordered
<1>6. Closes'
  <2>1. Mine' = Mine
    BY <1>3 DEF Mine, Name
  <2> QED BY <1>3, <2>1 DEF LoadInv, Closes
<1>7. ~Undisturbed'
  BY <1>3 DEF LoadInv, Types, Undisturbed
<1>8. Pins'
  BY <1>3 DEF LoadInv, Pins
<1> QED BY <1>4, <1>5, <1>6, <1>7, <1>8 DEF LoadInv

-----------------------------------------------------------------------------
(* The reader *)

\* No step of the reader touches the files.
LEMMA LoadLeavesFiles ==
    ASSUME Load
    PROVE  UNCHANGED environment
BY DEF Load, Stat, Open, Fstat, Read, Again, NameAgain, CloseFile, CloseRefused, OpenDirectory,
       CloseParent, Leave, Abandon, Shut

LEMMA LoadKeepsTypes ==
    ASSUME LoadInv, Load
    PROVE  Types'
<1> USE DEF Types, WithFile
<1>0. /\ Types /\ Ordered
      /\ disk' = disk /\ changes' = changes
  BY LoadLeavesFiles DEF LoadInv, environment
<1>1. faults' \in Nat
  <2>1. Works \/ Fails => faults' \in Nat
    BY <1>0 DEF Works, Fails
  <2>2. ASSUME NEW d, Close(d) \/ CloseFails(d) PROVE faults' \in Nat
    BY <2>1, <2>2 DEF Close, CloseFails
  <2>3. CASE Abandon
    <3>1. PICK failing \in SUBSET Directories : faults' = faults + Cardinality(failing)
      BY <2>3 DEF Abandon
    <3>2. IsFiniteSet(failing)
      BY DirectoriesFinite, FS_Subset
    <3> QED BY <1>0, <3>1, <3>2, FS_CardinalityType
  <2> QED BY <2>1, <2>2, <2>3 DEF Load, Stat, Open, Fstat, Read, Again, NameAgain, CloseFile,
          CloseRefused, OpenDirectory, CloseParent, Leave
<1>2. CASE Stat
  <2>1. disk[Name] # Absent => disk[Name] \in File
    BY <1>0, <1>2, NamesInOrder DEF Stat, Ordered, FileStages
  <2> QED BY <1>0, <1>1, <1>2, <2>1 DEF Stat, File, Refuse
<1>3. CASE Open
  <2>1. disk[Name] # Absent => disk[Name] \in File
    BY <1>0, <1>3, NamesInOrder DEF Open, Ordered, FileStages
  <2> QED BY <1>0, <1>1, <1>3, <2>1 DEF Open, Refuse
<1>4. CASE Fstat
  BY <1>0, <1>1, <1>4 DEF Fstat
<1>5. CASE Read
  <2>1. got' \in Seq(Parts)
    <3>1. held.parts \in Seq(Parts) /\ Len(got) \in Nat
      BY <1>0, <1>5 DEF Read, File
    <3> PICK parts : parts = held.parts
      OBVIOUS
    <3>2. got' = got \/ (Len(got) < Len(parts) /\ got' = Append(got, parts[Len(got) + 1]))
      BY <1>5 DEF Read
    <3>3. Len(got) < Len(parts) => parts[Len(got) + 1] \in Parts
      BY <3>1
    <3>4. \A part \in Parts : Append(got, part) \in Seq(Parts)
      BY <1>0
    <3> QED BY <1>0, <3>2, <3>3, <3>4
  <2> QED BY <1>0, <1>1, <1>5, <2>1 DEF Read
<1>6. CASE Again
  BY <1>0, <1>1, <1>6 DEF Again
<1>7. CASE NameAgain
  BY <1>0, <1>1, <1>7 DEF NameAgain
<1>8. CASE CloseFile
  <2>1. before' = 0 /\ held' = Absent /\ opened' = Original /\ got' = <<>>
    BY <1>8 DEF CloseFile, Shut
  <2>2. at' \notin WithFile
    BY <1>8 DEF CloseFile, Refuse
  <2>3. texts' \in Seq(Seq(Parts))
    <3>1. texts' = texts \/ texts' = Append(texts, got)
      BY <1>8 DEF CloseFile
    <3>2. Append(texts, got) \in Seq(Seq(Parts))
      BY <1>0
    <3> QED BY <1>0, <3>1, <3>2
  <2> QED BY <1>0, <1>1, <2>1, <2>2, <2>3, OriginalFile
<1>9. CASE CloseRefused
  <2>1. before' = 0 /\ held' = Absent /\ opened' = Original /\ got' = <<>>
    BY <1>9 DEF CloseRefused, Shut
  <2>2. at' \notin WithFile /\ texts' = texts
    BY <1>9 DEF CloseRefused, Refuse
  <2> QED BY <1>0, <1>1, <2>1, <2>2, OriginalFile
<1>10. CASE OpenDirectory \/ CloseParent \/ Leave \/ Abandon
  <2>1. at' \notin WithFile /\ UNCHANGED <<before, held, opened, got, texts>>
    BY <1>10 DEF OpenDirectory, CloseParent, Leave, Abandon, Inside
  <2> QED BY <1>0, <1>1, <2>1
<1> QED BY <1>2, <1>3, <1>4, <1>5, <1>6, <1>7, <1>8, <1>9, <1>10 DEF Load

LEMMA LoadKeepsOrder ==
    ASSUME LoadInv, Load
    PROVE  Ordered'
<1> USE DEF Stages, FileStages, WithFile
<1>0. Types /\ Ordered
  BY DEF LoadInv
<1>1. CASE Stat \/ Open \/ Fstat \/ Read \/ Again \/ NameAgain \/ CloseRefused
  <2>1. /\ UNCHANGED <<level, next, texts>> /\ at \in FileStages
        /\ at' \in FileStages \cup {"abandon", "refused"}
    BY <1>1 DEF Stat, Open, Fstat, Read, Again, NameAgain, CloseRefused, Shut, Refuse
  <2> QED BY <1>0, <2>1 DEF Ordered
<1>2. CASE CloseFile
  <2>1. level' = level /\ next \in 1..5
    BY <1>0, <1>2 DEF CloseFile, Shut, Ordered
  <2>2. CASE at' \in {"abandon", "refused"} /\ UNCHANGED <<next, texts>>
    BY <1>0, <2>1, <2>2 DEF Ordered
  <2>3. CASE /\ texts' = Append(texts, got) /\ next' = next + 1
             /\ at' = CASE Name = "en" -> "walk" [] Name = "anti_patterns" -> "leave"
                        [] OTHER -> "stat"
    <3>1. at' = IF next = 2 THEN "walk" ELSE IF next = 5 THEN "leave" ELSE "stat"
      BY <2>1, <2>3, NamesInOrder
    <3>2. Len(texts') = Len(texts) + 1
      BY <1>0, <2>3 DEF Types
    <3>3. (next \in 1..2 /\ level = 0) \/ (next \in 3..5 /\ level = Len(Path))
      BY <1>0, <1>2 DEF CloseFile, Ordered
    <3> QED BY <1>0, <2>1, <2>3, <3>1, <3>2, <3>3, PathFacts DEF Ordered
  <2> QED BY <1>2, <2>2, <2>3 DEF CloseFile, Refuse
<1>3. CASE OpenDirectory
  BY <1>0, <1>3, PathFacts DEF OpenDirectory, Ordered, Inside
<1>4. CASE CloseParent
  <2>1. UNCHANGED <<level, next, texts>> /\ next = 3 /\ level \in 2..Len(Path)
        /\ Len(texts) = 2
    BY <1>0, <1>4 DEF CloseParent, Ordered
  <2>2. at' \in {"stat", "walk", "abandon"} /\ (at' = "stat" => level = Len(Path))
        /\ (at' = "walk" => level # Len(Path))
    BY <1>4 DEF CloseParent, Inside
  <2>3. CASE at' = "stat"
    BY <2>1, <2>2, <2>3, PathFacts DEF Ordered
  <2>4. CASE at' = "walk"
    <3> PICK n \in Nat : n = Len(Path)
      BY PathFacts
    <3>0. level \in 2..n /\ level # n
      BY <2>1, <2>2, <2>4
    <3>1. level \in 0..n - 1 /\ level \in 0..n
      BY <3>0
    <3> QED BY <2>1, <2>4, <3>1 DEF Ordered
  <2>5. CASE at' = "abandon"
    BY <2>1, <2>2, <2>5, PathFacts DEF Ordered
  <2> QED BY <2>2, <2>3, <2>4, <2>5
<1>5. CASE Leave \/ Abandon
  BY <1>0, <1>5 DEF Leave, Abandon, Ordered
<1> QED BY <1>1, <1>2, <1>3, <1>4, <1>5 DEF Load

\* A close leaves its descriptor closed or stuck, and no other one open.
LEMMA CloseFacts ==
    ASSUME NEW d, Close(d) \/ CloseFails(d)
    PROVE  open' \subseteq open /\ stuck \subseteq stuck' /\ (d \in open' => d \in stuck')
BY DEF Close, CloseFails

LEMMA LoadKeepsClosing ==
    ASSUME LoadInv, Load
    PROVE  Closes'
<1> USE DEF FileStages, WithFile
<1> DEFINE within == IF level > 0 THEN {Path[level]} ELSE {}
<1>0. Types /\ Ordered /\ open \subseteq stuck \cup Mine
  BY DEF LoadInv, Closes
<1>1. /\ within \subseteq Directory
      /\ at \in FileStages => (Careful <=> level > 0)
      /\ at \in FileStages \cup {"walk", "leave"}
            => Mine = within \cup (IF at \in WithFile THEN {Name} ELSE {})
  <2>1. within \subseteq Directory
    <3>0. level \in 0..Len(Path)
      BY <1>0 DEF Ordered
    <3>1. level > 0 => level \in DOMAIN Path
      BY <3>0, PathFacts
    <3> QED BY <3>1 DEF Directory
  <2>2. at \in FileStages => (Careful <=> level > 0)
    <3>1. CASE next \in 1..2 /\ level = 0
      BY <3>1, NamesInOrder
    <3>2. CASE next \in 3..5 /\ level = Len(Path)
      BY <3>2, NamesInOrder, PathFacts
    <3> QED BY <1>0, <3>1, <3>2 DEF Ordered
  <2>3. at \in FileStages \cup {"walk", "leave"}
            => Mine = within \cup (IF at \in WithFile THEN {Name} ELSE {})
    BY DEF Mine
  <2> QED BY <2>1, <2>2, <2>3
<1>2. ASSUME open' \subseteq stuck' \cup within, level' = level,
             \/ at' \in {"stat", "open", "walk", "leave", "abandon"}
             \/ at' = "refused" /\ level = 0
      PROVE  Closes'
  BY <1>0, <1>1, <1>2 DEF Ordered, Mine, Directory, Closes
<1>3. CASE Stat
  <2>1. UNCHANGED <<level, open, stuck>> /\ at = "stat"
        /\ (at' \in {"open", "abandon"} \/ (at' = "refused" /\ ~Careful))
    BY <1>3 DEF Stat, Refuse, descriptors
  <2> QED BY <1>0, <1>1, <1>2, <2>1 DEF Ordered
<1>4. CASE Open
  <2>1. UNCHANGED <<level, next, stuck>> /\ at = "open"
    BY <1>4 DEF Open
  <2>2. CASE open' = open \cup {Name} /\ at' = "fstat"
    <3>1. Mine' = within \cup {Name}
      BY <2>1, <2>2 DEF Mine, Name
    <3> QED BY <1>0, <1>1, <2>1, <2>2, <3>1 DEF Closes
  <2>3. CASE open' = open /\ Refuse
    BY <1>0, <1>1, <1>2, <2>1, <2>3 DEF Ordered, Refuse
  <2> QED BY <1>4, <2>2, <2>3 DEF Open
<1>5. CASE Fstat \/ Read \/ Again \/ NameAgain
  <2>1. UNCHANGED <<level, next, open, stuck>> /\ at \in WithFile /\ at' \in WithFile
    BY <1>5 DEF Fstat, Read, Again, NameAgain, descriptors
  <2>2. Mine' = Mine
    BY <2>1 DEF Mine, Name
  <2> QED BY <1>0, <2>1, <2>2 DEF Closes
<1>6. CASE CloseFile \/ CloseRefused
  <2>1. level' = level /\ at \in WithFile /\ (Close(Name) \/ CloseFails(Name))
    BY <1>6 DEF CloseFile, CloseRefused, Shut
  <2>2. open' \subseteq stuck' \cup within
    BY <1>0, <1>1, <2>1, CloseFacts
  <2>3. \/ at' \in {"stat", "walk", "leave"}
        \/ at' = "abandon" \/ (at' = "refused" /\ ~Careful)
    BY <1>6 DEF CloseFile, CloseRefused, Refuse
  <2> QED BY <1>0, <1>1, <1>2, <2>1, <2>2, <2>3 DEF Ordered
<1>7. CASE OpenDirectory
  <2>1. at = "walk" /\ stuck' = stuck /\ level \in 0..Len(Path) - 1 /\ Mine = within
    BY <1>0, <1>1, <1>7 DEF OpenDirectory, Ordered
  <2>2. CASE /\ open' = open \cup {Path[level + 1]} /\ level' = level + 1
             /\ at' = IF level = 0 THEN Inside(1) ELSE "step"
    <3>1. {Path[level + 1]} \cup within \subseteq Mine'
      BY <2>1, <2>2, PathFacts DEF Mine, Inside
    <3> QED BY <1>0, <2>1, <2>2, <3>1 DEF Closes
  <2>3. CASE at' = (IF level = 0 THEN "refused" ELSE "abandon") /\ UNCHANGED <<open, level>>
    BY <1>0, <1>2, <2>1, <2>3
  <2> QED BY <1>7, <2>2, <2>3 DEF OpenDirectory
<1>8. CASE CloseParent
  <2>1. level \in 2..Len(Path) /\ level' = level /\ at = "step"
        /\ (Close(Path[level - 1]) \/ CloseFails(Path[level - 1]))
        /\ at' \in {"stat", "walk", "abandon"}
    BY <1>0, <1>8 DEF CloseParent, Ordered, Inside
  <2>2. Mine = within \cup {Path[level - 1]}
    BY <2>1, PathFacts DEF Mine
  <2>3. open' \subseteq stuck' \cup within
    BY <1>0, <2>1, <2>2, CloseFacts
  <2> QED BY <1>2, <2>1, <2>3
<1>9. CASE Leave
  <2>1. Mine = {Path[Len(Path)]} /\ (Close(Path[Len(Path)]) \/ CloseFails(Path[Len(Path)]))
    BY <1>0, <1>9, PathFacts DEF Leave, Ordered, Mine
  <2> QED BY <1>0, <2>1, CloseFacts DEF Closes
<1>10. CASE Abandon
  <2>1. PICK failing \in SUBSET Directories : \E left \in SUBSET failing :
           open' = (open \ Directories) \cup left /\ stuck' = stuck \cup failing
    BY <1>10 DEF Abandon
  <2>2. open \subseteq stuck \cup Directory
    BY <1>0, <1>10 DEF Abandon, Mine
  <2> QED BY <2>1, <2>2 DEF Closes, Directories
<1> QED BY <1>3, <1>4, <1>5, <1>6, <1>7, <1>8, <1>9, <1>10 DEF Load

\* A reader that nothing disturbed was not before either, and no call failed.
LEMMA UndisturbedBefore ==
    ASSUME LoadInv, Load, Undisturbed'
    PROVE  /\ Undisturbed /\ Smooth /\ Types /\ Ordered
           /\ UNCHANGED <<disk, whole, changes, faults>>
           /\ ~Fails /\ at # "abandon" /\ \A d : ~CloseFails(d)
<1>1. UNCHANGED <<disk, whole, changes>> /\ Types /\ Ordered /\ faults' = 0
  BY LoadLeavesFiles DEF environment, LoadInv, Undisturbed
<1>2. ~Fails
  BY <1>1 DEF Fails, Types
<1>3. \A d : ~CloseFails(d)
  BY <1>2 DEF CloseFails
<1>4. faults = 0
  <2>1. Works => faults = 0
    BY <1>1 DEF Works
  <2>2. ASSUME NEW d, Close(d) PROVE faults = 0
    BY <2>1, <2>2 DEF Close
  <2>3. CASE Abandon
    <3>1. PICK failing \in SUBSET Directories : faults' = faults + Cardinality(failing)
      BY <2>3 DEF Abandon
    <3>2. Cardinality(failing) \in Nat
      BY DirectoriesFinite, FS_Subset, FS_CardinalityType
    <3> QED BY <1>1, <3>1, <3>2 DEF Types
  <2> QED BY <1>2, <1>3, <2>1, <2>2, <2>3 DEF Load, Stat, Open, Fstat, Read, Again, NameAgain,
          CloseFile, CloseRefused, OpenDirectory, CloseParent, Leave
<1>5. Undisturbed
  BY <1>1, <1>4 DEF Undisturbed
<1>6. Smooth
  BY <1>5 DEF LoadInv
<1> QED BY <1>1, <1>2, <1>3, <1>4, <1>5, <1>6 DEF Smooth, Undisturbed

LEMMA LoadStaysSmooth ==
    ASSUME LoadInv, Load, Undisturbed'
    PROVE  Smooth'
<1> USE DEF WithFile
<1>0. /\ Smooth /\ Types /\ Ordered /\ UNCHANGED <<disk, faults>>
      /\ ~Fails /\ \A d : ~CloseFails(d)
  BY UndisturbedBefore
<1>1. \A n \in Names : disk'[n] = Original
  BY <1>0 DEF Smooth
<1>2. at \in {"stat", "open", "name_again"} =>
         disk[Name] = Original /\ disk[Name] # Absent
  BY <1>0, NamesInOrder, OriginalFile DEF Smooth, Ordered, FileStages
<1>3. CASE Stat
  BY <1>0, <1>1, <1>2, <1>3, OriginalFile DEF Stat, Smooth
<1>4. CASE Open
  BY <1>0, <1>1, <1>2, <1>4, OriginalFile DEF Open, Smooth
<1>5. CASE Fstat
  <2>1. SizeAccepted(Len(Original.parts)) /\ held = Original /\ before = 0
    BY <1>0, <1>5, OriginalFile, FilesAssumption DEF SizeAccepted, Smooth, Fstat
  <2>2. opened' = Original /\ at' = "read"
    BY <1>0, <1>5, <2>1, OriginalFile DEF Fstat
  <2> QED BY <1>0, <1>1, <1>5, <2>1, <2>2 DEF Fstat, Smooth
<1>6. CASE Read
  <2>1. held = Original /\ opened = Original /\ Len(held.parts) = 2 /\ Len(opened.parts) = 2
    BY <1>0, <1>6, OriginalFile DEF Read, Smooth
  <2>2. CASE Len(got) < 2 /\ at' = at /\ got' = Append(got, Pinned[Len(got) + 1])
    <3>1. Pinned[Len(got) + 1] = "pinned"
      BY <1>0, <2>2, OriginalFile DEF Types
    <3>2. Len(got') <= 2 /\ \A i \in 1..Len(got') : got'[i] = "pinned"
      BY <1>0, <1>6, <2>2, <3>1 DEF Read, Smooth, Types
    <3> QED BY <1>0, <1>1, <1>6, <2>1, <2>2, <3>2 DEF Read, Smooth
  <2>3. CASE ~(Len(got) < 2) /\ at' = "again" /\ got' = got
    <3>1. got = Pinned
      <4>1. got \in Seq(Parts) /\ Len(got) <= 2 /\ \A i \in 1..Len(got) : got[i] = "pinned"
        BY <1>0, <1>6 DEF Read, Smooth, Types
      <4> PICK n \in Nat : n = Len(got)
        BY <4>1
      <4>2. n = 2
        BY <2>3, <4>1
      <4>3. got[1] = "pinned" /\ got[2] = "pinned"
        BY <4>1, <4>2
      <4> QED BY <4>1, <4>2, <4>3, WholeParts
    <3> QED BY <1>0, <1>1, <1>6, <2>1, <2>3, <3>1 DEF Read, Smooth
  <2> QED BY <1>0, <1>6, <2>1, <2>2, <2>3, OriginalFile DEF Read
<1>7. CASE Again
  <2>1. Same(held) /\ Len(got) = Len(opened.parts)
    BY <1>0, <1>7, OriginalFile DEF Again, Smooth, Same
  <2>2. at' \in {"name_again", "close"}
    BY <1>0, <1>7, <2>1 DEF Again
  <2> QED BY <1>0, <1>1, <1>7, <2>2 DEF Again, Smooth
<1>8. CASE NameAgain
  <2>1. Same(disk[Name])
    BY <1>0, <1>2, <1>8, OriginalFile DEF NameAgain, Smooth, Same
  <2>2. at' = "close"
    BY <1>0, <1>2, <1>8, <2>1 DEF NameAgain
  <2> QED BY <1>0, <1>1, <1>8, <2>2 DEF NameAgain, Smooth
<1>9. CASE CloseFile
  <2>1. got = Pinned /\ Accepts(got)
    BY <1>0, <1>9, OriginalFile DEF CloseFile, Smooth, Accepts
  <2>2. texts' = Append(texts, got) /\ at' \in {"walk", "leave", "stat"} /\ got' = <<>>
    BY <1>0, <1>9, <2>1 DEF CloseFile, Shut
  <2>3. \A i \in DOMAIN texts' : texts'[i] = Pinned
    BY <1>0, <2>1, <2>2 DEF Smooth, Types
  <2> QED BY <1>1, <2>2, <2>3 DEF Smooth
<1>10. CASE CloseRefused \/ Abandon
  BY <1>0, <1>10 DEF CloseRefused, Abandon, Smooth
<1>11. CASE OpenDirectory
  BY <1>0, <1>1, <1>11 DEF OpenDirectory, Inside, Smooth
<1>12. CASE CloseParent
  BY <1>0, <1>1, <1>12 DEF CloseParent, Inside, Smooth
<1>13. CASE Leave
  <2>1. PackAccepted
    BY <1>0, <1>13 DEF Leave, Smooth, PackAccepted
  <2> QED BY <1>0, <1>1, <1>13, <2>1 DEF Leave, Smooth
<1> QED BY <1>3, <1>4, <1>5, <1>6, <1>7, <1>8, <1>9, <1>10, <1>11, <1>12, <1>13 DEF Load

LEMMA LoadKeepsLoad ==
    ASSUME LoadInv, Load
    PROVE  LoadInv'
<1>1. Pins'
  <2> SUFFICES ASSUME at' = "loaded", NEW i \in DOMAIN Order, Order[i] \in Pack
               PROVE  texts'[i] = Pinned
    BY DEF Pins
  <2>1. Leave /\ PackAccepted /\ texts' = texts
    BY DEF Load, Stat, Open, Fstat, Read, Again, NameAgain, CloseFile, CloseRefused,
       OpenDirectory, CloseParent, Leave, Abandon, Refuse, Inside
  <2>2. DOMAIN texts = 1..5
    <3>1. next = 6 /\ Len(texts) = next - 1 /\ texts \in Seq(Seq(Parts))
      BY <2>1 DEF LoadInv, Types, Ordered, Leave
    <3>2. Len(texts) = 5
      BY <3>1
    <3> QED BY <3>1, <3>2
  <2>3. DOMAIN Order = 1..5
    BY DEF Order
  <2> QED BY <2>1, <2>2, <2>3 DEF PackAccepted
<1> QED BY <1>1, LoadKeepsTypes, LoadKeepsOrder, LoadKeepsClosing, LoadStaysSmooth DEF LoadInv

\* What the invariant says of the end.
LEMMA LoadEnds == LoadInv => LoadsSound /\ DescriptorsClosed
<1> SUFFICES ASSUME LoadInv PROVE LoadsSound /\ DescriptorsClosed
  OBVIOUS
<1>1. LoadsSound
  BY DEF LoadInv, Pins, Types, Undisturbed, Smooth, LoadsSound
<1>2. DescriptorsClosed
  BY DEF LoadInv, Closes, Mine, FileStages, WithFile, Ended, DescriptorsClosed
<1> QED BY <1>1, <1>2

-----------------------------------------------------------------------------
(***************************************************************************)
(* The report.  Of each case that ended it says whether it passed, and of  *)
(* each dimension which of them expected something of it and which of      *)
(* those failed; of the case that runs, what was found so far.             *)
(***************************************************************************)
Failed(c, d) == d \in Expected(c) /\ (c \in raised \/ <<c, d>> \in missed)

Counted ==
    /\ case \in 1..Len(Cases) + 1 /\ passed \in Seq(BOOLEAN) /\ Len(passed) = case - 1
    /\ raised \subseteq 1..case - 1

InProgress ==
    /\ case \in DOMAIN Cases => step \in 1..Len(Cases[case]) + 1
    /\ case \in DOMAIN Cases => seen = UNION {Cases[case][i] : i \in 1..step - 1}
    /\ \A code \in codes : code.dimension \in seen
    /\ \A d : <<case, d>> \in missed <=> \E code \in codes : code.dimension = d
    /\ \A c \in Nat : c > case => \A d : <<c, d>> \notin missed

PassedHonest ==
    \A c \in 1..case - 1 :
        /\ passed[c] <=> c \notin raised /\ \A d \in Dimensions : <<c, d>> \notin missed
        /\ \A d : <<c, d>> \in missed => d \in Expected(c)

DimensionsHonest ==
    /\ coverage = [d \in Dimensions |-> {c \in 1..case - 1 : d \in Expected(c)}]
    /\ dimension_failures = [d \in Dimensions |-> {c \in 1..case - 1 : Failed(c, d)}]

ReportInv == Counted /\ InProgress /\ PassedHonest /\ DimensionsHonest

LEMMA CaseFacts ==
    /\ Len(Cases) \in Nat /\ Len(Cases) >= 1 /\ DOMAIN Cases = 1..Len(Cases)
    /\ \A c \in DOMAIN Cases :
          /\ Len(Cases[c]) \in 1..3 /\ DOMAIN Cases[c] = 1..Len(Cases[c])
          /\ Expected(c) \subseteq Dimensions /\ Expected(c) # {}
<1>1. Len(Cases) \in Nat /\ Len(Cases) >= 1 /\ DOMAIN Cases = 1..Len(Cases)
  BY CasesAssumption
<1>2. ASSUME NEW c \in DOMAIN Cases
      PROVE  /\ Len(Cases[c]) \in 1..3 /\ DOMAIN Cases[c] = 1..Len(Cases[c])
             /\ Expected(c) \subseteq Dimensions /\ Expected(c) # {}
  <2>1. Cases[c] \in Seq(SUBSET Dimensions) /\ Len(Cases[c]) \in 1..3
        /\ \A j \in DOMAIN Cases[c] : Cases[c][j] # {}
    BY CasesAssumption
  <2>2. DOMAIN Cases[c] = 1..Len(Cases[c])
    BY <2>1
  <2>3. 1 \in DOMAIN Cases[c]
    BY <2>1, <2>2
  <2>4. \A i \in DOMAIN Cases[c] : Cases[c][i] \subseteq Dimensions
    BY <2>1
  <2> QED BY <2>1, <2>2, <2>3, <2>4 DEF Expected
<1> QED BY <1>1, <1>2

LEMMA ReportStarts == Init => ReportInv
<1> SUFFICES ASSUME Init PROVE ReportInv
  OBVIOUS
<1>1. /\ case = 1 /\ step = 1 /\ seen = {} /\ codes = {} /\ passed = <<>> /\ missed = {}
      /\ raised = {} /\ coverage = [d \in Dimensions |-> {}]
      /\ dimension_failures = [d \in Dimensions |-> {}]
  BY DEF Init
<1>2. Counted
  BY <1>1, CaseFacts DEF Counted
<1>3. InProgress
  BY <1>1, CaseFacts DEF InProgress
<1>4. PassedHonest
  BY <1>1 DEF PassedHonest
<1>5. DimensionsHonest
  BY <1>1 DEF DimensionsHonest
<1> QED BY <1>2, <1>3, <1>4, <1>5 DEF ReportInv

LEMMA StepKeepsReport ==
    ASSUME ReportInv, EvaluateStep
    PROVE  ReportInv'
<1>1. PICK found \in SUBSET UNION {CodesOf(d) : d \in Cases[case][step]} :
         /\ codes' = codes \cup found
         /\ missed' = missed \cup {<<case, code.dimension>> : code \in found}
  BY DEF EvaluateStep
<1>2. /\ case \in DOMAIN Cases /\ step \in DOMAIN Cases[case]
      /\ seen' = seen \cup Cases[case][step] /\ step' = step + 1
      /\ UNCHANGED <<case, coverage, dimension_failures, passed, raised>>
  BY DEF EvaluateStep, Running
<1>3. \A code \in found : code.dimension \in Cases[case][step]
  BY DEF CodesOf
<1>4. /\ \A c, d : c # case => (<<c, d>> \in missed' <=> <<c, d>> \in missed)
      /\ \A d : <<case, d>> \in missed'
                  <=> <<case, d>> \in missed \/ \E code \in found : code.dimension = d
  BY <1>1
<1>5. case \in Nat /\ \A c \in 1..case - 1 : c # case
  BY <1>2, CaseFacts
<1>6. Counted'
  BY <1>2 DEF ReportInv, Counted
<1>7. InProgress'
  <2>1. step' \in 1..Len(Cases[case]) + 1 /\ 1..step' - 1 = (1..step - 1) \cup {step}
    BY <1>2, CaseFacts
  <2>2. seen' = UNION {Cases[case][i] : i \in 1..step' - 1}
    BY <1>2, <2>1 DEF ReportInv, InProgress
  <2>3. \A code \in codes' : code.dimension \in seen'
    BY <1>1, <1>2, <1>3 DEF ReportInv, InProgress
  <2>4. \A d : <<case, d>> \in missed' <=> \E code \in codes' : code.dimension = d
    BY <1>1, <1>4 DEF ReportInv, InProgress
  <2>5. \A c \in Nat : c > case => \A d : <<c, d>> \notin missed'
    BY <1>4, <1>5 DEF ReportInv, InProgress
  <2> QED BY <1>2, <2>1, <2>2, <2>3, <2>4, <2>5 DEF InProgress
<1>8. PassedHonest'
  BY <1>2, <1>4, <1>5 DEF ReportInv, PassedHonest, Expected
<1>9. DimensionsHonest'
  BY <1>2, <1>4, <1>5 DEF ReportInv, DimensionsHonest, Failed, Expected
<1> QED BY <1>6, <1>7, <1>8, <1>9 DEF ReportInv

\* What a case that ends adds to the report.
LEMMA ReportKeepsReport ==
    ASSUME ReportInv, Running, NEW failed, NEW ok \in BOOLEAN,
           Report(Expected(case), failed, ok), missed' = missed,
           raised' = raised \/ raised' = raised \cup {case},
           failed = {d \in Expected(case) : case \in raised' \/ <<case, d>> \in missed},
           ok <=> case \notin raised' /\ \A d \in Dimensions : <<case, d>> \notin missed
    PROVE  ReportInv'
<1>1. /\ coverage' = [d \in Dimensions |->
                         coverage[d] \cup {c \in {case} : d \in Expected(case)}]
      /\ dimension_failures' = [d \in Dimensions |->
                         dimension_failures[d] \cup {c \in {case} : d \in failed}]
      /\ passed' = Append(passed, ok)
      /\ case' = case + 1 /\ step' = 1 /\ seen' = {} /\ codes' = {}
  BY DEF Report
<1>2. /\ case \in DOMAIN Cases /\ case \in Nat
      /\ 1..case' - 1 = (1..case - 1) \cup {case} /\ \A c \in 1..case - 1 : c # case
  BY <1>1, CaseFacts DEF Running
<1>3. \A d : <<case, d>> \in missed => d \in Expected(case)
  <2>1. \A i \in 1..step - 1 : i \in DOMAIN Cases[case]
    BY <1>2, CaseFacts DEF ReportInv, InProgress
  <2>2. seen \subseteq Expected(case)
    BY <1>2, <2>1 DEF ReportInv, InProgress, Expected
  <2> QED BY <2>2 DEF ReportInv, InProgress
<1>4. Counted'
  <2>1. passed \in Seq(BOOLEAN) /\ Len(passed) = case - 1 /\ raised \subseteq 1..case - 1
    BY DEF ReportInv, Counted
  <2>2. passed' \in Seq(BOOLEAN) /\ Len(passed') = case
    BY <1>1, <1>2, <2>1
  <2>3. raised' \subseteq 1..case' - 1
    BY <1>2, <2>1
  <2>4. case' \in 1..Len(Cases) + 1 /\ case' - 1 = case
    BY <1>1, <1>2, CaseFacts
  <2> QED BY <2>2, <2>3, <2>4 DEF Counted
<1>5. InProgress'
  <2>1. case' \in DOMAIN Cases => step' \in 1..Len(Cases[case']) + 1
    BY <1>1, CaseFacts
  <2>2. \A d : <<case', d>> \notin missed'
    BY <1>1, <1>2 DEF ReportInv, InProgress
  <2>3. \A c \in Nat : c > case' => \A d : <<c, d>> \notin missed'
    BY <1>1, <1>2 DEF ReportInv, InProgress
  <2>4. seen' = UNION {Cases[case'][i] : i \in 1..step' - 1}
    BY <1>1
  <2> QED BY <1>1, <2>1, <2>2, <2>3, <2>4 DEF InProgress
<1>6. \A c \in 1..case - 1 : c \in raised' <=> c \in raised
  BY <1>2
<1>7. PassedHonest'
  <2>1. passed'[case] = ok /\ \A c \in 1..case - 1 : passed'[c] = passed[c]
    BY <1>1, <1>2 DEF ReportInv, Counted
  <2>2. ASSUME NEW c \in 1..case - 1
        PROVE  /\ passed'[c] <=> c \notin raised' /\ \A d \in Dimensions : <<c, d>> \notin missed
               /\ \A d : <<c, d>> \in missed => d \in Expected(c)
    BY <1>6, <2>1 DEF ReportInv, PassedHonest
  <2> QED BY <1>2, <1>3, <2>1, <2>2 DEF PassedHonest, Expected
<1>8. DimensionsHonest'
  <2>1. coverage' = [d \in Dimensions |-> {c \in 1..case' - 1 : d \in Expected(c)}]
    BY <1>1, <1>2 DEF ReportInv, DimensionsHonest
  <2>2. dimension_failures' = [d \in Dimensions |-> {c \in 1..case' - 1 : Failed(c, d)'}]
    BY <1>1, <1>2, <1>6 DEF ReportInv, DimensionsHonest, Failed, Expected
  <2> QED BY <2>1, <2>2 DEF DimensionsHonest, Expected
<1> QED BY <1>4, <1>5, <1>7, <1>8 DEF ReportInv

LEMMA EndKeepsReport ==
    ASSUME ReportInv, EndCase \/ CaseRaises
    PROVE  ReportInv'
<1>1. Running /\ case \in DOMAIN Cases /\ case \notin raised
  BY CaseFacts DEF EndCase, CaseRaises, Running, ReportInv, Counted
<1>2. CASE EndCase
  <2>1. step = Len(Cases[case]) + 1
    BY <1>1, <1>2, CaseFacts DEF EndCase, ReportInv, InProgress
  <2>2. seen = Expected(case)
    BY <1>1, <2>1, CaseFacts DEF ReportInv, InProgress, Expected
  <2>3. {code.dimension : code \in codes} = {d \in Expected(case) : <<case, d>> \in missed}
    BY <2>2 DEF ReportInv, InProgress
  <2>4. codes = {} <=> \A d \in Dimensions : <<case, d>> \notin missed
    <3>1. \A d : <<case, d>> \in missed <=> \E code \in codes : code.dimension = d
      BY DEF ReportInv, InProgress
    <3>2. \A code \in codes : code.dimension \in Dimensions
      BY <1>1, <2>2, CaseFacts DEF ReportInv, InProgress
    <3>3. ASSUME NEW code \in codes PROVE <<case, code.dimension>> \in missed
      BY <3>1
    <3> QED BY <3>1, <3>2, <3>3
  <2> QED BY <1>1, <1>2, <2>2, <2>3, <2>4, ReportKeepsReport DEF EndCase
<1>3. CASE CaseRaises
  <2>1. ~(Expected(case) = {})
    BY <1>1, CaseFacts
  <2> QED BY <1>1, <1>3, <2>1, ReportKeepsReport DEF CaseRaises
<1> QED BY <1>2, <1>3

LEMMA ReportEnds == ReportInv => ReportHonest
<1> SUFFICES ASSUME ReportInv, Reported PROVE ReportHonest
  BY DEF ReportHonest
<1>1. 1..case - 1 = DOMAIN Cases
  BY CaseFacts DEF Reported, ReportInv, Counted
<1>2. DOMAIN passed = DOMAIN Cases
  BY <1>1 DEF ReportInv, Counted
<1>3. \A c \in DOMAIN Cases :
          passed[c] <=> c \notin raised /\ \A d \in Dimensions : <<c, d>> \notin missed
  BY <1>1 DEF ReportInv, PassedHonest
<1>4. ASSUME NEW d \in Dimensions
      PROVE  /\ coverage[d] = {c \in DOMAIN Cases : d \in Expected(c)}
             /\ dimension_failures[d] = {c \in DOMAIN Cases : Failed(c, d)}
  BY <1>1 DEF ReportInv, DimensionsHonest
<1>5. ASSUME NEW d \in Dimensions
      PROVE  LET expecting == {c \in DOMAIN Cases : d \in Expected(c)}
             IN /\ coverage[d] = expecting
                /\ DimensionPasses(d) <=>
                      /\ expecting # {}
                      /\ \A c \in expecting : c \notin raised /\ <<c, d>> \notin missed
  BY <1>4 DEF DimensionPasses, Failed
<1>6. FailedCount = 0 <=> \A c \in DOMAIN Cases : passed[c]
  <2> DEFINE F == {c \in DOMAIN passed : ~passed[c]}
  <2>1. IsFiniteSet(F)
    <3>1. IsFiniteSet(DOMAIN Cases)
      BY CaseFacts, FS_Interval
    <3> QED BY <1>2, <3>1, FS_Subset
  <2>2. Cardinality(F) = 0 <=> F = {}
    BY <2>1, FS_EmptySet
  <2> QED BY <1>2, <2>2 DEF FailedCount
<1>7. (\A c \in DOMAIN Cases : passed[c]) <=> \A d \in Dimensions : dimension_failures[d] = {}
  <2>1. ASSUME NEW c \in DOMAIN Cases
        PROVE  passed[c] <=> \A d \in Dimensions : ~Failed(c, d)
    BY <1>1, <1>3, <2>1, CaseFacts DEF Failed, ReportInv, PassedHonest
  <2> QED BY <1>4, <2>1
<1> QED BY <1>2, <1>3, <1>5, <1>6, <1>7 DEF ReportHonest

-----------------------------------------------------------------------------
(* The theorems *)

LEMMA InvHolds == Spec => [](LoadInv /\ ReportInv)
<1>1. Init => LoadInv /\ ReportInv
  BY LoadStarts, ReportStarts DEF Init
<1>2. ASSUME LoadInv, ReportInv, [Next]_vars PROVE LoadInv' /\ ReportInv'
  <2>1. UNCHANGED running => ReportInv'
    <3> SUFFICES ASSUME UNCHANGED running PROVE ReportInv'
      OBVIOUS
    <3>1. Counted'
      BY <1>2 DEF running, ReportInv, Counted
    <3>2. InProgress'
      BY <1>2 DEF running, ReportInv, InProgress
    <3>3. PassedHonest'
      BY <1>2 DEF running, ReportInv, PassedHonest, Expected
    <3>4. DimensionsHonest'
      BY <1>2 DEF running, ReportInv, DimensionsHonest, Failed, Expected
    <3> QED BY <3>1, <3>2, <3>3, <3>4 DEF ReportInv
  <2>2. UNCHANGED loading => LoadInv'
    <3> SUFFICES ASSUME UNCHANGED loading PROVE LoadInv'
      OBVIOUS
    <3>0. /\ UNCHANGED <<disk, whole, at, level, next, before, held, opened, got, texts>>
          /\ UNCHANGED <<open, stuck, changes, faults>>
      BY DEF loading, environment, descriptors
    <3>1. Types' /\ Ordered'
      BY <1>2, <3>0 DEF LoadInv, Types, Ordered
    <3>2. Closes'
      BY <1>2, <3>0 DEF LoadInv, Closes, Mine, Name
    <3>3. Undisturbed' => Smooth'
      BY <1>2, <3>0 DEF LoadInv, Undisturbed, Smooth
    <3>4. Pins'
      BY <1>2, <3>0 DEF LoadInv, Pins
    <3> QED BY <3>1, <3>2, <3>3, <3>4 DEF LoadInv
  <2>3. CASE Load /\ UNCHANGED running
    BY <1>2, <2>1, <2>3, LoadKeepsLoad
  <2>4. CASE Interfere /\ UNCHANGED running
    BY <1>2, <2>1, <2>4, InterfereKeepsLoad
  <2>5. CASE EvaluateStep
    BY <1>2, <2>2, <2>5, StepKeepsReport DEF EvaluateStep
  <2>6. CASE EndCase \/ CaseRaises
    BY <1>2, <2>2, <2>6, EndKeepsReport DEF EndCase, CaseRaises, Report
  <2>7. CASE UNCHANGED vars
    BY <1>2, <2>1, <2>2, <2>7 DEF vars
  <2> QED BY <1>2, <2>3, <2>4, <2>5, <2>6, <2>7 DEF Next
<1> QED BY <1>1, <1>2, PTL DEF Spec

\* A pack that is loaded is the pinned one, and one that nothing disturbed is.
THEOREM LoadsAreSound == Spec => []LoadsSound
<1>1. LoadInv => LoadsSound
  BY LoadEnds
<1> QED BY <1>1, InvHolds, PTL

\* No way out of reading leaves a descriptor open that could be closed.
THEOREM DescriptorsAreClosed == Spec => []DescriptorsClosed
<1>1. LoadInv => DescriptorsClosed
  BY LoadEnds
<1> QED BY <1>1, InvHolds, PTL

\* The report of a suite says of its cases and dimensions what happened.
THEOREM ReportsAreHonest == Spec => []ReportHonest
<1>1. ReportInv => ReportHonest
  BY ReportEnds
<1> QED BY <1>1, InvHolds, PTL
=============================================================================
