------------------------------ MODULE PackFiles ------------------------------
(***************************************************************************)
(* What a conformance run reads before it can begin: the two case files    *)
(* (load_cases of src/humanlike_agent/evals.py) and the foundation pack,   *)
(* whose manifest is pinned by its digest (_load_foundation_pack of        *)
(* src/humanlike_agent/creative.py), on POSIX.  Meanwhile other programs   *)
(* replace, rewrite and remove those files, and system calls fail.  A file *)
(* is a few parts, and two digests are equal when the parts are; what else *)
(* is refused (links, modes, what the text says) is left out.              *)
(***************************************************************************)
EXTENDS Integers, Sequences, FiniteSets

CONSTANTS Path,      \* the directories down to the pack's, outermost first
          SizeLimit, \* parts of a file that is not too large
          MaxChanges, MaxFaults,
          Absent

Suite == {"ru", "en"}
Pack == {"manifest", "rubric", "anti_patterns"}
Names == Suite \cup Pack
Order == <<"ru", "en", "manifest", "rubric", "anti_patterns">>

ASSUME FilesAssumption ==
    /\ Path \in Seq(STRING) /\ Path # <<>>
    /\ \A i, j \in DOMAIN Path : Path[i] \notin Names /\ (Path[i] = Path[j] => i = j)
    /\ SizeLimit \in Nat \ {0, 1} /\ MaxChanges \in Nat /\ MaxFaults \in Nat

\* Parts as the suite and the pinned pack have them, and parts of something else.
Parts == {"pinned", "other"}
Pinned == <<"pinned", "pinned">>
\* A file, told from others by its inode, and its time of modification.
File == [inode : Nat, parts : Seq(Parts), stamp : Nat]
Original == [inode |-> 0, parts |-> Pinned, stamp |-> 0]
ASSUME AbsentAssumption == Absent \notin File

VARIABLES
    disk,    \* the file of each name, or Absent
    whole,   \* history: whether none was missing or another at first
    at,      \* what the reader is about to do
    level,   \* directories opened on the way to the pack
    next,    \* the place in Order of the file it reads
    before,  \* the inode it saw under that name
    held,    \* the file it has open
    opened,  \* what that was when it was opened
    got,     \* what it has read of it
    texts,   \* what it has read of the files before it
    open,    \* the descriptors it has open
    stuck,   \* history: descriptors whose close failed
    changes, faults

environment == <<disk, whole, changes>>
descriptors == <<open, stuck>>
loading == <<environment, at, level, next, before, held, opened, got, texts,
             descriptors, faults>>

LoadInit ==
    /\ \/ disk = [n \in Names |-> Original]
       \/ \E m \in Names, file \in {Absent, [Original EXCEPT !.parts = <<"other", "other">>]} :
             disk = [n \in Names |-> IF n = m THEN file ELSE Original]
    /\ whole = \A n \in Names : disk[n] = Original
    /\ at = "stat" /\ level = 0 /\ next = 1
    /\ before = 0 /\ held = Absent /\ opened = Original /\ got = <<>>
    /\ texts = <<>>
    /\ open = {} /\ stuck = {} /\ changes = 0 /\ faults = 0

Name == Order[next]
Careful == Name \in Pack
Ended == at \in {"loaded", "refused"}

\* A system call succeeds, or it fails.
Works == UNCHANGED faults
Fails == faults < MaxFaults /\ faults' = faults + 1

-----------------------------------------------------------------------------
(* The other programs.  What they do to a file already read is left out. *)

Change(n, file) ==
    /\ changes < MaxChanges /\ changes' = changes + 1
    /\ \E i \in next..Len(Order) : n = Order[i]
    /\ disk' = [disk EXCEPT ![n] = file]
    /\ UNCHANGED <<whole, at, level, next, before, opened, got, texts, descriptors, faults>>

\* Another file takes the name, or none does.
Replace(n) ==
    /\ \E parts \in {Pinned, <<"other", "other">>}, stamp \in {0, changes + 1} :
          Change(n, [inode |-> changes + 1, parts |-> parts, stamp |-> stamp])
    /\ UNCHANGED held
Remove(n) == Change(n, Absent) /\ UNCHANGED held

\* The file is written in place; the clock may not have moved since.
Rewritten(parts) ==
    {[parts EXCEPT ![i] = part] : i \in DOMAIN parts, part \in Parts}
    \cup {Append(parts, "other"), <<>>}
Rewrite(n) ==
    /\ disk[n] # Absent
    /\ \E parts \in Rewritten(disk[n].parts), stamp \in {disk[n].stamp, changes + 1} :
          LET file == [disk[n] EXCEPT !.parts = parts, !.stamp = stamp]
          IN /\ Change(n, file)
             /\ held' = IF held # Absent /\ n = Name /\ held.inode = disk[n].inode
                        THEN file ELSE held

-----------------------------------------------------------------------------
(* _close_after_failure and the ends of the reads *)

\* A descriptor whose close fails may be closed all the same.
Close(d) == Works /\ open' = open \ {d} /\ UNCHANGED stuck
CloseFails(d) ==
    Fails /\ open' \in {open, open \ {d}} /\ stuck' = stuck \cup {d}

Directory == {Path[i] : i \in DOMAIN Path}
\* A slip: when its parent does not close, the next directory is forgotten.
ParentOnly == {d \in open \cap Directory : stuck = {} \/ d \in stuck}
Directories == open \cap Directory

\* Every directory is closed, whether or not closing them works.
Abandon ==
    /\ at = "abandon"
    /\ \E failing \in SUBSET Directories : \E left \in SUBSET failing :
          /\ faults + Cardinality(failing) <= MaxFaults
          /\ faults' = faults + Cardinality(failing)
          /\ open' = (open \ Directories) \cup left
          /\ stuck' = stuck \cup failing
    /\ at' = "refused"
    /\ UNCHANGED <<environment, level, next, before, held, opened, got, texts>>

\* A case file that is refused ends it all, a file of the pack the pack.
Refuse == at' = IF Careful THEN "abandon" ELSE "refused"

-----------------------------------------------------------------------------
(* _read_case_file and _read_regular_file *)

Stat ==
    /\ at = "stat"
    /\ \/ /\ disk[Name] # Absent /\ Works
          /\ before' = disk[Name].inode /\ at' = "open"
       \/ /\ (disk[Name] = Absent /\ Works) \/ Fails
          /\ Refuse /\ UNCHANGED before
    /\ UNCHANGED <<environment, level, next, held, opened, got, texts, descriptors>>

Open ==
    /\ at = "open"
    /\ \/ /\ disk[Name] # Absent /\ Works
          /\ held' = disk[Name] /\ open' = open \cup {Name} /\ at' = "fstat"
       \/ /\ (disk[Name] = Absent /\ Works) \/ Fails
          /\ Refuse /\ UNCHANGED <<held, open>>
    /\ UNCHANGED <<environment, level, next, before, opened, got, texts, stuck>>

SizeAccepted(size) == size <= SizeLimit /\ (Careful => size >= 1)
Fstat ==
    /\ at = "fstat"
    /\ \/ /\ Works
          /\ opened' = held
          /\ at' = IF held.inode = before /\ SizeAccepted(Len(held.parts))
                   THEN "read" ELSE "close_refused"
       \/ Fails /\ at' = "close_refused" /\ UNCHANGED opened
    /\ UNCHANGED <<environment, level, next, before, held, got, texts, descriptors>>

\* A case file is read to its end; of a file of the pack what it held when it
\* was opened, and then whether there is more.
Read ==
    LET more == Len(got) < Len(held.parts)
        wanted == Careful => Len(got) < Len(opened.parts)
    IN /\ at = "read"
       /\ \/ /\ Works /\ wanted /\ more
             /\ got' = Append(got, held.parts[Len(got) + 1]) /\ UNCHANGED at
          \/ /\ Works /\ ~(wanted /\ more)
             /\ at' = IF Careful /\ (more \/ wanted) THEN "close_refused" ELSE "again"
             /\ UNCHANGED got
          \/ Fails /\ at' = "close_refused" /\ UNCHANGED got
       /\ UNCHANGED <<environment, level, next, before, held, opened, texts, descriptors>>

Same(file) ==
    /\ Len(file.parts) = Len(opened.parts) /\ file.inode = opened.inode
    /\ Careful => file.stamp = opened.stamp

\* The open file is looked at again, and for a pack what its name stands for.
Again ==
    /\ at = "again"
    /\ \/ /\ Works
          /\ at' = IF ~Same(held) \/ Len(got) # Len(opened.parts) THEN "close_refused"
                   ELSE IF Careful THEN "name_again" ELSE "close"
       \/ Fails /\ at' = "close_refused"
    /\ UNCHANGED <<environment, level, next, before, held, opened, got, texts, descriptors>>
NameAgain ==
    /\ at = "name_again"
    /\ \/ /\ disk[Name] # Absent /\ Works
          /\ at' = IF Same(disk[Name]) THEN "close" ELSE "close_refused"
       \/ /\ (disk[Name] = Absent /\ Works) \/ Fails
          /\ at' = "close_refused"
    /\ UNCHANGED <<environment, level, next, before, held, opened, got, texts, descriptors>>

\* The finally of both, and what a text must say: the pinned manifest's is
\* known, a suite has cases, and ones that were changed may be well-formed or not.
Shut ==
    /\ before' = 0 /\ held' = Absent /\ opened' = Original /\ got' = <<>>
    /\ UNCHANGED <<environment, level>>
Accepts(parts) == parts # <<>> /\ (Name = "manifest" => parts = Pinned)
CloseFile ==
    /\ at = "close"
    /\ \/ /\ Close(Name) /\ Accepts(got)
          /\ texts' = Append(texts, got) /\ next' = next + 1
          /\ at' = CASE Name = "en" -> "walk" [] Name = "anti_patterns" -> "leave"
                     [] OTHER -> "stat"
       \/ /\ Close(Name) /\ (~Accepts(got) \/ (Name \in Suite /\ got # Pinned))
          /\ Refuse /\ UNCHANGED <<next, texts>>
       \/ CloseFails(Name) /\ Refuse /\ UNCHANGED <<next, texts>>
    /\ Shut
CloseRefused ==
    /\ at = "close_refused"
    /\ Close(Name) \/ CloseFails(Name)
    /\ Refuse /\ Shut /\ UNCHANGED <<next, texts>>

-----------------------------------------------------------------------------
(* _open_pack_directory and _load_foundation_pack *)

Inside(depth) == IF depth = Len(Path) THEN "stat" ELSE "walk"

\* The next directory is opened before the one it is in is closed.
OpenDirectory ==
    /\ at = "walk"
    /\ \/ /\ Works /\ open' = open \cup {Path[level + 1]} /\ level' = level + 1
          /\ at' = IF level = 0 THEN Inside(1) ELSE "step"
       \/ /\ Fails /\ at' = IF level = 0 THEN "refused" ELSE "abandon"
          /\ UNCHANGED <<open, level>>
    /\ UNCHANGED <<environment, next, before, held, opened, got, texts, stuck>>
CloseParent ==
    /\ at = "step"
    /\ \/ Close(Path[level - 1]) /\ at' = Inside(level)
       \/ CloseFails(Path[level - 1]) /\ at' = "abandon"
    /\ UNCHANGED <<environment, level, next, before, held, opened, got, texts>>
\* A slip: what the manifest says of the files is not compared.
AnyTexts == TRUE
PackAccepted == \A i \in DOMAIN texts : Order[i] \in Pack => texts[i] = Pinned

\* The directory is closed, and then the files are what the manifest says.
Leave ==
    /\ at = "leave"
    /\ \/ /\ Close(Path[Len(Path)])
          /\ at' = IF PackAccepted THEN "loaded" ELSE "refused"
       \/ CloseFails(Path[Len(Path)]) /\ at' = "refused"
    /\ UNCHANGED <<environment, level, next, before, held, opened, got, texts>>

Load ==
    \/ Stat \/ Open \/ Fstat \/ Read \/ Again \/ NameAgain \/ CloseFile \/ CloseRefused
    \/ OpenDirectory \/ CloseParent \/ Leave \/ Abandon
Interfere == ~Ended /\ \E n \in Names : Replace(n) \/ Remove(n) \/ Rewrite(n)

-----------------------------------------------------------------------------
(***************************************************************************)
(* A pack that is loaded is the pinned one, each of its files read whole   *)
(* though they were read one after another while programs wrote to them;   *)
(* and what is on disk is refused only if it was another at first, changed *)
(* meanwhile, or could not be read.                                        *)
(***************************************************************************)
LoadsSound ==
    /\ at = "loaded" => \A i \in DOMAIN Order : Order[i] \in Pack => texts[i] = Pinned
    /\ at = "refused" => ~whole \/ changes > 0 \/ faults > 0

\* However reading ends, every descriptor was closed, but for those whose
\* close failed.
DescriptorsClosed == Ended => open \subseteq stuck
=============================================================================
