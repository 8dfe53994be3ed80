---------------------------- MODULE MCLedgerFile ----------------------------
(* Two threads of one process and one of another.  States that differ only *)
(* in what unused inodes held, or in the last call of an idle thread, are  *)
(* taken as one.                                                           *)
EXTENDS LedgerFile, TLC
CONSTANTS t1, t2, t3, p1, p2
MCProcessOf == [t \in Threads |-> IF t = t3 THEN p2 ELSE p1]

AnyInode == Permutations(Inodes)

Busy == {t \in Threads : ~At(t, "idle")}
Live == [dir |-> dir, disk |-> disk, passed |-> passed,
         data |-> [n \in InUse \ {Absent} |-> data[n]],
         torn |-> torn \cap InUse, synced |-> synced \cap InUse,
         locks |-> locks, pc |-> pc, memory |-> memory,
         calls |-> [t \in Busy |-> <<job[t], result[t]>>],
         gone |-> gone, faults |-> faults]
=============================================================================
