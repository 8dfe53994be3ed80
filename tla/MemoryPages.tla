------------------------------ MODULE MemoryPages ------------------------------
(***************************************************************************)
(* The list of stored versions that a chat is shown page by page: _inspect *)
(* of src/humanlike_agent/native.py over inspect_page of personal.py, with *)
(* other callers at work on the same memory.  A page takes three reads,    *)
(* the policy, one snapshot and the policy again, and the next page is     *)
(* asked for at any time later.                                            *)
(***************************************************************************)
EXTENDS PersonalMemory

CONSTANTS PageSize,  \* versions of a page: 5 in the code
          NoPage

ASSUME PageAssumption == PageSize \in Nat \ {0}

VARIABLES cursor,   \* where the next page begins, and the policy it needs
          looking,  \* the page that is being read
          list      \* history: what the pages shown so far say is stored

pages == <<cursor, looking, list>>

NoList == [policy |-> EmptyImage.policy, shown |-> {}, active |-> {}, more |-> TRUE]
PagesInit == Init /\ cursor = NoPage /\ looking = NoPage /\ list = NoList

-----------------------------------------------------------------------------
(* inspect_page *)

Later(after) == {f \in db.facts : f.sequence > after}

\* A page, and one version more tells whether there is another.
FirstOf(F) == {f \in F : Cardinality({h \in F : h.sequence < f.sequence}) < PageSize}

LastOf(F) == CHOOSE f \in F : \A h \in F : h.sequence <= f.sequence
MarkedActive(F) == {f \in F : ActiveInPage(db, f)}

-----------------------------------------------------------------------------
(* _inspect *)

Look(after, earlier) ==
    /\ looking = NoPage
    /\ looking' = [stage |-> "snapshot", policy |-> db.policy, after |-> after,
                   earlier |-> earlier, rows |-> {}, active |-> {}, more |-> FALSE]
    /\ cursor' = NoPage
    /\ UNCHANGED list

\* "what do you remember"
Inspect == Look(0, NoList)

\* A slip: pages go on whatever became of the memory.
ContinuesAlways == TRUE
Continues == cursor.policy = db.policy

\* "next memory page": without its cursor, or under another policy, the list
\* has to be asked for again.
NextPage ==
    /\ cursor # NoPage
    /\ IF Continues THEN Look(cursor.after, list)
       ELSE looking = NoPage /\ cursor' = NoPage /\ UNCHANGED <<looking, list>>

Snapshot ==
    /\ looking # NoPage /\ looking.stage = "snapshot"
    /\ LET later == Later(looking.after)
           rows == FirstOf(later)
       IN looking' = IF db.policy = looking.policy
                     THEN [looking EXCEPT !.stage = "answer", !.rows = rows,
                              !.active = MarkedActive(rows), !.more = rows # later]
                     ELSE NoPage
    /\ UNCHANGED <<cursor, list>>

\* A page without versions says that nothing is stored.
Listed ==
    IF looking.rows = {}
    THEN [NoList EXCEPT !.policy = looking.policy, !.more = FALSE]
    ELSE [policy |-> looking.policy,
          shown |-> looking.earlier.shown \cup looking.rows,
          active |-> looking.earlier.active \cup looking.active,
          more |-> looking.more]

Answer ==
    /\ looking # NoPage /\ looking.stage = "answer"
    /\ IF db.policy = looking.policy
       THEN /\ list' = Listed
            /\ cursor' = IF looking.more
                         THEN [policy |-> looking.policy,
                               after |-> LastOf(looking.rows).sequence]
                         ELSE NoPage
       ELSE UNCHANGED <<cursor, list>>
    /\ looking' = NoPage

\* A read raises; or the cursor is another session's or too old, its chat was
\* finalized, or other chats pushed it out.
LosePage ==
    /\ cursor # NoPage \/ looking # NoPage
    /\ cursor' = NoPage /\ looking' = NoPage /\ UNCHANGED list

PagesNext ==
    \/ Next /\ UNCHANGED pages
    \/ /\ Inspect \/ NextPage \/ Snapshot \/ Answer \/ LosePage
       /\ UNCHANGED vars

PagesSpec == PagesInit /\ [][PagesNext]_<<vars, pages>>

-----------------------------------------------------------------------------
(***************************************************************************)
(* Pages that were read at different times make one list: while the policy *)
(* is the one of the last page, every version shown is stored and marked   *)
(* active if it is, and every version stored was shown or comes after the  *)
(* last page.  Only the capture that was reserved last may have been       *)
(* stored since, and may have replaced what is shown as active.            *)
(***************************************************************************)
Underway(f) == f.sequence = db.policy.watermark
PagesTell ==
    list # NoList /\ list.policy = db.policy =>
        /\ list.shown \subseteq db.facts
        /\ \A f \in db.facts \ list.shown :
              \/ list.more /\ f.sequence > LastOf(list.shown).sequence
              \/ Underway(f)
        /\ \A f \in list.shown :
              \/ f \in list.active <=> ActiveInPage(db, f)
              \/ \E h \in db.facts : Underway(h) /\ f.id \in h.supersedes
=============================================================================
