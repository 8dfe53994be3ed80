------------------------------ MODULE Continuity ------------------------------
(***************************************************************************)
(* What resolve_recent (src/humanlike_agent/continuity.py) takes from the  *)
(* recent history that Hermes passes along with a turn, oldest first, for  *)
(* one of the four references a message can make: "continue", "the second  *)
(* version", "use my last correction" and "we discussed" some topic.  Of a *)
(* row's text only what these look for is kept.                            *)
(***************************************************************************)
EXTENDS Integers, Sequences, FiniteSets
LOCAL INSTANCE SequencesExt

CONSTANT Window  \* rows of the history that are recent
ASSUME WindowAssumption == Window \in Nat \ {0}

References == {"continue", "second", "correction", "topic"}
Roles == {"user", "assistant", "tool", "other"}
RowChars == 4096
ArtifactChars == 16384
Budget == 2200
RowLimit == 4

\* A line that begins a version, in one of the styles and with a number.
Heading == [style : {"version", "dot", "parenthesis"}, number : Nat]

(***************************************************************************)
(* A row: its role; the length of its text, 0 if it has none; whether it   *)
(* is the request's own words, begins like a correction, or mentions a     *)
(* topic of 3 to 80 characters; whether it has fences or quotations; its   *)
(* headings, whether other lines look like one, and the length of its      *)
(* second block.                                                           *)
(***************************************************************************)
Row == [role : Roles, chars : Nat, echo : BOOLEAN, corrects : BOOLEAN, mentions : BOOLEAN,
        quoted : BOOLEAN, headings : Seq(Heading), ambiguous : BOOLEAN, block : Nat]

Recent(history) == SubSeq(history, IF Len(history) > Window THEN Len(history) - Window + 1 ELSE 1,
                          Len(history))

\* The part of a row that is shown: all of its text, or its second block.
Whole(row) == [row |-> row, chars |-> row.chars]
Answer(status, items) == [status |-> status, items |-> items]

-----------------------------------------------------------------------------
(* _second *)

\* Numbered from one on, in one style, with nothing else that looks like it.
Numbered(row) ==
    /\ Len(row.headings) >= 2 /\ ~row.ambiguous
    /\ \A i \in DOMAIN row.headings :
          row.headings[i].number = i /\ row.headings[i].style = row.headings[1].style

Second(history) ==
    LET artifacts == SelectSeq(Recent(history), LAMBDA row : row.role = "assistant")
        row == Last(artifacts)
    IN IF \/ artifacts = <<>> \/ row.chars = 0 \/ row.chars > ArtifactChars
          \/ row.quoted \/ ~Numbered(row) \/ row.block \notin 1..Budget
       THEN Answer("clarify", <<>>)
       ELSE Answer("matched", <<[row |-> row, chars |-> row.block]>>)

-----------------------------------------------------------------------------
(* resolve_recent *)

\* The rows that may be shown: the request itself, which Hermes may have added
\* to the history, is not one of them.
Rows(history) ==
    SelectSeq(Recent(history),
              LAMBDA row : /\ row.role # "other" /\ row.chars \in 1..RowChars
                           /\ ~(row.role = "user" /\ row.echo))

\* The rows one reference selects among them.
Continued(rows) ==
    LET answers == {i \in DOMAIN rows : rows[i].role = "assistant"}
        i == CHOOSE n \in answers : \A m \in answers : m <= n
        first == IF i = 1 THEN 1 ELSE i - 1
        last == IF i + 2 < Len(rows) THEN i + 2 ELSE Len(rows)
    IN IF answers = {} THEN <<>> ELSE SubSeq(rows, first, last)
Corrections(rows) == SelectSeq(rows, LAMBDA row : row.role = "user" /\ row.corrects)
Corrected(rows) ==
    LET all == Corrections(rows) IN IF all = <<>> THEN <<>> ELSE <<Last(all)>>
Mentions(rows) ==
    SelectSeq(rows, LAMBDA row : row.role \in {"user", "assistant"} /\ row.mentions)

\* Each row that still fits is shown whole; one that does not is left out.
Take(taken, row) ==
    IF row.chars > taken.budget THEN taken
    ELSE [items |-> Append(taken.items, Whole(row)), budget |-> taken.budget - row.chars]
Bounded(rows) ==
    FoldLeft(Take, [items |-> <<>>, budget |-> Budget],
             SubSeq(rows, 1, IF Len(rows) < RowLimit THEN Len(rows) ELSE RowLimit)).items

ResolveRecent(reference, history) ==
    LET rows == Rows(history)
        shown == Bounded(CASE reference = "continue" -> Continued(rows)
                           [] reference = "correction" -> Corrected(rows)
                           [] reference = "topic" ->
                                 IF Len(Mentions(rows)) = 1 THEN Mentions(rows) ELSE <<>>)
    IN IF reference = "second" THEN Second(history)
       ELSE IF shown # <<>> THEN Answer("matched", shown)
       ELSE IF reference = "topic" /\ Len(Mentions(rows)) > 1 THEN Answer("clarify", <<>>)
       ELSE Answer("not_found", <<>>)

-----------------------------------------------------------------------------
(* What the documentation promises (docs/HERMES_INSTALL.md, Continuity) *)

Shows(answer) == [i \in DOMAIN answer.items |-> answer.items[i].row]
Chars(answer) == FoldLeft(LAMBDA sum, item : sum + item.chars, 0, answer.items)

(***************************************************************************)
(* The second version comes from the latest assistant artifact alone: one  *)
(* that is too long, quoted or numbered otherwise never falls back to an   *)
(* older one.  A correction is the last that may be shown, and a topic is  *)
(* matched only if one row mentions it.  What is shown is recent, never    *)
(* the request itself, and short.                                          *)
(***************************************************************************)
ResolvedAsPromised(reference, history) ==
    LET answer == ResolveRecent(reference, history)
        recent == Recent(history)
        showable(i) == Rows(<<recent[i]>>) # <<>>
    IN /\ answer.status = "matched" <=> answer.items # <<>>
       /\ Chars(answer) <= Budget /\ Len(answer.items) <= RowLimit
       /\ \A i \in DOMAIN answer.items :
             \E n \in DOMAIN recent :
                 /\ answer.items[i].row = recent[n]
                 /\ reference # "second" => showable(n)
       /\ reference \in {"second", "correction"} /\ answer.items # <<>> =>
             LET wanted(row) == IF reference = "second" THEN row.role = "assistant"
                                ELSE Corrections(Rows(<<row>>)) # <<>>
             IN \E n \in DOMAIN recent :
                   /\ Shows(answer) = <<recent[n]>> /\ wanted(recent[n])
                   /\ \A m \in (n + 1)..Len(recent) : ~wanted(recent[m])
       /\ reference = "topic" /\ answer.items # <<>> =>
             Cardinality({n \in DOMAIN recent :
                            showable(n) /\ recent[n].mentions /\ recent[n].role # "tool"}) = 1

\* The code promises less of "continue": the rows around the latest answer are
\* taken oldest first, so what comes before it may leave no room for it.
LatestAnswerMissing(history) ==
    LET answer == ResolveRecent("continue", history)
        answers == SelectSeq(Rows(history), LAMBDA row : row.role = "assistant")
    IN answer.items # <<>> /\ answers # <<>>
       /\ \A i \in DOMAIN answer.items : answer.items[i].row # Last(answers)
=============================================================================
