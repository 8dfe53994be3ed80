-------------------------- MODULE ConversationRecall --------------------------
(***************************************************************************)
(* What ConversationContext.recall (src/humanlike_agent/conversation.py)   *)
(* shows of the history a host allows a turn to refer to, and what         *)
(* AuthorizedHost.enrich (src/humanlike_agent/host.py) makes of it and of  *)
(* the recalled facts in the turn's context.  The history comes from a     *)
(* callback of the host, newest first, which may raise at any item or give *)
(* something else than an item.  Anchors are told apart up to their case,  *)
(* as the code compares them; of a text only its length is kept.           *)
(***************************************************************************)
EXTENDS Naturals, Sequences, FiniteSets
LOCAL INSTANCE SequencesExt

CONSTANTS ScanLimit,    \* items looked at
          OutputChars,  \* characters shown
          NoCue         \* the anchor of a request that names none

ASSUME RecallAssumption == ScanLimit \in 1..128 /\ OutputChars \in 256..8000

ItemLimit == 8
HeaderChars == 114

\* A request: whether it is the owner's own, in the session this history belongs
\* to, and the anchor it names.  What a history yields: an item, something else
\* or an error; of an item its source, whether it belongs to the session, its
\* anchor, its kind and the characters that show it.
Yields == {"item", "else", "error"}
ItemKinds == {"artifact", "tool", "assistant"}
HistoryItem(sources, anchors, sizes) ==
    [yields : Yields, source : sources, own : BOOLEAN, anchor : anchors,
     kind : ItemKinds, chars : sizes]

-----------------------------------------------------------------------------
(* recall *)

Total(items) == FoldLeft(LAMBDA sum, item : sum + item.chars + 1, 1, items)
\* The header, and the items between brackets and commas.
Rendered(items) == IF items = <<>> THEN 0 ELSE HeaderChars + Total(items)

Eligible(request, item) ==
    item.own /\ item.kind \in {"artifact", "tool"} /\ item.anchor = request.anchor

Start == [status |-> "matched", seen |-> {}, items |-> <<>>]
Refusal(status) == [status |-> status, items |-> <<>>]

\* One more item.  An item too large to be shown hides the older ones of its
\* source all the same.
Examine(request, scan, item) ==
    LET trial == Append(scan.items, item)
    IN IF scan.status # "matched" THEN scan
       ELSE IF item.yields = "error" THEN [scan EXCEPT !.status = "host_failed"]
       ELSE IF item.yields = "else" THEN [scan EXCEPT !.status = "invalid_history"]
       ELSE IF ~Eligible(request, item) \/ item.source \in scan.seen THEN scan
       ELSE [scan EXCEPT !.seen = @ \cup {item.source},
                         !.items = IF /\ Rendered(trial) <= OutputChars
                                      /\ Len(@) < ItemLimit
                                   THEN trial ELSE @]

Scanned(history) ==
    SubSeq(history, 1, IF Len(history) < ScanLimit THEN Len(history) ELSE ScanLimit)

Recall(request, history) ==
    LET scan == FoldLeft(LAMBDA s, item : Examine(request, s, item), Start, Scanned(history))
    IN IF ~request.own THEN Refusal("denied")
       ELSE IF request.anchor = NoCue THEN Refusal("no_match")
       ELSE IF scan.status # "matched" THEN Refusal(scan.status)
       ELSE IF scan.items = <<>> THEN Refusal("no_match")
       ELSE [status |-> "matched", items |-> scan.items]

-----------------------------------------------------------------------------
(* enrich: the base context, the facts unless they are too long, the items *)

FactsLimit == 3000
ContextLimit == 9999

Enriched(base, facts, items) ==
    LET part(chars) == IF chars = 0 THEN 0 ELSE chars + 2
        chars == base + part(IF facts <= FactsLimit THEN facts ELSE 0) + part(Rendered(items))
    IN IF chars > ContextLimit THEN [status |-> "context_overflow", chars |-> base]
       ELSE [status |-> "prepared", chars |-> chars]

-----------------------------------------------------------------------------
(* What the documentation promises (docs/PERSONAL_MEMORY.md)               *)

\* The newest eligible item of each source, by its place in the history.
Newest(request, history) ==
    {i \in DOMAIN history :
        /\ Eligible(request, history[i])
        /\ \A j \in 1..(i - 1) :
              Eligible(request, history[j]) => history[j].source # history[i].source}

\* The items at some places, in the order of the history.
ItemsAt(history, S) == [n \in 1..Cardinality(S) |->
    history[CHOOSE i \in S : Cardinality({j \in S : j <= i}) = n]]

\* S are the places to show: the newest item of each source, unless those shown
\* before it leave no room.
ToShow(request, history, S) ==
    \A i \in DOMAIN history :
        LET earlier == {j \in S : j < i}
        IN i \in S <=> /\ i \in Newest(request, history)
                       /\ Cardinality(earlier) < ItemLimit
                       /\ Rendered(ItemsAt(history, earlier \cup {i})) <= OutputChars

(***************************************************************************)
(* Recall shows complete items only, the newest of each source and never   *)
(* an older one in its place, within the limits; and nothing when the host *)
(* fails midway or the request is not the owner's.                         *)
(***************************************************************************)
RecallAsPromised(request, history) ==
    LET answer == Recall(request, history)
        looked == Scanned(history)
        broken == {i \in DOMAIN looked : looked[i].yields # "item"}
    IN IF ~request.own \/ request.anchor = NoCue \/ broken # {}
       THEN answer.items = <<>> /\ answer.status # "matched"
       ELSE /\ \E S \in SUBSET DOMAIN looked :
                  ToShow(request, looked, S) /\ answer.items = ItemsAt(looked, S)
            /\ answer.status = "matched" <=> answer.items # <<>>
=============================================================================
