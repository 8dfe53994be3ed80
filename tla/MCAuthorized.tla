---------------------------- MODULE MCAuthorized ----------------------------
(* Three messages in three sessions, one of which asks to be kept. *)
EXTENDS AuthorizedTurns, ConversationRecall, TLC

CONSTANTS t1, t2, t3, s1, s2, s3, g, v, p

MCSessionOf == [t \in Turns |-> s1]

Says(t, n) ==
    [event |-> t, sequence |-> n, at |-> 0, group |-> g, op |-> "remember",
     value |-> v, kind |-> p, target |-> NoEvent, targets |-> {}]
MCRequests == {Says(t1, 1)}

\* The router may see a wish not to save the turn, or fail, which closes the
\* session to memory.
Turn == [asked |-> "default", text |-> {}, foreign |-> None, stance |-> None, offers |-> {},
         fails |-> {},
         soft |-> [route_policy |-> 350, discourse |-> 60, stance |-> 0, creative |-> 1030,
                   creative_pack |-> 0, memory |-> 0, persona |-> 300]]
MCInputs == {[Turn EXCEPT !.text = text] : text \in {{}, {"no_save_item"}, None}}
MCChains == {<<"validate", "listen">>}
MCOutcomes == {Unsuccessful}
Others == {f @@ h : f \in Permutations({s2, s3}), h \in Permutations({t2, t3})}

\* Whether a component failed while a turn was prepared, and what its context
\* was, makes no difference to an unsuccessful turn.
Bare(turn) ==
    [turn EXCEPT !.failed = FALSE, !.mode = "unknown", !.fragments = {}, !.chars = 0]
Plain(state) == [state EXCEPT !.pending = [t \in DOMAIN @ |-> Bare(@[t])]]
Quiet == <<Plain(runtime), active, prepared, db, call>>

-----------------------------------------------------------------------------
(* What a turn may quote: every history of four items over two sources, and  *)
(* of up to ten items each from a source of its own, some of them large.     *)

Request == [own |-> TRUE, anchor |-> "draft"]
Small == [yields |-> "item", source |-> 1, own |-> TRUE, anchor |-> "draft",
          kind |-> "artifact", chars |-> 80]
Quotable ==
    {[Small EXCEPT !.source = n, !.chars = chars] : n \in {1, 2}, chars \in {80, 400, 900}}
Unquotable ==
    {[Small EXCEPT !.own = FALSE], [Small EXCEPT !.anchor = "other"],
     [Small EXCEPT !.kind = "assistant"], [Small EXCEPT !.yields = "else"],
     [Small EXCEPT !.yields = "error"], [Small EXCEPT !.kind = "tool", !.source = 2]}
ShortHistories == UNION {[1..n -> Quotable \cup Unquotable] : n \in 0..4}
LongHistories ==
    {[i \in 1..n |-> [Small EXCEPT !.source = i, !.chars = IF i \in large THEN 400 ELSE 75]] :
        n \in 8..10, large \in {S \in SUBSET (1..10) : Cardinality(S) <= 1}}

ASSUME RecallKeepsItsPromise ==
    /\ \A history \in ShortHistories \cup LongHistories : RecallAsPromised(Request, history)
    /\ \A history \in ShortHistories, request \in {[own |-> FALSE, anchor |-> "draft"],
                                                   [own |-> TRUE, anchor |-> NoCue]} :
          RecallAsPromised(request, history)
\* The context is the base and what is added, or the base alone.
ASSUME EnrichedFits ==
    \A history \in LongHistories, base \in {1, 9000, ContextLimit}, facts \in {0, 900, 3000, 3001} :
        LET enriched == Enriched(base, facts, Recall(Request, history).items)
        IN /\ enriched.chars \in base..ContextLimit
           /\ enriched.status = "context_overflow" => enriched.chars = base
\* The limit of eight items does bite.
ASSUME RecallReachesItsLimit ==
    \E history \in LongHistories : Len(Recall(Request, history).items) = ItemLimit
=============================================================================
