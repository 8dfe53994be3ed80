--------------------------- MODULE MCPersonalRaces ---------------------------
(* Two callers race captures, revocations and replays in two lineages, and *)
(* what is stored is listed a version a page.                              *)
EXTENDS MemoryPages, TLC

CONSTANTS e1, e2, e3, s1, g1, g2, a, b, p, c1, c2

Says(e, n, g, v) ==
    [event |-> e, sequence |-> n, at |-> 0, group |-> g, op |-> "remember",
     value |-> v, kind |-> p, target |-> NoEvent, targets |-> {}]

\* All observed at one instant; e1 may be sent again under a later sequence,
\* and e2 starts a lineage of its own or corrects what e1 says.
MCRequests ==
    {Says(e1, 1, g1, a), Says(e1, 3, g1, a), Says(e2, 2, g2, b),
     [Says(e2, 2, g1, b) EXCEPT !.op = "correct", !.target = e1]}
MCStamps == {[event |-> e3, sequence |-> 2], [event |-> e1, sequence |-> 3]}

\* Policies never recur, so of one that is past only that matters; nothing here
\* reads a session's modes.
Stands(c) ==
    IF held[c] = NoPolicy THEN "none"
    ELSE IF held[c] = db.policy THEN "policy"
    ELSE IF held[c].epoch = db.policy.epoch THEN "epoch" ELSE "past"
Live == <<[db EXCEPT !.modes = <<>>], revoked, cursor, looking,
          IF list.policy = db.policy THEN list ELSE NoList,
          [c \in Callers |->
              <<Stands(c), [call[c] EXCEPT !.epoch = call[c].epoch = db.policy.epoch]>>]>>
AnyCaller == Permutations(Callers)
=============================================================================
