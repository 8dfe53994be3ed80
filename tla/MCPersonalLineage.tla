-------------------------- MODULE MCPersonalLineage --------------------------
(***************************************************************************)
(* Two lineages grow through every operation: assertions, contradictions,  *)
(* confirmations, changes, corrections of one fact and of a whole group,   *)
(* a correction aimed at the wrong lineage, observations that arrive late  *)
(* and forgets.                                                            *)
(***************************************************************************)
EXTENDS PersonalMemory

CONSTANTS e1, e2, e3, e4, s1, g1, g2, a, b, p, q, c1

Event(e, n, g, op, v, k) ==
    [event |-> e, sequence |-> n, at |-> n, group |-> g, op |-> op, value |-> v,
     kind |-> k, target |-> NoEvent, targets |-> {}]
On(r, e) == [r EXCEPT !.target = e]
OnAll(r, E) == [r EXCEPT !.targets = E]
Late(r) == [r EXCEPT !.at = 0]

MCRequests ==
    {Event(e1, 1, g1, "remember", a, p), Event(e1, 1, g1, "remember", a, q)}
    \cup {Event(e2, 2, g1, "remember", v, p) : v \in {a, b}}
    \cup {On(Event(e2, 2, g1, op, v, p), e1) :
             op \in {"change", "correct", "confirm"}, v \in {a, b}}
    \cup {On(Event(e3, 3, g, op, v, p), t) :
             g \in {g1, g2}, op \in {"change", "correct", "confirm"}, v \in {a, b},
             t \in {e1, e2}}
    \cup {OnAll(Event(e3, 3, g1, "correct", v, p), T) :
             v \in {a, b}, T \in {{e1}, {e1, e2}}}
    \cup {Event(e3, 3, g, "remember", b, p) : g \in {g1, g2}}
    \cup {Late(Event(e3, 3, g1, "remember", b, p))}
    \cup {OnAll(Event(e4, 4, g1, "correct", a, p), T) : T \in {{e2}, {e2, e3}, {e1, e2, e3}}}
    \cup {On(Event(e4, 4, g1, "change", v, p), t) : v \in {a, b}, t \in {e1, e2, e3}}
    \cup {Event(e4, 4, g, "remember", v, p) : g \in {g1, g2}, v \in {a, b}}

MCStamps == {[event |-> e4, sequence |-> 4]}
=============================================================================
