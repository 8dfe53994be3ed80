---------------------------- MODULE MCMemoryLedger ----------------------------
(***************************************************************************)
(* Records of one profile in and out of a session, and of another profile; *)
(* some valid before they were made, some that expire; each may replace    *)
(* one or two others, of its own scope or not, before they exist or later. *)
(***************************************************************************)
EXTENDS MemoryLedger

CONSTANTS r1, r2, r3, p1, p2, s1, s2, v, w, k

Makes(id, profile, session, value, created, from, until, supersedes) ==
    [id |-> id, profile |-> profile, session |-> session, key |-> k, value |-> value,
     created |-> created, from |-> from, until |-> until, supersedes |-> supersedes]

Plain(id, session, value) == Makes(id, p1, session, value, 1, 0, Forever, {})

MCCandidates ==
    {Plain(id, session, value) :
        id \in {r1, r2}, session \in {NoSession, s1}, value \in {v, w}}
    \cup {Makes(r1, p2, NoSession, v, 1, 0, Forever, {}),
          Makes(r1, p1, s2, v, 1, 0, 2, {})}
    \cup {Makes(r2, profile, session, w, created, from, until, {r1}) :
             profile \in {p1, p2}, session \in {NoSession, s1, s2},
             created \in {1, 2}, from \in {0, 1}, until \in {2, Forever}}
    \cup {Makes(r3, p1, session, value, 2, from, Forever, targets) :
             session \in {NoSession, s1}, value \in {v, w}, from \in {0, 2},
             targets \in {{r1}, {r2}, {r1, r2}}}
=============================================================================
