------------------------------ MODULE MCRuntime ------------------------------
(* Three turns in two sessions; a runtime keeps two turns and two receipts. *)
EXTENDS Runtime, CreativeStudio, TLC

Turn == [asked |-> "default", text |-> {}, foreign |-> None, stance |-> None,
         offers |-> {"memory"}, fails |-> {},
         soft |-> [route_policy |-> 350, discourse |-> 60, stance |-> 270, creative |-> 1030,
                   creative_pack |-> 400, memory |-> 100, persona |-> 300]]
Pushed == [claim |-> 90, evidence |-> 90, correction |-> 90, pressure |-> 90, stakes |-> 0,
           support |-> TRUE, mode |-> "unknown"]
Eager == [mode |-> "social", move |-> "connect", budget |-> 220, candidates |-> 1,
          constraints |-> {"explicit_save"}, scope |-> "default"]

\* Small talk; a wish to save, with its memory well or failing; an urgent turn
\* that a host asks not to save, one with a stance, one that may be recalled
\* for; a wish not to save the session; a story without a persona; a router
\* that raises, one that answers beyond its bounds, one that would save what
\* a host asks it not to.
MCInputs ==
    {Turn,
     [Turn EXCEPT !.text = {"save"}],
     [Turn EXCEPT !.text = {"save", "support"}, !.fails = {"memory"}],
     [Turn EXCEPT !.asked = "item", !.text = {"crisis"}],
     [Turn EXCEPT !.asked = "item", !.text = {"crisis", "save"}, !.stance = Pushed],
     [Turn EXCEPT !.text = {"medical", "decision", "save"}],
     [Turn EXCEPT !.text = {"no_save_session", "crisis"}],
     [Turn EXCEPT !.text = {"creative", "save"}, !.fails = {"persona"}, !.offers = {"creative_pack"}],
     [Turn EXCEPT !.text = None],
     [Turn EXCEPT !.foreign = [Eager EXCEPT !.candidates = 17]],
     [Turn EXCEPT !.foreign = Eager, !.asked = "item"],
     [Turn EXCEPT !.foreign = Eager]}

Report(success, error, probe, records) ==
    [success |-> success, error |-> error, unknown |-> probe = "calm",
     probe |-> probe, records |-> records,
     chain |-> IF probe = "calm" THEN CHOOSE chain \in Chains : TRUE ELSE None]
\* A batch of two records of a session, on which the memory may raise for either.
Batch(s) == [name : RecordNames, session : {s}]
MCOutcomes ==
    {Report(TRUE, FALSE, None, records) :
        records \in {{}, Record} \cup {Batch(s) : s \in Sessions}}
    \cup {Report(FALSE, FALSE, probe, {}) : probe \in Probes}
    \cup {Report(TRUE, FALSE, "calm", Batch(s)) : s \in Sessions}
    \cup {Report(TRUE, error, "invalid", Batch(s)) : error \in BOOLEAN, s \in Sessions}
    \cup {Report(success, ~success, None, Batch(s)) : success \in BOOLEAN, s \in Sessions}

MCChains == {<<"validate", "listen">>}

Interchangeable ==
    Permutations(Turns) \cup Permutations(Sessions) \cup Permutations(RecordNames)

\* The remembered tactic chains, what a turn's context is and what a receipt
\* says steer no other part of the state; what a step makes of them, the
\* properties see.
Silent(state) == [state EXCEPT !.discourse = <<>>]
Bare(turn) == [turn EXCEPT !.mode = "unknown", !.fragments = {}, !.chars = 0]
Named(receipt) == [turn |-> receipt.turn, session |-> receipt.session]
Quiet ==
    <<[runtime EXCEPT !.sessions = [s \in DOMAIN @ |-> Silent(@[s])],
                      !.pending = [t \in DOMAIN @ |-> Bare(@[t])],
                      !.completed = [i \in DOMAIN @ |-> Named(@[i])]], memory, ghosts>>
-----------------------------------------------------------------------------
(* The creative studio: what the largest pack takes, and a few candidates *)

Largest(id) == [id |-> id, chars |-> DescriptionLimit, escapes |-> DescriptionLimit]
LargestPack == [rubric |-> [i \in 1..5 |-> Largest(RubricIds[i])],
                anti_patterns |-> <<Largest("generic_template"), Largest("repeated_shape"),
                                    Largest("punchline_tail"), Largest("ornamental_novelty")>>]
Creative == [Eager EXCEPT !.mode = "creative"]

\* A runtime has room for it, although plan with its own limit has not.
ASSUME LargestPackFits ==
    /\ RenderedChars(NoPack) = 1317 /\ RenderedChars(LargestPack) = 10893
    /\ PlanMade(Creative, "plain", LargestPack, RuntimeLimit)
    /\ ~PlanMade(Creative, "plain", LargestPack, DefaultLimit)

Scored == [id : 1..3, valid : BOOLEAN, fit : {500}, clarity : {1, 2}, novelty : {0},
           preference : {NoPreference, 0, 1}]
ASSUME CandidatesSelected ==
    \A a, b, c \in Scored : Distinct({a, b, c}) /\ a.valid =>
        LET best == SelectedCandidate({a, b, c})
        IN best.valid /\ (best = a => SelectedCandidate({a, b}) = a)
=============================================================================
