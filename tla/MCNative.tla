------------------------------ MODULE MCNative ------------------------------
(* One chat with two conversations, reply length in one or two domains. *)
EXTENDS NativeController, Continuity, TLC

Text(action, value) == [action |-> action, group |-> "general", value |-> value]

\* Saving, replacing and erasing, proposed in chat or asked for directly, and
\* taken back.
Approving ==
    {Text("remember", "short"), Text("correct", "detailed"), Text("confirm", "short"),
     Text("cancel", "short"), [action |-> "forget", group |-> AnyGroup, value |-> "short"]}

\* Consent and session modes; the outsider sets no-recall.
Restricting == {Text("consent", "short"), Text("remember", "short"), Text("no_save", "short"),
                Text("resume", "short"), Text("disable", "short")}

\* The chat cancels a direct request.
Cancelling == {Text("remember", "short"), Text("cancel", "short")}

\* A captured event of another process.
Other(n, value) ==
    [event |-> n, sequence |-> n, at |-> n, group |-> "general", op |-> "remember",
     value |-> value, kind |-> "preference", target |-> NoEvent, targets |-> {}]
OtherShort == {Other(1, "short")}
OtherDetailed == {Other(1, "detailed")}
Nothing == {}

\* Marks on approvals that are gone make no difference, nor does a proposal's
\* name, only whether a challenge was shown for it.
Standing == op.basis \cup (IF challenge # None THEN {"challenge"} ELSE {})
                     \cup (IF pending # None THEN {"pending"} ELSE {})
Proposed == IF pending = None THEN None ELSE [pending EXCEPT !.name = "a"]
Shown == IF challenge = None \/ challenge.pending = None THEN challenge
         ELSE [challenge EXCEPT !.pending = challenge.pending = PendingName]
Live == <<db, bound, Proposed, Shown, tickets, used, expired \cap Standing, op, joining,
          outsider, evictions, revoked \cap Standing, spent \cap Standing,
          strayed /\ "pending" \in Standing>>
LiveAndCancelled == <<Live, cancelled \cap Standing>>

MCSequences == 1 .. MaxSequence
AnySession == Permutations(Sessions)

-----------------------------------------------------------------------------
(* What a message may refer to: every history of up to four rows, of which   *)
(* three are recent.                                                         *)

Heads(styles, numbers) == [i \in DOMAIN styles |-> [style |-> styles[i], number |-> numbers[i]]]
Prose == [role |-> "assistant", chars |-> 1500, echo |-> FALSE, corrects |-> FALSE,
          mentions |-> FALSE, quoted |-> FALSE, headings |-> <<>>, ambiguous |-> FALSE, block |-> 0]
Versions == [Prose EXCEPT !.headings = Heads(<<"dot", "dot">>, <<1, 2>>), !.block = 2200]
Said == [Prose EXCEPT !.role = "user", !.chars = 1000]
HistoryRows ==
    {Prose, [Prose EXCEPT !.mentions = TRUE], [Prose EXCEPT !.chars = 5000], Versions,
     [Versions EXCEPT !.chars = 16385], [Versions EXCEPT !.headings[2].number = 3],
     [Versions EXCEPT !.headings[2].style = "version"], [Versions EXCEPT !.block = 2201],
     Said, [Said EXCEPT !.echo = TRUE, !.mentions = TRUE], [Said EXCEPT !.corrects = TRUE],
     [Said EXCEPT !.corrects = TRUE, !.chars = 3000],
     [Said EXCEPT !.role = "tool", !.mentions = TRUE], [Said EXCEPT !.role = "other"]}
Histories == UNION {[1..n -> HistoryRows] : n \in 0..4}

ASSUME ContinuityKeepsItsPromise ==
    \A history \in Histories, reference \in References : ResolvedAsPromised(reference, history)
ASSUME ContinueMayMissTheLatest == \E history \in Histories : LatestAnswerMissing(history)
=============================================================================
