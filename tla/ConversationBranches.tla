------------------------ MODULE ConversationBranches ------------------------
(***************************************************************************)
(* What the chat gateway remembers of one user's dialogues: a tree of      *)
(* branch nodes, one for each visible history it has completed, and a      *)
(* rolling context for each conversation id.  Requests read the context    *)
(* when they arrive and write theirs when they are answered; claims in the *)
(* database keep repeated requests from doing the same work twice.         *)
(*                                                                         *)
(* A turn is a question and its answer, and a fingerprint is the history   *)
(* it is the digest of.  The marks that each process keeps of claims only  *)
(* add to what is refused, and a refusal is always possible here.          *)
(***************************************************************************)
EXTENDS Naturals, Sequences, SequencesExt, FiniteSets

CONSTANTS
  Requests,        \* chat requests
  Conversations,   \* conversation ids
  NoConversation,
  Asks,            \* user messages
  Answers,         \* final answers of the models
  MaxTurns,        \* bound of the model: turns of a visible history
  Keep,            \* chat_gateway_extraction_context_turns
  Retained,        \* _MAX_RETAINED_RECENT_TURNS
  MaxNodes         \* _CONVERSATION_BRANCH_NODE_RETENTION_LIMIT

ASSUME BranchesAssumption ==
  /\ NoConversation \notin Conversations
  /\ {MaxTurns, Keep, Retained, MaxNodes} \subseteq Nat \ {0}
  /\ Keep <= Retained

VARIABLES
  nodes,       \* conversation_branch_nodes, by history
  rolling,     \* recent_turns of recent_context_summaries, by conversation
  claims,      \* chat_side_effect_claims that have not expired
  req,         \* the local variables of each request
  overstayed,  \* history: claims that expired before their work was done
  excused      \* history: nodes that came late, or back, below a deleted one

vars == <<nodes, rolling, claims, req, overstayed, excused>>

Turn == Asks \X Answers
Upto(n) == UNION {[1..k -> Turn] : k \in 0..n}
Histories == Upto(MaxTurns) \ {<<>>}
Parents == Upto(MaxTurns - 1)

Node == [status: {"none", "active", "archived"}, turns: Upto(Retained)]
Absent == [status |-> "none", turns |-> <<>>]

\* The key of a claim.
Key == [conv: Conversations \cup {NoConversation}, history: Histories]

Request == [pc: {"idle", "model", "evolve", "roll", "over"},
            conv: Conversations \cup {NoConversation},
            parent: Parents, ask: Asks \cup {"-"}, answer: Answers \cup {"-"},
            state: {"root", "fork", "matched", "fallback"}, seen: Upto(Retained)]

Idle == [pc |-> "idle", conv |-> NoConversation, parent |-> <<>>,
         ask |-> "-", answer |-> "-", state |-> "root", seen |-> <<>>]
Over == [Idle EXCEPT !.pc = "over"]

Become(r, pc) == req' = [req EXCEPT ![r] = IF pc = "over" THEN Over ELSE [@ EXCEPT !.pc = pc]]

Completed(r) == Append(req[r].parent, <<req[r].ask, req[r].answer>>)

KeyOf(r) == [conv |-> req[r].conv, history |-> Completed(r)]

\* The work that requests do under their claims.
Doing(r) == IF req[r].pc \in {"evolve", "roll"} THEN {KeyOf(r)} ELSE {}

-----------------------------------------------------------------------------
(* A request arrives *)

\* Slip: a history that is not known falls back to the conversation.
PreviousFallsBack(conv, parent, readable) ==
  CASE parent # <<>> /\ readable /\ nodes[parent].status = "active" ->
         [state |-> "matched", seen |-> nodes[parent].turns]
    [] conv # NoConversation /\ readable /\ rolling[conv] # <<>> ->
         [state |-> "fallback", seen |-> rolling[conv]]
    [] OTHER -> [state |-> "fork", seen |-> <<>>]

\* _resolve_previous_context.  "readable" is whether the database could be read.
\* A history that is not known is a branch of its own.
Previous(conv, parent, readable) ==
  CASE parent # <<>> /\ readable /\ nodes[parent].status = "active" ->
         [state |-> "matched", seen |-> nodes[parent].turns]
    [] parent = <<>> /\ conv # NoConversation /\ readable /\ rolling[conv] # <<>> ->
         [state |-> "fallback", seen |-> rolling[conv]]
    [] OTHER ->
         [state |-> IF parent = <<>> THEN "root" ELSE "fork", seen |-> <<>>]

Arrive(r, conv, parent, ask, readable) ==
  LET previous == Previous(conv, parent, readable)
  IN  /\ req[r].pc = "idle"
      /\ req' = [req EXCEPT ![r] =
           [pc |-> "model", conv |-> conv, parent |-> parent, ask |-> ask,
            answer |-> "-", state |-> previous.state, seen |-> previous.seen]]
      /\ UNCHANGED <<nodes, rolling, claims, overstayed, excused>>

-----------------------------------------------------------------------------
(* Claims *)

\* Slip: a claim that is there already is granted again.
FreeAlways(k) == TRUE

\* INSERT OR IGNORE.
Free(k) == k \notin claims

Granted(r, a, k) ==
  /\ claims' = claims \cup {k}
  /\ req' = [req EXCEPT ![r].answer = a, ![r].pc = "evolve"]

\* The final answer, on which _finalize_turn begins in the background by claiming
\* the work: refused because the claim is taken, because the process remembers that
\* it was, or because the database fails; granted; or granted because the time of
\* the claim that was there is over.  A request that may only read, or is not
\* answered, is left where it is.
Answer(r, a) ==
  LET k == [conv |-> req[r].conv, history |-> Append(req[r].parent, <<req[r].ask, a>>)]
  IN  /\ req[r].pc = "model"
      /\ \/ Become(r, "over") /\ UNCHANGED <<claims, overstayed>>
         \/ Free(k) /\ Granted(r, a, k) /\ UNCHANGED overstayed
         \/ /\ ~Free(k) /\ Granted(r, a, k)
            /\ overstayed' = overstayed \cup ({k} \cap UNION {Doing(s) : s \in Requests})
      /\ UNCHANGED <<nodes, rolling, excused>>

-----------------------------------------------------------------------------
(* _finalize_turn *)

Newest(turns, n) == SubSeq(turns, IF Len(turns) > n THEN Len(turns) - n + 1 ELSE 1, Len(turns))

Increasing(f) == \A i, j \in DOMAIN f : i < j => f[i] < f[j]

\* What is left of a sequence when some of its elements are dropped.
Subsequences(s) ==
  UNION {{[i \in 1..k |-> s[f[i]]] : f \in {g \in [1..k -> DOMAIN s] : Increasing(g)}}
         : k \in 0..Len(s)}

\* evolve_recent_context: the turns before the newest may go into the summary,
\* all but those that may not be sent to a model.  That a bound in bytes may drop
\* more of the oldest turns is left out.
Evolved(r) ==
  LET all == Append(req[r].seen, <<req[r].ask, req[r].answer>>)
      older == SubSeq(all, 1, Len(all) - Len(Newest(all, Keep)))
      compacted == IF req[r].state = "fallback"
                   THEN {kept \o Newest(all, Keep) : kept \in Subsequences(older)}
                   ELSE {}
  IN  {Newest(turns, Retained) : turns \in compacted \cup {all}}

Active(h) == nodes[h].status = "active"
Below(h) == IF Len(h) > 1 THEN {Front(h)} ELSE {}   \* its parent, unless it is a root

\* upsert_conversation_branch_node, which deletes the nodes that were updated
\* least recently; which of them those are is left open.
SaveNode(r, turns) ==
  LET h == Completed(r)
      others == {x \in Histories : Active(x)} \ {h}
      excess == Cardinality(others) + 1 - MaxNodes
  IN  /\ req[r].pc = "evolve"
      /\ \E gone \in SUBSET others :
           /\ Cardinality(gone) = (IF excess > 0 THEN excess ELSE 0)
           /\ nodes' = [x \in Histories |->
                IF x = h THEN [status |-> "active", turns |-> turns]
                ELSE IF x \in gone THEN Absent ELSE nodes[x]]
           /\ excused' = (excused \ (gone \cup {h})) \cup
                (IF req[r].state = "matched" /\ \E b \in Below(h) : nodes[b].status = "archived"
                 THEN {h} ELSE {})
      /\ req' = [req EXCEPT ![r] = IF req[r].conv = NoConversation THEN Over
                               ELSE [@ EXCEPT !.pc = "roll", !.seen = turns]]
      /\ UNCHANGED <<rolling, claims, overstayed>>

\* upsert_recent_context_state
SaveRolling(r) ==
  /\ req[r].pc = "roll"
  /\ rolling' = [rolling EXCEPT ![req[r].conv] = req[r].seen]
  /\ Become(r, "over")
  /\ UNCHANGED <<nodes, claims, overstayed, excused>>

\* _release_turn_side_effect; nothing says whose claim it is that is deleted.  If
\* the release fails too, or the process dies, the claim stays.
Fail(r, deleted) ==
  /\ req[r].pc \in {"evolve", "roll"} /\ Become(r, "over")
  /\ claims' = IF deleted THEN claims \ {KeyOf(r)} ELSE claims
  /\ UNCHANGED <<nodes, rolling, overstayed, excused>>

-----------------------------------------------------------------------------
(* The owner's operations *)

\* Slip: the node alone.
SubtreeSelf(h, status) == {x \in {h} : nodes[x].status = status}

\* What a node of a status reaches through nodes of the same status.
Subtree(h, status) ==
  {x \in Histories : /\ IsPrefix(h, x)
                     /\ \A n \in Len(h)..Len(x) : nodes[SubSeq(x, 1, n)].status = status}

Move(S, status) == nodes' = [x \in Histories |-> IF x \in S THEN [nodes[x] EXCEPT !.status = status]
                                                 ELSE nodes[x]]

ArchiveSubtree(h) ==
  /\ Active(h) /\ Move(Subtree(h, "active"), "archived")
  /\ excused' = excused \ Subtree(h, "active")
  /\ UNCHANGED <<rolling, claims, req, overstayed>>

RestoreSubtree(h) ==
  /\ nodes[h].status = "archived" /\ Move(Subtree(h, "archived"), "active")
  /\ excused' = excused \cup {h}
  /\ UNCHANGED <<rolling, claims, req, overstayed>>

\* upsert_recent_context_summary: a summary by hand takes the place of the turns.
WriteSummary(c) ==
  /\ rolling[c] # <<>> /\ rolling' = [rolling EXCEPT ![c] = <<>>]
  /\ UNCHANGED <<nodes, claims, req, overstayed, excused>>

-----------------------------------------------------------------------------
Init ==
  /\ nodes = [h \in Histories |-> Absent]
  /\ rolling = [c \in Conversations |-> <<>>]
  /\ claims = {} /\ overstayed = {} /\ excused = {}
  /\ req = [r \in Requests |-> Idle]

Finalize(r) ==
  \/ \E turns \in Evolved(r) : SaveNode(r, turns)
  \/ SaveRolling(r)
  \/ \E deleted \in BOOLEAN : Fail(r, deleted)

Next ==
  \/ \E r \in Requests :
       \/ \E conv \in Conversations \cup {NoConversation}, parent \in Parents, ask \in Asks,
             readable \in BOOLEAN : Arrive(r, conv, parent, ask, readable)
       \/ \E a \in Answers : Answer(r, a)
       \/ Finalize(r)
  \/ \E h \in Histories : ArchiveSubtree(h) \/ RestoreSubtree(h)
  \/ \E c \in Conversations : WriteSummary(c)

Spec == Init /\ [][Next]_vars

-----------------------------------------------------------------------------
(* Properties *)

\* The rows, the marks of the processes and the local variables of the requests
\* have their types.
TypeOK ==
  /\ nodes \in [Histories -> Node]
  /\ rolling \in [Conversations -> Upto(Retained)]
  /\ claims \subseteq Key /\ overstayed \subseteq Key
  /\ req \in [Requests -> Request]
  /\ excused \subseteq Histories

Agree(s, t) ==
  \A i \in 0..(MaxTurns - 1) :
    i < Len(s) /\ i < Len(t) => s[Len(s) - i] = t[Len(t) - i]

\* "editing an older message or regenerating an answer creates a sibling branch":
\* as far as both go back, the turns that a node remembers are those of its own
\* history, whatever the rolling contexts held and in whatever order requests ended.
BranchKeepsItsHistory ==
  \A h \in Histories : Agree(nodes[h].turns, h)

\* Until a claim expires under the work it was taken for, one request at a time
\* does that work, in all processes together.
OneWorkerPerTurn ==
  \A r, s \in Requests : r # s => Doing(r) \cap Doing(s) \subseteq overstayed

\* A branch that continues one the owner has deleted remembers nothing of it,
\* unless its request had read it before, or the owner brought it back.
OnlyLateBranches ==
  \A h \in Histories \ excused :
    Active(h) /\ (\E b \in Below(h) : nodes[b].status = "archived") => Len(nodes[h].turns) = 1

=============================================================================
