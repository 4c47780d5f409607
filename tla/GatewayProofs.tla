--------------------------- MODULE GatewayProofs ---------------------------
(***************************************************************************)
(* The front of the memory gateway.  Branches of a dialogue keep to their  *)
(* own history, a deleted branch is not remembered through its             *)
(* continuations, and a turn's work is done by one request, for any        *)
(* requests, conversations, messages and bounds; at the end, what becomes  *)
(* of console tokens and the codes that deliver them (ConsoleLogin).       *)
(***************************************************************************)
EXTENDS ConversationBranches, ConsoleLogin, SequenceTheorems, TLAPS

LEMMA Bounds == {MaxTurns, Keep, Retained, MaxNodes} \subseteq Nat \ {0}
BY BranchesAssumption

USE Bounds

-----------------------------------------------------------------------------
(* Histories *)

LEMMA UptoAre ==
  ASSUME NEW n \in Nat, NEW s
  PROVE  s \in Upto(n) <=> s \in Seq(Turn) /\ Len(s) <= n
<1>1. ASSUME s \in Upto(n) PROVE s \in Seq(Turn) /\ Len(s) <= n
  <2>1. PICK k \in 0..n : s \in [1..k -> Turn]
    BY <1>1 DEF Upto
  <2> QED BY <2>1
<1>2. ASSUME s \in Seq(Turn), Len(s) <= n PROVE s \in Upto(n)
  <2>1. s \in [1..Len(s) -> Turn] /\ Len(s) \in 0..n
    BY <1>2, LenProperties
  <2> QED BY <2>1 DEF Upto
<1> QED BY <1>1, <1>2

LEMMA HistoriesAre ==
  ASSUME NEW h
  PROVE  /\ h \in Histories <=> h \in Seq(Turn) /\ Len(h) \in 1..MaxTurns
         /\ h \in Parents <=> h \in Seq(Turn) /\ Len(h) \in 0..(MaxTurns - 1)
<1>1. h \in Seq(Turn) => Len(h) \in Nat /\ (h = <<>> <=> Len(h) = 0)
  BY EmptySeq, LenProperties
<1>2. h \in Histories <=> h \in Seq(Turn) /\ Len(h) <= MaxTurns /\ h # <<>>
  BY UptoAre DEF Histories
<1>3. h \in Parents <=> h \in Seq(Turn) /\ Len(h) <= MaxTurns - 1
  BY UptoAre DEF Parents
<1> QED BY <1>1, <1>2, <1>3

\* The parent of a node is one turn shorter, and goes through the same nodes.
LEMMA BelowIs ==
  ASSUME NEW h \in Histories, NEW b \in Below(h)
  PROVE  /\ b \in Histories /\ b \in Parents /\ Len(b) = Len(h) - 1 /\ Len(b) \in 1..MaxTurns
         /\ \A n \in 0..Len(b) : SubSeq(b, 1, n) = SubSeq(h, 1, n)
<1>1. h \in Seq(Turn) /\ Len(h) \in 2..MaxTurns /\ b = SubSeq(h, 1, Len(h) - 1)
  BY HistoriesAre DEF Below, Front
<1>2. b \in Seq(Turn) /\ Len(b) = Len(h) - 1 /\ \A i \in 1..Len(b) : b[i] = h[i]
  BY <1>1, SubSeqProperties
<1>3. ASSUME NEW n \in 0..Len(b) PROVE SubSeq(b, 1, n) = SubSeq(h, 1, n)
  <2>1. /\ SubSeq(b, 1, n) \in Seq(Turn) /\ Len(SubSeq(b, 1, n)) = n
        /\ \A i \in 1..n : SubSeq(b, 1, n)[i] = b[i]
    BY <1>2, SubSeqProperties
  <2>2. /\ SubSeq(h, 1, n) \in Seq(Turn) /\ Len(SubSeq(h, 1, n)) = n
        /\ \A i \in 1..n : SubSeq(h, 1, n)[i] = h[i]
    BY <1>1, <1>2, SubSeqProperties
  <2> QED BY <1>2, <2>1, <2>2, SeqEqual
<1>4. Len(b) \in 1..(MaxTurns - 1) /\ Len(b) \in 1..MaxTurns
  BY <1>1, <1>2
<1>5. b \in Histories /\ b \in Parents
  BY <1>2, <1>4, HistoriesAre
<1> QED BY <1>2, <1>3, <1>4, <1>5

\* The last n elements.
LEMMA NewestIs ==
  ASSUME NEW s \in Seq(Turn), NEW n \in Nat \ {0}
  PROVE  LET t == Newest(s, n)
         IN  /\ t \in Seq(Turn) /\ Len(t) \in Nat /\ Len(t) <= n /\ Len(t) <= Len(s)
             /\ Len(s) >= 1 => Len(t) >= 1
             /\ \A i \in 0..(Len(t) - 1) : t[Len(t) - i] = s[Len(s) - i]
<1> DEFINE m == IF Len(s) > n THEN Len(s) - n + 1 ELSE 1
           t == SubSeq(s, m, Len(s))
<1>1. Len(s) \in Nat /\ m \in 1..(Len(s) + 1) /\ m \in Int /\ Len(s) \in Int
  BY LenProperties
<1>2. Len(s) - m + 1 = IF Len(s) > n THEN n ELSE Len(s)
  BY <1>1
<1>3. Newest(s, n) = t
  BY DEF Newest
<1> HIDE DEF m
<1>4. \A i \in m..Len(s) : s[i] \in Turn
  BY <1>1, ElementOfSeq
<1>5. /\ t \in Seq(Turn) /\ Len(t) = (IF m <= Len(s) THEN Len(s) - m + 1 ELSE 0)
      /\ \A i \in 1..(Len(s) - m + 1) : t[i] = s[m + i - 1]
  BY <1>1, <1>4, SubSeqProperties
<1> HIDE DEF t
<1>6. Len(t) = Len(s) - m + 1
  BY <1>1, <1>5
<1>7. ASSUME NEW i \in 0..(Len(t) - 1) PROVE t[Len(t) - i] = s[Len(s) - i]
  <2>1. Len(t) - i \in 1..(Len(s) - m + 1) /\ m + (Len(t) - i) - 1 = Len(s) - i
    BY <1>1, <1>6
  <2> QED BY <1>5, <2>1
<1> QED BY <1>1, <1>2, <1>3, <1>5, <1>6, <1>7

LEMMA SubsequencesAre ==
  ASSUME NEW s \in Seq(Turn), NEW t \in Subsequences(s)
  PROVE  t \in Seq(Turn)
<1>1. PICK k \in 0..Len(s) :
        t \in {[i \in 1..k |-> s[f[i]]] : f \in {g \in [1..k -> DOMAIN s] : Increasing(g)}}
  BY DEF Subsequences
<1>2. PICK f \in [1..k -> DOMAIN s] : t = [i \in 1..k |-> s[f[i]]]
  BY <1>1
<1>3. k \in Nat /\ \A i \in 1..k : s[f[i]] \in Turn
  BY <1>2, LenProperties, ElementOfSeq
<1>4. t \in [1..k -> Turn]
  BY <1>2, <1>3
<1> QED BY <1>3, <1>4

\* Agreement of the newest turns survives one more turn, and forgetting.
LEMMA AgreeAppend ==
  ASSUME NEW s \in Seq(Turn), NEW t \in Seq(Turn), NEW x \in Turn, Agree(s, t)
  PROVE  Agree(Append(s, x), Append(t, x))
<1> DEFINE a == Append(s, x)
           b == Append(t, x)
<1>1. Len(s) \in Nat /\ Len(a) = Len(s) + 1 /\ a[Len(s) + 1] = x
      /\ \A i \in 1..Len(s) : a[i] = s[i]
  BY AppendProperties, LenProperties
<1>2. Len(t) \in Nat /\ Len(b) = Len(t) + 1 /\ b[Len(t) + 1] = x
      /\ \A i \in 1..Len(t) : b[i] = t[i]
  BY AppendProperties, LenProperties
<1> SUFFICES ASSUME NEW i \in 0..(MaxTurns - 1), i < Len(a), i < Len(b)
             PROVE  a[Len(a) - i] = b[Len(b) - i]
  BY DEF Agree
<1> HIDE DEF a, b
<1>3. CASE i = 0
  BY <1>1, <1>2, <1>3
<1>4. CASE i > 0
  <2>1. i - 1 \in 0..(MaxTurns - 1) /\ i - 1 < Len(s) /\ i - 1 < Len(t)
    BY <1>1, <1>2, <1>4
  <2>2. s[Len(s) - (i - 1)] = t[Len(t) - (i - 1)]
    BY <2>1 DEF Agree
  <2>3. Len(a) - i = Len(s) - (i - 1) /\ Len(b) - i = Len(t) - (i - 1)
    BY <1>1, <1>2
  <2>4. Len(s) - (i - 1) \in 1..Len(s) /\ Len(t) - (i - 1) \in 1..Len(t)
    BY <1>1, <1>2, <1>4, <2>1
  <2> QED BY <1>1, <1>2, <2>2, <2>3, <2>4
<1> QED BY <1>3, <1>4

LEMMA AgreeNewest ==
  ASSUME NEW s \in Seq(Turn), NEW t \in Seq(Turn), NEW n \in Nat \ {0}, Agree(s, t)
  PROVE  Agree(Newest(s, n), t)
<1> DEFINE a == Newest(s, n)
<1>1. /\ Len(a) \in Nat /\ Len(s) \in Nat /\ Len(a) <= Len(s)
      /\ \A i \in 0..(Len(a) - 1) : a[Len(a) - i] = s[Len(s) - i]
  BY NewestIs, LenProperties
<1> HIDE DEF a
<1>2. Agree(a, t)
  BY <1>1 DEF Agree
<1> QED BY <1>2 DEF a

\* One turn is all of a history that begins with it.
LEMMA AgreeLast ==
  ASSUME NEW s \in Seq(Turn), NEW t \in Seq(Turn), Len(t) = 1, Len(s) >= 1,
         s[Len(s)] = t[1]
  PROVE  Agree(s, t)
BY LenProperties DEF Agree

-----------------------------------------------------------------------------
(* Requests *)

\* What a request knows of the context it read, until it saves its node.
ReqOK(q) ==
  /\ q.pc \in {"evolve", "roll"} => q.answer \in Answers
  /\ q.pc = "roll" => q.conv \in Conversations
  /\ q.pc \in {"model", "evolve"} =>
       /\ q.ask \in Asks
       /\ q.state \in {"root", "fork"} => q.seen = <<>>
       /\ q.state \in {"root", "fallback"} => q.parent = <<>>
       /\ q.state = "matched" => Agree(q.seen, q.parent)

RequestsOK == \A r \in Requests : ReqOK(req[r])

\* Whoever works does so under a claim, or was overstayed.
ClaimsCover == \A r \in Requests : Doing(r) \subseteq claims \cup overstayed

IInv ==
  /\ TypeOK /\ RequestsOK
  /\ BranchKeepsItsHistory /\ OneWorkerPerTurn /\ ClaimsCover /\ OnlyLateBranches

LEMMA EmptyIs ==
  /\ <<>> \in Seq(Turn) /\ Len(<<>>) = 0
  /\ \A n \in Nat : <<>> \in Upto(n)
  /\ \A t : Agree(<<>>, t)
<1>1. <<>> \in Seq(Turn) /\ Len(<<>>) = 0
  BY EmptySeq
<1>2. ASSUME NEW n \in Nat PROVE <<>> \in Upto(n)
  <2>1. Len(<<>>) <= n
    BY <1>1
  <2> QED BY <1>1, <2>1, UptoAre
<1>3. \A t : Agree(<<>>, t)
  BY <1>1 DEF Agree
<1> QED BY <1>1, <1>2, <1>3

LEMMA IdleIs ==
  /\ Idle \in Request /\ Over \in Request
  /\ Idle.pc = "idle" /\ Over.pc = "over" /\ Absent \in Node
  /\ Absent.status = "none" /\ Absent.turns = <<>>
<1>1. <<>> \in Parents /\ <<>> \in Upto(Retained)
  BY EmptyIs DEF Parents
<1> QED BY <1>1 DEF Idle, Over, Request, Absent, Node

LEMMA CompletedIs ==
  ASSUME IInv, NEW r \in Requests, req[r].ask \in Asks, req[r].answer \in Answers
  PROVE  /\ req[r].parent \in Seq(Turn) /\ req[r].seen \in Seq(Turn)
         /\ <<req[r].ask, req[r].answer>> \in Turn
         /\ Completed(r) \in Histories /\ KeyOf(r) \in Key
         /\ Completed(r) = Append(req[r].parent, <<req[r].ask, req[r].answer>>)
         /\ Len(Completed(r)) = Len(req[r].parent) + 1
<1>1. /\ req[r].parent \in Parents /\ req[r].seen \in Upto(Retained)
      /\ req[r].conv \in Conversations \cup {NoConversation}
  BY DEF IInv, TypeOK, Request
<1>2. <<req[r].ask, req[r].answer>> \in Turn
  BY DEF Turn
<1>3. /\ req[r].parent \in Seq(Turn) /\ Len(req[r].parent) \in 0..(MaxTurns - 1)
      /\ req[r].seen \in Seq(Turn)
  BY <1>1, HistoriesAre, UptoAre
<1>4. Completed(r) = Append(req[r].parent, <<req[r].ask, req[r].answer>>)
  BY DEF Completed
<1>5. Completed(r) \in Seq(Turn) /\ Len(Completed(r)) = Len(req[r].parent) + 1
  BY <1>2, <1>3, <1>4, AppendProperties
<1>6. Len(Completed(r)) \in 1..MaxTurns
  BY <1>3, <1>5
<1>7. Completed(r) \in Histories
  BY <1>5, <1>6, HistoriesAre
<1> QED BY <1>1, <1>2, <1>3, <1>4, <1>5, <1>7 DEF KeyOf, Key

\* What a node remembers ends with its own turn, agrees with its history, and is
\* that turn alone if the request knew of nothing before it.
LEMMA EvolvedIs ==
  ASSUME IInv, NEW r \in Requests, req[r].pc = "evolve", NEW turns \in Evolved(r)
  PROVE  /\ turns \in Upto(Retained)
         /\ Agree(turns, Completed(r))
         /\ req[r].seen = <<>> /\ req[r].state # "fallback" => Len(turns) = 1
<1> DEFINE x == <<req[r].ask, req[r].answer>>
           all == Append(req[r].seen, x)
           older == SubSeq(all, 1, Len(all) - Len(Newest(all, Keep)))
<1>1. ReqOK(req[r])
  BY DEF IInv, RequestsOK
<1>2. /\ req[r].parent \in Seq(Turn) /\ req[r].seen \in Seq(Turn) /\ x \in Turn
      /\ Completed(r) = Append(req[r].parent, x) /\ Completed(r) \in Seq(Turn)
      /\ Len(Completed(r)) = Len(req[r].parent) + 1
  BY <1>1, CompletedIs, HistoriesAre DEF ReqOK
<1>3. /\ all \in Seq(Turn) /\ Len(all) = Len(req[r].seen) + 1 /\ Len(req[r].seen) \in Nat
      /\ all[Len(all)] = x
  BY <1>2, AppendProperties, LenProperties
<1>4. PICK base \in Seq(Turn) :
        /\ turns = Newest(base, Retained) /\ Len(base) >= 1 /\ base[Len(base)] = x
        /\ req[r].state # "fallback" => base = all
  <2>1. PICK b \in (IF req[r].state = "fallback"
                     THEN {kept \o Newest(all, Keep) : kept \in Subsequences(older)}
                     ELSE {}) \cup {all} : turns = Newest(b, Retained)
    BY Zenon DEF Evolved
  <2>2. CASE b = all
    <3> HIDE DEF all, x
    <3>1. b \in Seq(Turn) /\ Len(b) >= 1 /\ b[Len(b)] = x
      BY <1>3, <2>2
    <3> QED BY <2>1, <2>2, <3>1
  <2>3. CASE b # all
    <3>1. req[r].state = "fallback" /\ b \in {kept \o Newest(all, Keep) : kept \in Subsequences(older)}
      BY <2>1, <2>3
    <3>2. PICK kept \in Subsequences(older) : b = kept \o Newest(all, Keep)
      BY <3>1
    <3> DEFINE end == Newest(all, Keep)
    <3>3. /\ end \in Seq(Turn) /\ Len(end) \in Nat /\ Len(end) >= 1 /\ Len(end) <= Len(all)
          /\ end[Len(end)] = all[Len(all)]
      <4>1. /\ end \in Seq(Turn) /\ Len(end) \in Nat /\ Len(end) <= Len(all)
            /\ Len(all) >= 1 => Len(end) >= 1
            /\ \A i \in 0..(Len(end) - 1) : end[Len(end) - i] = all[Len(all) - i]
        BY <1>3, NewestIs
      <4> HIDE DEF all, end
      <4>2. Len(end) >= 1
        BY <1>3, <4>1
      <4>3. end[Len(end) - 0] = all[Len(all) - 0]
        <5>1. 0 \in 0..(Len(end) - 1)
          BY <4>1, <4>2
        <5> QED BY <4>1, <5>1
      <4> QED BY <1>3, <4>1, <4>2, <4>3
    <3>4. older \in Seq(Turn)
      <4>1. \A i \in 1..(Len(all) - Len(end)) : all[i] \in Turn
        BY <1>3, <3>3, ElementOfSeq
      <4> HIDE DEF all, end
      <4>2. 1 \in Int /\ Len(all) - Len(end) \in Int
        BY <1>3, <3>3
      <4> QED BY <4>1, <4>2, SubSeqProperties DEF end
    <3> HIDE DEF older
    <3>5. kept \in Seq(Turn) /\ Len(kept) \in Nat
      BY <3>4, SubsequencesAre, LenProperties
    <3> HIDE DEF end
    <3>6. /\ kept \o end \in Seq(Turn) /\ Len(kept \o end) = Len(kept) + Len(end)
          /\ (kept \o end)[Len(kept) + Len(end)] = end[Len(end)]
      BY <3>3, <3>5, ConcatProperties
    <3>7. end[Len(end)] = x
      BY <1>3, <3>3
    <3>8. b \in Seq(Turn) /\ Len(b) >= 1 /\ b[Len(b)] = x
      <4>1. b = kept \o end
        BY <3>2 DEF end
      <4>2. Len(b) = Len(kept) + Len(end) /\ Len(b) >= 1
        BY <3>3, <3>5, <3>6, <4>1
      <4> QED BY <3>6, <3>7, <4>1, <4>2
    <3> HIDE DEF all, x
    <3> QED BY <2>1, <3>1, <3>8
  <2> QED BY <2>2, <2>3
<1>5. /\ turns \in Seq(Turn) /\ Len(turns) <= Retained /\ Len(turns) <= Len(base)
      /\ Len(turns) \in Nat /\ Len(turns) >= 1
      /\ \A i \in 0..(Len(turns) - 1) : turns[Len(turns) - i] = base[Len(base) - i]
  BY <1>4, NewestIs, LenProperties
<1>6. turns \in Upto(Retained)
  BY <1>5, UptoAre
<1>7. turns[Len(turns)] = x
  <2>1. turns[Len(turns) - 0] = base[Len(base) - 0]
    <3>1. 0 \in 0..(Len(turns) - 1)
      BY <1>5
    <3> QED BY <1>5, <3>1
  <2>2. Len(base) \in Nat
    BY LenProperties
  <2> QED BY <1>4, <1>5, <2>1, <2>2
<1>8. Agree(turns, Completed(r))
  <2>1. CASE req[r].state = "matched"
    <3>1. Agree(req[r].seen, req[r].parent)
      BY <1>1, <2>1 DEF ReqOK
    <3>2. Agree(all, Completed(r))
      BY <1>2, <3>1, AgreeAppend
    <3> QED BY <1>2, <1>3, <1>4, <2>1, <3>2, AgreeNewest
  <2>2. CASE req[r].state = "fork"
    <3>1. Agree(req[r].seen, req[r].parent)
      BY <1>1, <2>2, EmptyIs DEF ReqOK
    <3>2. Agree(all, Completed(r))
      BY <1>2, <3>1, AgreeAppend
    <3> QED BY <1>2, <1>3, <1>4, <2>2, <3>2, AgreeNewest
  <2>3. CASE req[r].state \in {"root", "fallback"}
    <3>1. req[r].parent = <<>>
      BY <1>1, <2>3 DEF ReqOK
    <3>2. Len(Completed(r)) = 1 /\ Completed(r)[1] = x
      BY <1>2, <3>1, EmptyIs, AppendProperties
    <3> QED BY <1>2, <1>5, <1>7, <3>2, AgreeLast
  <2> QED BY <2>1, <2>2, <2>3 DEF IInv, TypeOK, Request
<1>9. ASSUME req[r].seen = <<>>, req[r].state # "fallback" PROVE Len(turns) = 1
  BY <1>3, <1>4, <1>5, <1>9, EmptyIs
<1> QED BY <1>6, <1>8, <1>9

-----------------------------------------------------------------------------
(* What keeps the invariant *)

LEMMA InitInv == Init => IInv
<1> SUFFICES ASSUME Init PROVE IInv
  OBVIOUS
<1>1. TypeOK
  BY IdleIs, EmptyIs DEF Init, TypeOK
<1>2. RequestsOK
  BY IdleIs DEF Init, RequestsOK, ReqOK
<1>3. BranchKeepsItsHistory
  BY IdleIs, EmptyIs DEF Init, BranchKeepsItsHistory
<1>4. OneWorkerPerTurn /\ ClaimsCover
  BY IdleIs DEF Init, OneWorkerPerTurn, ClaimsCover, Doing
<1>5. OnlyLateBranches
  BY IdleIs DEF Init, OnlyLateBranches, Active
<1> QED BY <1>1, <1>2, <1>3, <1>4, <1>5 DEF IInv

\* A step of one request that neither takes a claim nor writes a node.
LEMMA RequestKeeps ==
  ASSUME IInv, NEW r \in Requests, NEW q \in Request, req' = [req EXCEPT ![r] = q],
         ReqOK(q),
         q.pc \in {"evolve", "roll"} =>
           /\ req[r].pc \in {"evolve", "roll"} /\ q.conv = req[r].conv
           /\ q.parent = req[r].parent /\ q.ask = req[r].ask /\ q.answer = req[r].answer,
         rolling' \in [Conversations -> Upto(Retained)],
         \/ claims' = claims
         \/ claims' = claims \ Doing(r) /\ q.pc \notin {"evolve", "roll"},
         UNCHANGED <<nodes, overstayed, excused>>
  PROVE  IInv'
<1>1. \A s \in Requests : req'[s] = IF s = r THEN q ELSE req[s]
  BY DEF IInv, TypeOK
<1>2. TypeOK'
  BY DEF IInv, TypeOK
<1>3. RequestsOK'
  BY <1>1 DEF IInv, RequestsOK
<1>4. \A s \in Requests : Doing(s)' \subseteq Doing(s)
  BY <1>1 DEF Doing, KeyOf, Completed
<1>5. OneWorkerPerTurn'
  BY <1>4 DEF IInv, OneWorkerPerTurn
<1>6. ClaimsCover'
  <2>1. CASE claims' = claims
    BY <1>4, <2>1 DEF IInv, ClaimsCover
  <2>2. CASE claims' = claims \ Doing(r) /\ q.pc \notin {"evolve", "roll"}
    <3>1. \A s \in Requests : s # r => Doing(s) \cap Doing(r) \subseteq overstayed
      BY DEF IInv, OneWorkerPerTurn
    <3>2. Doing(r)' = {}
      BY <1>1, <2>2 DEF Doing
    <3> QED BY <1>4, <2>2, <3>1, <3>2 DEF IInv, ClaimsCover
  <2> QED BY <2>1, <2>2
<1>7. BranchKeepsItsHistory' /\ OnlyLateBranches'
  BY DEF IInv, BranchKeepsItsHistory, OnlyLateBranches, Active
<1> QED BY <1>2, <1>3, <1>5, <1>6, <1>7 DEF IInv

\* What is read on arrival fits the history the request shows.
LEMMA ArriveKeeps ==
  ASSUME IInv, NEW r \in Requests, NEW conv \in Conversations \cup {NoConversation},
         NEW parent \in Parents, NEW ask \in Asks, NEW readable \in BOOLEAN,
         Arrive(r, conv, parent, ask, readable)
  PROVE  IInv'
<1> DEFINE known == /\ parent # <<>> /\ readable /\ nodes[parent].status = "active"
           back == parent = <<>> /\ conv # NoConversation /\ readable /\ rolling[conv] # <<>>
           previous == Previous(conv, parent, readable)
           q == [pc |-> "model", conv |-> conv, parent |-> parent, ask |-> ask,
                 answer |-> "-", state |-> previous.state, seen |-> previous.seen]
<1>1. parent # <<>> => parent \in Histories
  BY HistoriesAre, EmptySeq
<1>2. /\ previous.state \in {"root", "fork", "matched", "fallback"}
      /\ previous.seen \in Upto(Retained)
      /\ previous.state \in {"root", "fork"} => previous.seen = <<>>
      /\ previous.state \in {"root", "fallback"} => parent = <<>>
      /\ previous.state = "matched" => Agree(previous.seen, parent)
  <2>1. CASE known
    <3>1. previous = [state |-> "matched", seen |-> nodes[parent].turns]
      BY <2>1 DEF Previous
    <3>2. nodes[parent].turns \in Upto(Retained)
      BY <1>1, <2>1 DEF IInv, TypeOK, Node
    <3>3. Agree(nodes[parent].turns, parent)
      BY <1>1, <2>1 DEF IInv, BranchKeepsItsHistory
    <3> QED BY <3>1, <3>2, <3>3
  <2>2. CASE back
    <3>1. previous = [state |-> "fallback", seen |-> rolling[conv]]
      BY <2>2 DEF Previous
    <3>2. rolling[conv] \in Upto(Retained)
      BY <2>2 DEF IInv, TypeOK
    <3>3. parent = <<>>
      BY <2>2
    <3>4. previous.state = "fallback" /\ previous.seen = rolling[conv]
      BY <3>1
    <3> HIDE DEF previous
    <3> QED BY <3>2, <3>3, <3>4
  <2>3. CASE ~known /\ ~back
    <3>1. previous = [state |-> IF parent = <<>> THEN "root" ELSE "fork", seen |-> <<>>]
      BY <2>3 DEF Previous
    <3>2. <<>> \in Upto(Retained)
      BY EmptyIs
    <3> HIDE DEF previous
    <3>3. previous.seen = <<>> /\ previous.state = (IF parent = <<>> THEN "root" ELSE "fork")
      BY <3>1
    <3>4. previous.seen \in Upto(Retained)
      BY <3>2, <3>3
    <3>5. CASE parent = <<>>
      <4>1. previous.state = "root"
        BY <3>3, <3>5
      <4> QED BY <3>3, <3>4, <3>5, <4>1
    <3>6. CASE parent # <<>>
      <4>1. previous.state = "fork"
        BY <3>3, <3>6
      <4> QED BY <3>3, <3>4, <4>1
    <3> QED BY <3>5, <3>6
  <2> QED BY <2>1, <2>2, <2>3
<1> HIDE DEF previous
<1>3. q \in Request
  BY <1>2 DEF Request
<1>4. ReqOK(q)
  BY <1>2 DEF ReqOK
<1>5. req' = [req EXCEPT ![r] = q] /\ UNCHANGED <<nodes, rolling, claims, overstayed, excused>>
  BY DEF Arrive, previous
<1>6. q.pc = "model" /\ rolling' \in [Conversations -> Upto(Retained)]
  BY <1>5 DEF IInv, TypeOK
<1> HIDE DEF q
<1> QED BY <1>3, <1>4, <1>5, <1>6, RequestKeeps

\* A claim that is granted is nobody's, or whoever works under it is overstayed.
LEMMA AnswerKeeps ==
  ASSUME IInv, NEW r \in Requests, NEW a \in Answers, Answer(r, a)
  PROVE  IInv'
<1> DEFINE k == [conv |-> req[r].conv, history |-> Append(req[r].parent, <<req[r].ask, a>>)]
           q == [req[r] EXCEPT !.answer = a, !.pc = "evolve"]
<1>1. req[r].pc = "model" /\ req[r] \in Request /\ ReqOK(req[r])
  BY DEF Answer, IInv, TypeOK, RequestsOK
<1>2. CASE req' = [req EXCEPT ![r] = Over] /\ UNCHANGED <<nodes, rolling, claims, overstayed, excused>>
  <2>1. ReqOK(Over) /\ Over \in Request /\ Over.pc = "over"
    BY IdleIs DEF ReqOK
  <2>2. rolling' \in [Conversations -> Upto(Retained)]
    BY <1>2 DEF IInv, TypeOK
  <2> QED BY <1>2, <2>1, <2>2, RequestKeeps
<1>3. CASE /\ Granted(r, a, k) /\ UNCHANGED <<nodes, rolling, excused>>
           /\ \/ Free(k) /\ UNCHANGED overstayed
              \/ overstayed' = overstayed \cup ({k} \cap UNION {Doing(s) : s \in Requests})
  <2>1. q \in Request /\ ReqOK(q) /\ q.pc = "evolve"
    BY <1>1 DEF Request, ReqOK
  <2>2. req' = [req EXCEPT ![r] = q] /\ claims' = claims \cup {k}
    BY <1>3 DEF Granted, IInv, TypeOK
  <2>3. \A s \in Requests : req'[s] = IF s = r THEN q ELSE req[s]
    BY <2>2 DEF IInv, TypeOK
  <2>4. k \in Key
    <3>1. req[r].ask \in Asks /\ req[r].parent \in Parents
          /\ req[r].conv \in Conversations \cup {NoConversation}
      BY <1>1 DEF Request, ReqOK
    <3>2. req[r].parent \in Seq(Turn) /\ Len(req[r].parent) \in 0..(MaxTurns - 1)
          /\ <<req[r].ask, a>> \in Turn
      BY <3>1, HistoriesAre DEF Turn
    <3> DEFINE h == Append(req[r].parent, <<req[r].ask, a>>)
    <3>3. h \in Seq(Turn) /\ Len(h) = Len(req[r].parent) + 1
      BY <3>2, AppendProperties
    <3> HIDE DEF h
    <3>4. Len(h) \in 1..MaxTurns
      BY <3>2, <3>3
    <3>5. h \in Histories
      BY <3>3, <3>4, HistoriesAre
    <3> QED BY <3>1, <3>5 DEF Key, h
  <2>5. Doing(r)' = {k} /\ Doing(r) = {} /\ \A s \in Requests : s # r => Doing(s)' = Doing(s)
    <3>1. /\ q.pc = "evolve" /\ q.conv = req[r].conv /\ q.parent = req[r].parent
          /\ q.ask = req[r].ask /\ q.answer = a
      BY <1>1 DEF Request
    <3>2. \A s \in Requests : s # r => req'[s] = req[s]
      BY <2>3
    <3>3. req'[r] = q
      BY <2>3
    <3>4. Doing(r) = {}
      BY <1>1 DEF Doing
    <3>5. \A s \in Requests : s # r => Doing(s)' = Doing(s)
      BY <3>2 DEF Doing, KeyOf, Completed
    <3> HIDE DEF q
    <3>6. Doing(r)' = {k}
      BY <3>1, <3>3 DEF Doing, KeyOf, Completed
    <3> QED BY <3>4, <3>5, <3>6
  <2> HIDE DEF q, k
  <2>6. overstayed \subseteq overstayed' /\ overstayed' \subseteq overstayed \cup {k}
    BY <1>3
  <2>7. TypeOK'
    BY <1>3, <2>1, <2>2, <2>4, <2>6 DEF IInv, TypeOK
  <2>8. RequestsOK'
    BY <2>1, <2>3 DEF IInv, RequestsOK
  <2>9. \A s \in Requests : s # r /\ k \in Doing(s) => k \in overstayed'
    <3>1. CASE Free(k)
      BY <2>6, <3>1 DEF IInv, ClaimsCover, Free
    <3>2. CASE overstayed' = overstayed \cup ({k} \cap UNION {Doing(s) : s \in Requests})
      BY <3>2
    <3> QED BY <1>3, <3>1, <3>2
  <2>10. OneWorkerPerTurn'
    BY <2>5, <2>6, <2>9 DEF IInv, OneWorkerPerTurn
  <2>11. ClaimsCover'
    BY <2>2, <2>5, <2>6 DEF IInv, ClaimsCover
  <2>12. BranchKeepsItsHistory' /\ OnlyLateBranches'
    BY <1>3 DEF IInv, BranchKeepsItsHistory, OnlyLateBranches, Active
  <2> QED BY <2>7, <2>8, <2>10, <2>11, <2>12 DEF IInv
<1> QED BY <1>2, <1>3 DEF Answer, Become

\* A node that is saved agrees with its history, and if its parent is archived the
\* request had read it before or knew of nothing.
LEMMA SaveNodeKeeps ==
  ASSUME IInv, NEW r \in Requests, NEW turns \in Evolved(r), SaveNode(r, turns)
  PROVE  IInv'
<1> DEFINE h == Completed(r)
           new == [status |-> "active", turns |-> turns]
           q == IF req[r].conv = NoConversation THEN Over
                ELSE [req[r] EXCEPT !.pc = "roll", !.seen = turns]
<1>1. req[r].pc = "evolve" /\ req[r] \in Request /\ ReqOK(req[r])
  BY DEF SaveNode, IInv, TypeOK, RequestsOK
<1>2. /\ turns \in Upto(Retained) /\ Agree(turns, h)
      /\ req[r].seen = <<>> /\ req[r].state # "fallback" => Len(turns) = 1
  BY <1>1, EvolvedIs
<1>3. /\ h \in Histories /\ KeyOf(r) \in Key /\ req[r].parent \in Seq(Turn)
      /\ Len(h) = Len(req[r].parent) + 1
  BY <1>1, CompletedIs DEF ReqOK
<1>4. q \in Request /\ ReqOK(q)
  BY <1>1, <1>2, IdleIs DEF Request, ReqOK
<1>5. PICK gone \in SUBSET ({x \in Histories : Active(x)} \ {h}) :
        /\ nodes' = [x \in Histories |-> IF x = h THEN new ELSE IF x \in gone THEN Absent ELSE nodes[x]]
        /\ excused' = (excused \ (gone \cup {h})) \cup
             (IF req[r].state = "matched" /\ \E b \in Below(h) : nodes[b].status = "archived"
              THEN {h} ELSE {})
        /\ req' = [req EXCEPT ![r] = q]
        /\ UNCHANGED <<rolling, claims, overstayed>>
  BY DEF SaveNode, IInv, TypeOK
<1> HIDE DEF h
<1>6. new \in Node /\ new.status = "active" /\ new.turns = turns
  BY <1>2 DEF Node
<1>7. \A x \in Histories : nodes'[x] = IF x = h THEN new ELSE IF x \in gone THEN Absent ELSE nodes[x]
  BY <1>5
<1>8. \A s \in Requests : Doing(s)' \subseteq Doing(s)
  <2>1. \A s \in Requests : req'[s] = IF s = r THEN q ELSE req[s]
    BY <1>5 DEF IInv, TypeOK
  <2>2. q.pc = "over" \/ /\ q.conv = req[r].conv /\ q.parent = req[r].parent
                         /\ q.ask = req[r].ask /\ q.answer = req[r].answer
    BY <1>1, IdleIs DEF Request
  <2> HIDE DEF q
  <2> QED BY <1>1, <2>1, <2>2 DEF Doing, KeyOf, Completed
<1> HIDE DEF q, new
<1>9. TypeOK'
  <2>1. nodes' \in [Histories -> Node]
    BY <1>5, <1>6, IdleIs DEF IInv, TypeOK
  <2>2. excused' \subseteq Histories
    BY <1>3, <1>5 DEF IInv, TypeOK
  <2> QED BY <1>4, <1>5, <2>1, <2>2 DEF IInv, TypeOK
<1>10. RequestsOK'
  BY <1>4, <1>5 DEF IInv, TypeOK, RequestsOK
<1>11. OneWorkerPerTurn' /\ ClaimsCover'
  BY <1>5, <1>8 DEF IInv, OneWorkerPerTurn, ClaimsCover
<1>12. BranchKeepsItsHistory'
  <2> SUFFICES ASSUME NEW x \in Histories PROVE Agree(nodes'[x].turns, x)
    BY DEF BranchKeepsItsHistory
  <2>1. CASE x = h
    BY <1>2, <1>6, <1>7, <2>1 DEF h
  <2>2. CASE x # h
    BY <1>7, <2>2, IdleIs, EmptyIs DEF IInv, BranchKeepsItsHistory
  <2> QED BY <2>1, <2>2
<1>13. OnlyLateBranches'
  <2> SUFFICES ASSUME NEW x \in Histories \ excused', nodes'[x].status = "active",
                      NEW b \in Below(x), nodes'[b].status = "archived"
               PROVE  Len(nodes'[x].turns) = 1
    BY DEF OnlyLateBranches, Active
  <2>1. b \in Histories /\ b # h /\ nodes[b].status = "archived"
    BY <1>6, <1>7, BelowIs, IdleIs
  <2>2. CASE x = h
    <3>1. req[r].state # "matched"
      BY <1>5, <2>1, <2>2
    <3>2. req[r].parent # <<>>
      <4>1. Len(h) > 1
        BY <2>2 DEF Below
      <4> QED BY <1>3, <4>1, EmptyIs
    <3>3. req[r].seen = <<>> /\ req[r].state # "fallback"
      BY <1>1, <3>1, <3>2 DEF ReqOK, Request
    <3> QED BY <1>2, <1>6, <1>7, <2>2, <3>3
  <2>3. CASE x # h
    <3>1. x \notin gone /\ nodes'[x] = nodes[x]
      BY <1>7, <2>3, IdleIs
    <3>2. x \notin excused
      BY <1>5, <2>3, <3>1
    <3> QED BY <2>1, <3>1, <3>2 DEF IInv, OnlyLateBranches, Active
  <2> QED BY <2>2, <2>3
<1> QED BY <1>9, <1>10, <1>11, <1>12, <1>13 DEF IInv

LEMMA SaveRollingKeeps ==
  ASSUME IInv, NEW r \in Requests, SaveRolling(r)
  PROVE  IInv'
<1>1. req[r].pc = "roll" /\ req[r] \in Request /\ ReqOK(req[r])
  BY DEF SaveRolling, IInv, TypeOK, RequestsOK
<1>2. rolling' \in [Conversations -> Upto(Retained)]
  BY <1>1 DEF SaveRolling, IInv, TypeOK, Request
<1>3. ReqOK(Over) /\ Over \in Request /\ Over.pc = "over"
  BY IdleIs DEF ReqOK
<1>4. req' = [req EXCEPT ![r] = Over] /\ UNCHANGED <<nodes, claims, overstayed, excused>>
  BY DEF SaveRolling, Become
<1> QED BY <1>2, <1>3, <1>4, RequestKeeps

LEMMA FailKeeps ==
  ASSUME IInv, NEW r \in Requests, NEW deleted \in BOOLEAN, Fail(r, deleted)
  PROVE  IInv'
<1>1. req[r].pc \in {"evolve", "roll"} /\ Doing(r) = {KeyOf(r)}
  BY DEF Fail, Doing
<1>2. ReqOK(Over) /\ Over \in Request /\ Over.pc = "over"
  BY IdleIs DEF ReqOK
<1>3. /\ req' = [req EXCEPT ![r] = Over] /\ UNCHANGED <<nodes, rolling, overstayed, excused>>
      /\ claims' = claims \/ claims' = claims \ Doing(r)
  BY <1>1 DEF Fail, Become
<1>4. rolling' \in [Conversations -> Upto(Retained)]
  BY <1>3 DEF IInv, TypeOK
<1> QED BY <1>2, <1>3, <1>4, RequestKeeps

-----------------------------------------------------------------------------
(* Subtrees *)

\* A subtree goes through nodes of one status: it has the child of each of its
\* members that has that status, and the parent of each but the first.
LEMMA SubtreeIs ==
  ASSUME NEW h \in Histories, NEW status, NEW x \in Histories, NEW b \in Below(x)
  PROVE  /\ b \in Subtree(h, status) /\ nodes[x].status = status => x \in Subtree(h, status)
         /\ x \in Subtree(h, status) /\ x # h => b \in Subtree(h, status)
<1>1. /\ h \in Seq(Turn) /\ Len(h) \in 1..MaxTurns
      /\ x \in Seq(Turn) /\ Len(x) \in 1..MaxTurns
      /\ b \in Histories /\ Len(b) = Len(x) - 1
      /\ \A n \in 0..Len(b) : SubSeq(b, 1, n) = SubSeq(x, 1, n)
  BY BelowIs, HistoriesAre
<1>2. SubSeq(x, 1, Len(x)) = x /\ SubSeq(h, 1, Len(h)) = h
  BY <1>1, SubSeqFull
<1>3. ASSUME b \in Subtree(h, status), nodes[x].status = status PROVE x \in Subtree(h, status)
  <2>1. /\ Len(h) <= Len(b) /\ SubSeq(h, 1, Len(h)) = SubSeq(b, 1, Len(h))
        /\ \A n \in Len(h)..Len(b) : nodes[SubSeq(b, 1, n)].status = status
    BY <1>3 DEF Subtree, IsPrefix
  <2>2. SubSeq(h, 1, Len(h)) = SubSeq(x, 1, Len(h)) /\ Len(h) <= Len(x)
    BY <1>1, <2>1
  <2>3. ASSUME NEW n \in Len(h)..Len(x) PROVE nodes[SubSeq(x, 1, n)].status = status
    <3>1. CASE n = Len(x)
      BY <1>2, <1>3, <3>1
    <3>2. CASE n # Len(x)
      <4>1. n \in Len(h)..Len(b) /\ n \in 0..Len(b)
        BY <1>1, <3>2
      <4> QED BY <1>1, <2>1, <4>1
    <3> QED BY <3>1, <3>2
  <2> QED BY <2>2, <2>3 DEF Subtree, IsPrefix
<1>4. ASSUME x \in Subtree(h, status), x # h PROVE b \in Subtree(h, status)
  <2>1. /\ Len(h) <= Len(x) /\ SubSeq(h, 1, Len(h)) = SubSeq(x, 1, Len(h))
        /\ \A n \in Len(h)..Len(x) : nodes[SubSeq(x, 1, n)].status = status
    BY <1>4 DEF Subtree, IsPrefix
  <2>2. Len(h) # Len(x)
    BY <1>2, <1>4, <2>1
  <2>3. Len(h) <= Len(b) /\ SubSeq(h, 1, Len(h)) = SubSeq(b, 1, Len(h))
    <3>1. Len(h) \in 0..Len(b)
      BY <1>1, <2>1, <2>2
    <3> QED BY <1>1, <2>1, <3>1
  <2>4. ASSUME NEW n \in Len(h)..Len(b) PROVE nodes[SubSeq(b, 1, n)].status = status
    <3>1. n \in Len(h)..Len(x) /\ n \in 0..Len(b)
      BY <1>1
    <3> QED BY <1>1, <2>1, <3>1
  <2> QED BY <1>1, <2>3, <2>4 DEF Subtree, IsPrefix
<1> QED BY <1>3, <1>4

\* The nodes of a set change their status and nothing else.
LEMMA MoveIs ==
  ASSUME IInv, NEW S \in SUBSET Histories, NEW status \in {"active", "archived"}, Move(S, status)
  PROVE  /\ nodes' \in [Histories -> Node]
         /\ \A x \in Histories : /\ nodes'[x].turns = nodes[x].turns
                                 /\ nodes'[x].status = IF x \in S THEN status ELSE nodes[x].status
<1>1. \A x \in Histories : nodes[x] \in Node
  BY DEF IInv, TypeOK
<1>2. nodes' = [x \in Histories |-> IF x \in S THEN [nodes[x] EXCEPT !.status = status] ELSE nodes[x]]
  BY DEF Move
<1>3. \A n \in Node : /\ [n EXCEPT !.status = status] \in Node
                      /\ [n EXCEPT !.status = status].turns = n.turns
                      /\ [n EXCEPT !.status = status].status = status
  BY DEF Node
<1> QED BY <1>1, <1>2, <1>3

\* The owner's operations, apart from what they mean for branches below.
LEMMA MoveKeeps ==
  ASSUME IInv, NEW S \in SUBSET Histories, NEW status \in {"active", "archived"}, Move(S, status),
         excused' \subseteq Histories, UNCHANGED <<rolling, claims, req, overstayed>>,
         OnlyLateBranches'
  PROVE  IInv'
<1>1. /\ nodes' \in [Histories -> Node]
      /\ \A x \in Histories : nodes'[x].turns = nodes[x].turns
  BY MoveIs
<1>2. TypeOK'
  BY <1>1 DEF IInv, TypeOK
<1>3. BranchKeepsItsHistory'
  BY <1>1 DEF IInv, BranchKeepsItsHistory
<1>4. RequestsOK' /\ OneWorkerPerTurn' /\ ClaimsCover'
  BY DEF IInv, RequestsOK, OneWorkerPerTurn, ClaimsCover, Doing, KeyOf, Completed
<1> QED BY <1>2, <1>3, <1>4 DEF IInv

LEMMA ArchiveKeeps ==
  ASSUME IInv, NEW h \in Histories, ArchiveSubtree(h)
  PROVE  IInv'
<1> DEFINE S == Subtree(h, "active")
<1>1. S \in SUBSET Histories /\ \A x \in S : TRUE
  BY DEF Subtree
<1>2. /\ Move(S, "archived") /\ excused' = excused \ S
      /\ UNCHANGED <<rolling, claims, req, overstayed>>
  BY DEF ArchiveSubtree
<1>3. \A x \in Histories : /\ nodes'[x].turns = nodes[x].turns
                           /\ nodes'[x].status = IF x \in S THEN "archived" ELSE nodes[x].status
  BY <1>1, <1>2, MoveIs
<1>4. OnlyLateBranches'
  <2> SUFFICES ASSUME NEW x \in Histories \ excused', nodes'[x].status = "active",
                      NEW b \in Below(x), nodes'[b].status = "archived"
               PROVE  Len(nodes'[x].turns) = 1
    BY DEF OnlyLateBranches, Active
  <2>1. x \notin S /\ nodes[x].status = "active" /\ b \in Histories
    BY <1>3, BelowIs
  <2>2. b \notin S
    BY <2>1, SubtreeIs
  <2>3. nodes[b].status = "archived" /\ x \notin excused
    BY <1>2, <1>3, <2>1, <2>2
  <2> QED BY <1>3, <2>1, <2>3 DEF IInv, OnlyLateBranches, Active
<1>5. excused' \subseteq Histories
  BY <1>2 DEF IInv, TypeOK
<1> HIDE DEF S
<1> QED BY <1>1, <1>2, <1>4, <1>5, MoveKeeps

LEMMA RestoreKeeps ==
  ASSUME IInv, NEW h \in Histories, RestoreSubtree(h)
  PROVE  IInv'
<1> DEFINE S == Subtree(h, "archived")
<1>1. S \in SUBSET Histories
  BY DEF Subtree
<1>2. /\ Move(S, "active") /\ excused' = excused \cup {h}
      /\ UNCHANGED <<rolling, claims, req, overstayed>>
  BY DEF RestoreSubtree
<1>3. \A x \in Histories : /\ nodes'[x].turns = nodes[x].turns
                           /\ nodes'[x].status = IF x \in S THEN "active" ELSE nodes[x].status
  BY <1>1, <1>2, MoveIs
<1>4. OnlyLateBranches'
  <2> SUFFICES ASSUME NEW x \in Histories \ excused', nodes'[x].status = "active",
                      NEW b \in Below(x), nodes'[b].status = "archived"
               PROVE  Len(nodes'[x].turns) = 1
    BY DEF OnlyLateBranches, Active
  <2>1. b \in Histories /\ b \notin S /\ nodes[b].status = "archived" /\ x # h /\ x \notin excused
    BY <1>2, <1>3, BelowIs
  <2>2. x \notin S
    BY <2>1, SubtreeIs
  <2> QED BY <1>3, <2>1, <2>2 DEF IInv, OnlyLateBranches, Active
<1>5. excused' \subseteq Histories
  BY <1>2 DEF IInv, TypeOK
<1> HIDE DEF S
<1> QED BY <1>1, <1>2, <1>4, <1>5, MoveKeeps

LEMMA WriteSummaryKeeps ==
  ASSUME IInv, NEW c \in Conversations, WriteSummary(c)
  PROVE  IInv'
<1>1. rolling' \in [Conversations -> Upto(Retained)]
  BY EmptyIs DEF WriteSummary, IInv, TypeOK
<1>2. UNCHANGED <<nodes, claims, req, overstayed, excused>>
  BY DEF WriteSummary
<1> QED BY <1>1, <1>2 DEF IInv, TypeOK, RequestsOK, BranchKeepsItsHistory, OneWorkerPerTurn,
     ClaimsCover, OnlyLateBranches, Active, Doing, KeyOf, Completed

-----------------------------------------------------------------------------
(* What the run checks, for every value of the constants *)

LEMMA NextKeeps == IInv /\ [Next]_vars => IInv'
<1> SUFFICES ASSUME IInv, [Next]_vars PROVE IInv'
  OBVIOUS
<1>1. ASSUME NEW r \in Requests, Finalize(r) PROVE IInv'
  BY <1>1, SaveNodeKeeps, SaveRollingKeeps, FailKeeps DEF Finalize
<1>2. CASE Next
  BY <1>1, <1>2, ArriveKeeps, AnswerKeeps, ArchiveKeeps, RestoreKeeps, WriteSummaryKeeps DEF Next
<1>3. CASE UNCHANGED vars
  BY <1>3 DEF vars, IInv, TypeOK, RequestsOK, BranchKeepsItsHistory, OneWorkerPerTurn,
     ClaimsCover, OnlyLateBranches, Active, Doing, KeyOf, Completed
<1> QED BY <1>2, <1>3

LEMMA Always == Spec => []IInv
<1> QED BY InitInv, NextKeeps, PTL DEF Spec

\* Nodes, rolling contexts, claims and requests have their types.
THEOREM Types == Spec => []TypeOK
<1>1. IInv => TypeOK
  BY DEF IInv
<1> QED BY <1>1, Always, PTL

\* Whatever the rolling contexts held, whatever was archived, restored or evicted,
\* and in whatever order requests ended, a branch remembers only its own history.
THEOREM BranchesKeepToThemselves == Spec => []BranchKeepsItsHistory
<1>1. IInv => BranchKeepsItsHistory
  BY DEF IInv
<1> QED BY <1>1, Always, PTL

\* Two requests do the same work only once a claim has expired under one of them.
THEOREM OneWorker == Spec => []OneWorkerPerTurn
<1>1. IInv => OneWorkerPerTurn
  BY DEF IInv
<1> QED BY <1>1, Always, PTL

\* A branch below a deleted one remembers nothing of it but what its request had
\* read before the deletion.
THEOREM LateBranchesOnly == Spec => []OnlyLateBranches
<1>1. IInv => OnlyLateBranches
  BY DEF IInv
<1> QED BY <1>1, Always, PTL

-----------------------------------------------------------------------------
(***************************************************************************)
(* Tokens and one-time codes, another component at the front of the        *)
(* gateway (ConsoleLogin), for any number of users, tokens, codes and      *)
(* requests.                                                               *)
(***************************************************************************)
HIDE Bounds

\* A request has a token that nobody holds yet, and nobody else answers for.
Carries(p) ==
  \/ ops[p].pc \in {"issued", "undo", "write", "lost"}
  \/ At(p, "marked") /\ codes[ops[p].code].owned

OpenCode(c) == codes[c].status = "open"

\* A code is to deliver a token that was issued for it.
Loaded(c) == OpenCode(c) /\ codes[c].owned

\* A token that is on its way.
Fresh(t) == t \in Tokens /\ tokens[t].status # "none" /\ t \notin held

\* What a request has in hand: a token on its way, or one that is held anyway; a
\* code it is about to return is open, or overdue with its token revoked or held.
OpOK(p) ==
  /\ ops[p].pc \in {"idle", "auth", "renew"} => ops[p].token = NoToken
  /\ Carries(p) => Fresh(ops[p].token)
  /\ At(p, "lend") => ops[p].token \in held
  /\ ops[p].pc \in {"stash", "marked"} =>
       /\ ops[p].code \in Codes /\ codes[ops[p].code].status # "none"
       /\ codes[ops[p].code].token = ops[p].token
  /\ At(p, "marked") /\ ~Carries(p) => ops[p].token \in held
  /\ At(p, "stash") =>
       /\ ~codes[ops[p].code].known
       /\ OpenCode(ops[p].code) \/ Expired(ops[p].code)
       /\ \/ OpenCode(ops[p].code) \/ ops[p].token \in held
          \/ ops[p].token \in Tokens /\ ~ActiveToken(ops[p].token)
             /\ tokens[ops[p].token].status # "none"

\* An open code delivers a token on its way, or lends one that is held.
CodeOK(c) ==
  OpenCode(c) => IF codes[c].owned THEN Fresh(codes[c].token) ELSE codes[c].token \in held

\* Every token on its way is with one request, or with one code.
Exclusive ==
  /\ \A p, q \in Clients :
       Carries(p) /\ Carries(q) /\ ops[p].token = ops[q].token => p = q
  /\ \A c, d \in Codes :
       Loaded(c) /\ Loaded(d) /\ codes[c].token = codes[d].token => c = d
  /\ \A p \in Clients, c \in Codes :
       Carries(p) /\ Loaded(c) => ops[p].token # codes[c].token
  /\ \A p, q \in Clients :
       At(p, "stash") /\ At(q, "stash") /\ ops[p].code = ops[q].code => p = q

LoginInv ==
  /\ LoginTypeOK
  /\ \A p \in Clients : OpOK(p)
  /\ \A c \in Codes : CodeOK(c)
  /\ Exclusive
  /\ \A t \in held : tokens[t].status # "none"
  /\ file # NoToken => file \in held
  /\ MemoryForgets

-----------------------------------------------------------------------------

\* What a step may do that changes the requests of P (one at most) and no code,
\* but that it is known: whatever comes to be held was new, or was on its way
\* with that request; whatever comes on its way is new, or was already.
RequestMoves(P) ==
  /\ \A q \in Clients \ P : ops'[q] = ops[q]
  /\ \A q \in P :
       /\ OpOK(q)'
       /\ Carries(q)' => \/ Carries(q) /\ ops'[q].token = ops[q].token
                         \/ tokens[ops'[q].token].status = "none"
       /\ ops'[q].pc # "stash"
  /\ file' # NoToken => file' \in held'

\* Nothing about a code changes but that it becomes known.
CodesKept(P) ==
  \A c \in Codes :
    /\ codes'[c].status = codes[c].status /\ codes'[c].token = codes[c].token
    /\ codes'[c].owned = codes[c].owned /\ codes'[c].expires = codes[c].expires
    /\ \/ codes'[c].known = codes[c].known
       \/ \E q \in P : At(q, "stash") /\ ops[q].code = c

\* No token is forgotten, and none that was revoked works again.
TokensGrow ==
  \A t \in Tokens :
    tokens[t].status # "none" => /\ tokens'[t].status # "none"
                                 /\ ActiveToken(t)' => ActiveToken(t)

HeldGrows(P) ==
  /\ held \subseteq held'
  /\ \A t \in held' \ held :
       /\ tokens'[t].status # "none"
       /\ \/ tokens[t].status = "none"
          \/ \E q \in P : Carries(q) /\ ops[q].token = t /\ ~Carries(q)'

PendingKept(P) ==
  \A c \in pending' :
    \/ OpenCode(c) \/ Expired(c)
    \/ c \in pending /\ \A q \in P : ~(At(q, "marked") /\ ops[q].code = c)

LEMMA LoginMoveKeeps ==
  ASSUME LoginInv, LoginTypeOK', now <= now', NEW P \in SUBSET Clients, \A q, r \in P : q = r,
         RequestMoves(P), CodesKept(P), TokensGrow, HeldGrows(P), PendingKept(P)
  PROVE  LoginInv'
<1>1. \A c \in Codes : /\ OpenCode(c)' <=> OpenCode(c)
                       /\ Expired(c) => Expired(c)'
                       /\ Loaded(c)' <=> Loaded(c)
  BY DEF OpenCode, Expired, Loaded, CodesKept, LoginInv, LoginTypeOK, Code
<1>2. \A q \in Clients \ P : Carries(q)' <=> Carries(q)
  BY DEF Carries, At, RequestMoves, CodesKept, LoginInv, OpOK
<1>3. ASSUME NEW q \in Clients \ P, Carries(q) PROVE Fresh(ops[q].token)'
  <2>1. Fresh(ops[q].token) /\ ops'[q] = ops[q]
    BY <1>3 DEF RequestMoves, LoginInv, OpOK
  <2>2. ops[q].token \notin held'
    BY <1>3, <2>1 DEF HeldGrows, LoginInv, Exclusive, Fresh
  <2> QED BY <2>1, <2>2 DEF Fresh, TokensGrow
<1>4. \A q \in Clients : OpOK(q)'
  <2> SUFFICES ASSUME NEW q \in Clients \ P PROVE OpOK(q)'
    BY DEF RequestMoves
  <2>1. OpOK(q) /\ ops'[q] = ops[q] /\ (Carries(q)' <=> Carries(q)) /\ ops[q] \in Op
    BY <1>2 DEF RequestMoves, LoginInv, LoginTypeOK
  <2>2. At(q, "stash") => codes'[ops[q].code].known = codes[ops[q].code].known
    BY <2>1 DEF CodesKept, LoginInv, Exclusive, OpOK, At
  <2>3. held \subseteq held'
    BY DEF HeldGrows
  <2>4. ops[q].pc \in {"stash", "marked"} =>
          /\ codes'[ops[q].code].status = codes[ops[q].code].status
          /\ codes'[ops[q].code].token = codes[ops[q].code].token
          /\ codes[ops[q].code].status # "none"
    BY <2>1 DEF CodesKept, OpOK
  <2>5. At(q, "stash") =>
          /\ OpenCode(ops[q].code)' \/ Expired(ops[q].code)'
          /\ \/ OpenCode(ops[q].code)' \/ ops[q].token \in held'
             \/ ops[q].token \in Tokens /\ ~ActiveToken(ops[q].token)'
                /\ tokens'[ops[q].token].status # "none"
    BY <1>1, <2>1, <2>3
       DEF OpOK, TokensGrow, At, OpenCode, Expired, ActiveToken
  <2>6. Carries(q)' => Fresh(ops[q].token)'
    BY <1>3, <2>1
  <2> QED BY <2>1, <2>2, <2>3, <2>4, <2>5, <2>6
             DEF OpOK, At, OpenCode, Expired, Fresh, ActiveToken
<1>5. \A c \in Codes : CodeOK(c)'
  <2> SUFFICES ASSUME NEW c \in Codes, OpenCode(c) PROVE CodeOK(c)'
    BY <1>1 DEF CodeOK
  <2> /\ codes'[c].owned = codes[c].owned /\ codes'[c].token = codes[c].token
    BY DEF CodesKept
  <2>1. CASE codes[c].owned
    <3>1. Fresh(codes[c].token) /\ Loaded(c)
      BY <2>1 DEF LoginInv, CodeOK, Loaded
    <3>2. codes[c].token \notin held'
      BY <3>1 DEF HeldGrows, LoginInv, Exclusive, Fresh
    <3> QED BY <2>1, <3>1, <3>2 DEF Fresh, TokensGrow, CodeOK
  <2>2. CASE ~codes[c].owned
    <3>1. codes[c].token \in held
      BY <2>2 DEF LoginInv, CodeOK
    <3> QED BY <2>2, <3>1 DEF CodeOK, HeldGrows
  <2> QED BY <2>1, <2>2
<1>6. Exclusive'
  <2>1. ASSUME NEW q \in Clients, Carries(q)'
        PROVE  \/ Carries(q) /\ ops'[q].token = ops[q].token
               \/ q \in P /\ tokens[ops'[q].token].status = "none"
    BY <1>2, <2>1 DEF RequestMoves
  <2>2. ASSUME NEW q \in Clients, NEW r \in Clients, Carries(q)', Carries(r)',
               ops'[q].token = ops'[r].token
        PROVE  q = r
    BY <2>1, <2>2 DEF LoginInv, Exclusive, OpOK, Fresh
  <2>3. ASSUME NEW q \in Clients, NEW c \in Codes, Carries(q)', Loaded(c)'
        PROVE  ops'[q].token # codes'[c].token
    <3>1. Loaded(c) /\ codes'[c].token = codes[c].token /\ tokens[codes[c].token].status # "none"
      BY <1>1, <2>3 DEF CodesKept, LoginInv, CodeOK, Loaded, Fresh
    <3> QED BY <2>1, <2>3, <3>1 DEF LoginInv, Exclusive
  <2>4. ASSUME NEW c \in Codes, NEW d \in Codes, Loaded(c)', Loaded(d)',
               codes'[c].token = codes'[d].token
        PROVE  c = d
    BY <1>1, <2>4 DEF CodesKept, LoginInv, Exclusive
  <2>5. ASSUME NEW q \in Clients, NEW r \in Clients, At(q, "stash")', At(r, "stash")',
               ops'[q].code = ops'[r].code
        PROVE  q = r
    BY <2>5 DEF RequestMoves, At, LoginInv, Exclusive
  <2> QED BY <2>2, <2>3, <2>4, <2>5 DEF Exclusive
<1>7. \A t \in held' : tokens'[t].status # "none"
  BY DEF HeldGrows, TokensGrow, LoginInv, LoginTypeOK
<1>8. file' # NoToken => file' \in held'
  BY DEF RequestMoves
<1>9. MemoryForgets'
  <2> SUFFICES ASSUME NEW c \in pending', ~OpenCode(c)', ~Expired(c)'
               PROVE  \E q \in Clients : At(q, "marked")' /\ ops'[q].code = c
    BY DEF MemoryForgets, OpenCode
  <2>1. c \in Codes /\ ~OpenCode(c) /\ ~Expired(c)
    BY <1>1 DEF LoginTypeOK
  <2>2. c \in pending /\ \A q \in P : ~(At(q, "marked") /\ ops[q].code = c)
    BY <2>1 DEF PendingKept
  <2>3. PICK q \in Clients : At(q, "marked") /\ ops[q].code = c
    BY <2>1, <2>2 DEF LoginInv, MemoryForgets, OpenCode
  <2> QED BY <2>2, <2>3 DEF RequestMoves, At
<1> QED BY <1>4, <1>5, <1>6, <1>7, <1>8, <1>9 DEF LoginInv

LEMMA IdleClient ==
  /\ AnyUser \in Users /\ NoOp \in Op
  /\ NoOp.pc = "idle" /\ NoOp.token = NoToken /\ NoOp.code = NoCode
BY LoginAssumption DEF AnyUser, NoOp, Op

LEMMA InitLogin ==
  ASSUME LoginInit
  PROVE  LoginInv
<1>1. LoginTypeOK
  BY IdleClient, LoginAssumption
     DEF LoginInit, LoginTypeOK, Token, Roles, Code
<1>2. \A p \in Clients : ops[p].pc = "idle" /\ ops[p].token = NoToken
  BY IdleClient DEF LoginInit
<1>3. \A c \in Codes : ~OpenCode(c)
  BY DEF LoginInit, OpenCode
<1>4. held = {} /\ pending = {} /\ file = NoToken
  BY DEF LoginInit
<1> QED BY <1>1, <1>2, <1>3, <1>4
        DEF LoginInv, OpOK, CodeOK, Exclusive, MemoryForgets, Carries, Loaded,
            At

-----------------------------------------------------------------------------
(* Each action keeps the invariant *)

\* Revoking and issuing tokens.
LEMMA RevokedGrow ==
  ASSUME LoginTypeOK, NEW T, tokens' = Revoked(T)
  PROVE  tokens' \in [Tokens -> Token] /\ TokensGrow
BY DEF Revoked, TokensGrow, ActiveToken, LoginTypeOK, Token

LEMMA NewGrow ==
  ASSUME LoginTypeOK, NEW t \in Tokens, NEW u \in Users, NEW r \in Roles,
         New(t, u, r)
  PROVE  /\ tokens' \in [Tokens -> Token] /\ TokensGrow
         /\ tokens[t].status = "none" /\ tokens'[t].status = "active"
<1> DEFINE new == [status |-> "active", user |-> u, role |-> r]
<1>1. new \in Token /\ new.status = "active"
  BY DEF Token
<1> HIDE DEF new
<1>2. tokens' = [tokens EXCEPT ![t] = new] /\ tokens[t].status = "none"
  BY DEF New, new
<1> QED BY <1>1, <1>2 DEF TokensGrow, ActiveToken, LoginTypeOK

\* A step of one request p, after which it stands at new.
LEMMA OpKeeps ==
  ASSUME LoginInv, NEW p \in Clients, NEW new \in Op, ops' = [ops EXCEPT ![p] = new],
         UNCHANGED <<codes, now>>, new.pc # "stash",
         tokens' \in [Tokens -> Token], held' \in SUBSET Tokens, TokensGrow, HeldGrows({p}),
         pending' \subseteq pending,
         \A c \in pending' : At(p, "marked") => c # ops[p].code \/ Expired(c),
         file' = file \/ file' \in held',
         OpOK(p)',
         Carries(p)' => \/ Carries(p) /\ new.token = ops[p].token
                        \/ tokens[new.token].status = "none"
  PROVE  LoginInv'
<1>1. ops' \in [Clients -> Op] /\ ops'[p] = new /\ \A q \in Clients \ {p} : ops'[q] = ops[q]
  BY DEF LoginInv, LoginTypeOK
<1>2. LoginTypeOK'
  BY <1>1 DEF LoginInv, LoginTypeOK
<1>3. RequestMoves({p})
  BY <1>1 DEF RequestMoves, HeldGrows, LoginInv
<1>4. CodesKept({p})
  BY DEF CodesKept
<1>5. PendingKept({p})
  BY DEF PendingKept
<1>6. now <= now'
  BY DEF LoginInv, LoginTypeOK
<1> QED BY <1>2, <1>3, <1>4, <1>5, <1>6, LoginMoveKeeps

\* The same when nothing but the request changes.
LEMMA OpOnlyKeeps ==
  ASSUME LoginInv, NEW p \in Clients, NEW new \in Op, ops' = [ops EXCEPT ![p] = new],
         UNCHANGED <<tokens, codes, pending, held, file, now>>, new.pc # "stash",
         ~At(p, "marked"), OpOK(p)',
         Carries(p)' => Carries(p) /\ new.token = ops[p].token
  PROVE  LoginInv'
<1>1. TokensGrow /\ HeldGrows({p})
  BY DEF TokensGrow, HeldGrows, ActiveToken
<1>2. tokens' \in [Tokens -> Token] /\ held' \in SUBSET Tokens
  BY DEF LoginInv, LoginTypeOK
<1> QED BY <1>1, <1>2, OpKeeps

\* A request that is over, or just admitted, has nothing on its way.
LEMMA EmptyOpOK ==
  ASSUME NEW p, ops'[p].pc \in {"idle", "auth", "renew"}, ops'[p].token = NoToken
  PROVE  OpOK(p)' /\ ~Carries(p)'
BY DEF OpOK, Carries, At

\* A request that goes on elsewhere with what it has.
LEMMA GotoIs ==
  ASSUME NEW p \in Clients, NEW pc, ops \in [Clients -> Op], Goto(p, pc),
         pc \in {"issued", "undo", "lend", "lost"}
  PROVE  \E new \in Op : /\ ops' = [ops EXCEPT ![p] = new] /\ new.pc = pc
                         /\ new.token = ops[p].token /\ new.code = ops[p].code
<1> DEFINE new == [ops[p] EXCEPT !.pc = pc]
<1>1. /\ new \in Op /\ new.pc = pc
      /\ new.token = ops[p].token /\ new.code = ops[p].code
  BY DEF Op
<1>2. ops' = [ops EXCEPT ![p] = new]
  BY DEF Goto
<1> HIDE DEF new
<1> QED BY <1>1, <1>2

LEMMA AuthenticateKeeps ==
  ASSUME LoginInv, NEW p \in Clients, NEW t \in Tokens, Authenticate(p, t)
  PROVE  LoginInv'
<1> USE LoginAssumption
<1> DEFINE new == [NoOp EXCEPT !.pc = "auth", !.user = tokens[t].user]
<1>1. new \in Op /\ new.pc = "auth" /\ new.token = NoToken
  BY IdleClient DEF LoginInv, LoginTypeOK, Token, Op
<1>2. ops' = [ops EXCEPT ![p] = new]
  BY DEF Authenticate
<1> HIDE DEF new
<1>3. ops'[p] = new
  BY <1>2 DEF LoginInv, LoginTypeOK
<1>4. OpOK(p)' /\ ~Carries(p)'
  BY <1>1, <1>3, EmptyOpOK
<1> QED BY <1>1, <1>2, <1>4, OpOnlyKeeps DEF Authenticate, At

LEMMA RefuseKeeps ==
  ASSUME LoginInv, NEW p \in Clients, Refuse(p)
  PROVE  LoginInv'
<1> USE LoginAssumption
<1>1. ops' = [ops EXCEPT ![p] = NoOp] /\ ops'[p] = NoOp
  BY DEF Refuse, Finish, LoginInv, LoginTypeOK
<1>2. OpOK(p)' /\ ~Carries(p)'
  BY <1>1, IdleClient, EmptyOpOK
<1> QED BY <1>1, <1>2, IdleClient, OpOnlyKeeps DEF Refuse, At

LEMMA LinkKeeps ==
  ASSUME LoginInv, NEW p \in Clients, Link(p)
  PROVE  LoginInv'
<1> USE LoginAssumption
<1>1. CASE file # NoToken /\ Console(file)
  <2> DEFINE new == [NoOp EXCEPT !.pc = "lend", !.token = file, !.user = tokens[file].user]
  <2>1. new \in Op /\ new.pc = "lend" /\ new.token = file
    BY <1>1, IdleClient DEF LoginInv, LoginTypeOK, Token, Op
  <2>2. ops' = [ops EXCEPT ![p] = new]
    BY <1>1 DEF Link
  <2> HIDE DEF new
  <2>3. ops'[p] = new
    BY <2>2 DEF LoginInv, LoginTypeOK
  <2>4. OpOK(p)' /\ ~Carries(p)'
    BY <1>1, <2>1, <2>3 DEF OpOK, Carries, At, LoginInv, Link
  <2> QED BY <2>1, <2>2, <2>4, OpOnlyKeeps DEF Link, At
<1>2. CASE ~(file # NoToken /\ Console(file))
  <2> DEFINE new == [NoOp EXCEPT !.pc = "renew"]
  <2>1. new \in Op /\ new.pc = "renew" /\ new.token = NoToken
    BY IdleClient DEF Op
  <2>2. ops' = [ops EXCEPT ![p] = new]
    BY <1>2 DEF Link
  <2> HIDE DEF new
  <2>3. ops'[p] = new
    BY <2>2 DEF LoginInv, LoginTypeOK
  <2>4. OpOK(p)' /\ ~Carries(p)'
    BY <2>1, <2>3, EmptyOpOK
  <2> QED BY <2>1, <2>2, <2>4, OpOnlyKeeps DEF Link, At
<1> QED BY <1>1, <1>2

LEMMA InsertFailsKeeps ==
  ASSUME LoginInv, NEW p \in Clients, InsertFails(p)
  PROVE  LoginInv'
<1> USE LoginAssumption
<1>1. CASE At(p, "issued")
  <2>1. PICK new \in Op :
          ops' = [ops EXCEPT ![p] = new] /\ new.pc = "undo" /\ new.token = ops[p].token
    BY <1>1, GotoIs DEF InsertFails, At, LoginInv, LoginTypeOK
  <2>2. ops'[p] = new
    BY <2>1 DEF LoginInv, LoginTypeOK
  <2>3. UNCHANGED <<tokens, codes, pending, held, file, now>>
    BY DEF InsertFails
  <2>4. Carries(p) /\ Fresh(ops[p].token)
    BY <1>1 DEF Carries, At, LoginInv, OpOK
  <2>5. OpOK(p)'
    BY <2>1, <2>2, <2>3, <2>4 DEF OpOK, Carries, At, Fresh
  <2> QED BY <1>1, <2>1, <2>3, <2>4, <2>5, OpOnlyKeeps DEF At
<1>2. CASE At(p, "lend")
  <2>1. ops' = [ops EXCEPT ![p] = NoOp] /\ ops'[p] = NoOp
    BY <1>2 DEF InsertFails, Finish, LoginInv, LoginTypeOK, At
  <2>2. OpOK(p)' /\ ~Carries(p)'
    BY <2>1, IdleClient, EmptyOpOK
  <2>3. UNCHANGED <<tokens, codes, pending, held, file, now>>
    BY DEF InsertFails
  <2> QED BY <1>2, <2>1, <2>2, <2>3, IdleClient, OpOnlyKeeps DEF At
<1> QED BY <1>1, <1>2 DEF InsertFails

\* A step of the host or of the clock, with no request.
LEMMA HostKeeps ==
  ASSUME LoginInv, UNCHANGED <<ops, codes, pending, file>>, now' \in 0..MaxTime, now <= now',
         tokens' \in [Tokens -> Token], held' \in SUBSET Tokens, TokensGrow, HeldGrows({})
  PROVE  LoginInv'
<1>1. LoginTypeOK'
  BY DEF LoginInv, LoginTypeOK
<1>2. RequestMoves({}) /\ CodesKept({}) /\ PendingKept({})
  BY DEF RequestMoves, CodesKept, PendingKept, HeldGrows, LoginInv
<1> QED BY <1>1, <1>2, LoginMoveKeeps

LEMMA HostCreateKeeps ==
  ASSUME LoginInv, NEW t \in Tokens, NEW u \in Users, NEW r \in Roles,
         HostCreate(t, u, r)
  PROVE  LoginInv'
<1>1. tokens' \in [Tokens -> Token] /\ TokensGrow /\ tokens[t].status = "none"
      /\ tokens'[t].status = "active"
  BY NewGrow DEF HostCreate, LoginInv
<1>2. held' \in SUBSET Tokens /\ HeldGrows({})
  BY <1>1 DEF HostCreate, HeldGrows, LoginInv, LoginTypeOK
<1>3. now' \in 0..MaxTime /\ now <= now' /\ UNCHANGED <<ops, codes, pending, file>>
  BY DEF HostCreate, LoginInv, LoginTypeOK
<1> QED BY <1>1, <1>2, <1>3, HostKeeps

LEMMA HostRevokeKeeps ==
  ASSUME LoginInv, NEW t \in Tokens, HostRevoke(t)
  PROVE  LoginInv'
<1>1. tokens' \in [Tokens -> Token] /\ TokensGrow
  BY RevokedGrow DEF HostRevoke, LoginInv
<1>2. held' \in SUBSET Tokens /\ HeldGrows({})
  BY DEF HostRevoke, HeldGrows, LoginInv, LoginTypeOK
<1>3. now' \in 0..MaxTime /\ now <= now' /\ UNCHANGED <<ops, codes, pending, file>>
  BY DEF HostRevoke, LoginInv, LoginTypeOK
<1> QED BY <1>1, <1>2, <1>3, HostKeeps

LEMMA TickKeeps == ASSUME LoginInv, Tick PROVE LoginInv'
<1>1. /\ tokens' \in [Tokens -> Token] /\ TokensGrow
      /\ held' \in SUBSET Tokens /\ HeldGrows({})
  BY DEF Tick, TokensGrow, HeldGrows, ActiveToken, LoginInv, LoginTypeOK
<1>2. MaxTime \in Nat /\ now' \in 0..MaxTime /\ now <= now'
  BY LoginAssumption DEF Tick, LoginInv, LoginTypeOK
<1> QED BY <1>1, <1>2, HostKeeps DEF Tick

\* A request is over, and what it had on its way with it.
LEMMA FinishKeeps ==
  ASSUME LoginInv, NEW p \in Clients, Finish(p), UNCHANGED <<codes, now, pending, file>>,
         ~At(p, "marked"),
         tokens' \in [Tokens -> Token], held' \in SUBSET Tokens, TokensGrow, HeldGrows({p})
  PROVE  LoginInv'
<1> USE LoginAssumption
<1>1. ops' = [ops EXCEPT ![p] = NoOp] /\ ops'[p] = NoOp
  BY DEF Finish, LoginInv, LoginTypeOK
<1>2. OpOK(p)' /\ ~Carries(p)'
  BY <1>1, IdleClient, EmptyOpOK
<1> QED BY <1>1, <1>2, IdleClient, OpKeeps DEF At

LEMMA RestCreateKeeps ==
  ASSUME LoginInv, NEW p \in Clients, NEW t \in Tokens, RestCreate(p, t)
  PROVE  LoginInv'
<1>1. ops[p].user \in Users /\ "chat" \in Roles
  BY DEF LoginInv, LoginTypeOK, Op, Roles
<1>2. tokens' \in [Tokens -> Token] /\ TokensGrow /\ tokens[t].status = "none"
      /\ tokens'[t].status = "active"
  BY <1>1, NewGrow DEF RestCreate, LoginInv
<1>3. held' \in SUBSET Tokens /\ HeldGrows({p})
  BY <1>2 DEF RestCreate, HeldGrows, LoginInv, LoginTypeOK
<1> QED BY <1>2, <1>3, FinishKeeps DEF RestCreate, At

LEMMA RestRevokeKeeps ==
  ASSUME LoginInv, NEW p \in Clients, NEW t \in Tokens, RestRevoke(p, t)
  PROVE  LoginInv'
<1>1. tokens' \in [Tokens -> Token] /\ TokensGrow
  BY RevokedGrow DEF RestRevoke, LoginInv
<1>2. held' \in SUBSET Tokens /\ HeldGrows({p})
  BY DEF RestRevoke, HeldGrows, LoginInv, LoginTypeOK
<1> QED BY <1>1, <1>2, FinishKeeps DEF RestRevoke, At

LEMMA RevokeIssuedKeeps ==
  ASSUME LoginInv, NEW p \in Clients, ~At(p, "marked"), RevokeIssued(p)
  PROVE  LoginInv'
<1>1. tokens' \in [Tokens -> Token] /\ TokensGrow
  <2>1. CASE tokens' = tokens
    BY <2>1 DEF TokensGrow, ActiveToken, LoginInv, LoginTypeOK
  <2>2. CASE tokens' = Revoked({ops[p].token})
    BY <2>2, RevokedGrow DEF LoginInv
  <2> QED BY <2>1, <2>2 DEF RevokeIssued
<1>2. held' \in SUBSET Tokens /\ HeldGrows({p})
  BY DEF RevokeIssued, HeldGrows, LoginInv, LoginTypeOK
<1> QED BY <1>1, <1>2, FinishKeeps DEF RevokeIssued

\* The step that issues a token for a code, or for the host's file.
LEMMA IssueFor ==
  ASSUME LoginInv, NEW p \in Clients, NEW t \in Tokens, NEW u \in Users,
         New(t, u, "console"), NEW pc \in {"issued", "write"}, ~At(p, "marked"),
         ops' = [ops EXCEPT ![p].pc = pc, ![p].token = t],
         UNCHANGED <<codes, pending, held, file, now>>
  PROVE  LoginInv'
<1> "console" \in Roles
  BY DEF Roles
<1>1. /\ tokens' \in [Tokens -> Token] /\ TokensGrow /\ tokens[t].status = "none"
      /\ tokens'[t].status = "active"
  BY NewGrow DEF LoginInv
<1> DEFINE new == [ops[p] EXCEPT !.pc = pc, !.token = t]
<1>2. new \in Op /\ new.pc = pc /\ new.token = t
  BY DEF LoginInv, LoginTypeOK, Op
<1>3. ops' = [ops EXCEPT ![p] = new]
  OBVIOUS
<1> HIDE DEF new
<1>4. ops'[p] = new
  BY <1>3 DEF LoginInv, LoginTypeOK
<1>5. t \notin held' /\ held' \in SUBSET Tokens /\ HeldGrows({p})
  BY <1>1 DEF HeldGrows, LoginInv, LoginTypeOK
<1>6. Fresh(t)'
  BY <1>1, <1>5 DEF Fresh
<1>7. OpOK(p)'
  BY <1>2, <1>4, <1>6 DEF OpOK, Carries, At, Fresh
<1> QED BY <1>1, <1>2, <1>3, <1>5, <1>7, OpKeeps

LEMMA IssueKeeps ==
  ASSUME LoginInv, NEW p \in Clients, NEW t \in Tokens, Issue(p, t)
  PROVE  LoginInv'
<1>1. ops[p].user \in Users
  BY DEF LoginInv, LoginTypeOK, Op
<1> QED BY <1>1, IssueFor DEF Issue, At

LEMMA RenewKeeps ==
  ASSUME LoginInv, NEW p \in Clients, NEW t \in Tokens, Renew(p, t)
  PROVE  LoginInv'
<1>1. AnyUser \in Users
  BY IdleClient DEF LoginInv
<1> QED BY <1>1, IssueFor DEF Renew, At

\* The token is held from now on; it is lent, if it still works.
LEMMA WriteFileKeeps ==
  ASSUME LoginInv, NEW p \in Clients, WriteFile(p)
  PROVE  LoginInv'
<1> USE LoginAssumption
<1> DEFINE t == ops[p].token
<1>1. Carries(p) /\ Fresh(t) /\ ~At(p, "marked")
  BY DEF WriteFile, Carries, At, LoginInv, OpOK
<1>2. tokens' \in [Tokens -> Token] /\ TokensGrow /\ held' \in SUBSET Tokens /\ t \in held'
  BY <1>1 DEF WriteFile, TokensGrow, ActiveToken, LoginInv, LoginTypeOK, Fresh
<1>3. PICK new \in Op : /\ ops' = [ops EXCEPT ![p] = new]
                        /\ \/ new.pc = "lend" /\ new.token = t
                           \/ new.pc = "idle" /\ new.token = NoToken
  <2>1. CASE Console(t)
    BY <2>1, GotoIs DEF WriteFile, LoginInv, LoginTypeOK
  <2>2. CASE ~Console(t)
    BY <2>2, IdleClient DEF WriteFile, Finish
  <2> QED BY <2>1, <2>2
<1>4. ops'[p] = new
  BY <1>3 DEF LoginInv, LoginTypeOK
<1>5. OpOK(p)' /\ ~Carries(p)'
  BY <1>2, <1>3, <1>4 DEF OpOK, Carries, At
<1>6. HeldGrows({p})
  BY <1>1, <1>5 DEF HeldGrows, WriteFile, Fresh
<1> QED BY <1>1, <1>2, <1>3, <1>5, <1>6, OpKeeps DEF WriteFile

\* The code of the request was stored by it, and is open or overdue.
LEMMA StashKeeps ==
  ASSUME LoginInv, NEW p \in Clients, Stash(p)
  PROVE  LoginInv'
<1> USE LoginAssumption
<1> DEFINE k == ops[p].code
<1>1. /\ k \in Codes /\ (OpenCode(k) \/ Expired(k))
      /\ ~At(p, "marked") /\ At(p, "stash")
  BY DEF Stash, At, LoginInv, OpOK
<1>2. ops' = [ops EXCEPT ![p] = NoOp] /\ ops'[p] = NoOp
  BY DEF Stash, Finish, LoginInv, LoginTypeOK
<1>3. LoginTypeOK'
  <2>1. codes' \in [Codes -> Code]
    BY <1>1 DEF Stash, LoginInv, LoginTypeOK, Code
  <2>2. ops' \in [Clients -> Op] /\ pending' \subseteq Codes
    BY <1>1, <1>2, IdleClient DEF Stash, LoginInv, LoginTypeOK
  <2> QED BY <2>1, <2>2 DEF Stash, LoginInv, LoginTypeOK
<1>4. OpOK(p)' /\ ~Carries(p)'
  BY <1>2, IdleClient, EmptyOpOK
<1>5. RequestMoves({p})
  BY <1>2, <1>4, IdleClient DEF RequestMoves, Stash, LoginInv, LoginTypeOK
<1>6. CodesKept({p})
  BY <1>1 DEF CodesKept, Stash, LoginInv, LoginTypeOK, Code
<1>7. TokensGrow /\ HeldGrows({p})
  BY DEF TokensGrow, HeldGrows, Stash, ActiveToken
<1>8. PendingKept({p})
  BY <1>1 DEF PendingKept, Stash, At
<1>9. now <= now'
  BY DEF Stash, LoginInv, LoginTypeOK
<1> QED BY <1>3, <1>5, <1>6, <1>7, <1>8, <1>9, LoginMoveKeeps

\* Its plaintext is delivered, or is gone, and then its token must go as well.
LEMMA PopKeeps ==
  ASSUME LoginInv, NEW p \in Clients, Pop(p)
  PROVE  LoginInv'
<1> USE LoginAssumption
<1> DEFINE k == ops[p].code
           t == ops[p].token
           Delivers == k \in pending /\ ~Expired(k)
<1>1. /\ k \in Codes /\ At(p, "marked") /\ UNCHANGED <<tokens, codes, file, now>>
      /\ (Carries(p) <=> codes[k].owned)
      /\ IF Carries(p) THEN Fresh(t) ELSE t \in held
  BY DEF Pop, LoginInv, OpOK, Carries, At
<1>2. pending' \subseteq pending /\ k \notin pending'
  BY DEF Pop, Forget
<1>3. tokens' \in [Tokens -> Token] /\ TokensGrow
  BY <1>1 DEF TokensGrow, ActiveToken, LoginInv, LoginTypeOK
<1>4. CASE Delivers \/ ~codes[k].owned
  <2>1. ops' = [ops EXCEPT ![p] = NoOp] /\ ops'[p] = NoOp
    BY <1>4 DEF Pop, Finish, LoginInv, LoginTypeOK
  <2>2. OpOK(p)' /\ ~Carries(p)'
    BY <2>1, IdleClient, EmptyOpOK
  <2>3. held' = held \/ held' = held \cup {t}
    BY <1>4 DEF Pop
  <2>4. held' \in SUBSET Tokens /\ HeldGrows({p})
    BY <1>1, <2>2, <2>3 DEF HeldGrows, Fresh, LoginInv, LoginTypeOK
  <2> QED BY <1>1, <1>2, <1>3, <2>1, <2>2, <2>4, IdleClient, OpKeeps
<1>5. CASE ~Delivers /\ codes[k].owned
  <2>1. PICK new \in Op : ops' = [ops EXCEPT ![p] = new] /\ new.pc = "lost" /\ new.token = t
    BY <1>5, GotoIs DEF Pop, LoginInv, LoginTypeOK
  <2>2. ops'[p] = new
    BY <2>1 DEF LoginInv, LoginTypeOK
  <2>3. held' = held
    BY <1>5 DEF Pop
  <2>4. held' \in SUBSET Tokens /\ HeldGrows({p})
    BY <2>3 DEF HeldGrows, LoginInv, LoginTypeOK
  <2>5. Carries(p) /\ Fresh(t)
    BY <1>1, <1>5
  <2>6. OpOK(p)'
    BY <1>1, <2>1, <2>2, <2>3, <2>5 DEF OpOK, Carries, At, Fresh
  <2> QED BY <1>1, <1>2, <1>3, <2>1, <2>4, <2>5, <2>6, OpKeeps
<1> QED BY <1>4, <1>5

\* All requests are gone, and all plaintexts with them.
LEMMA DieKeeps == ASSUME LoginInv, Die PROVE LoginInv'
<1> USE LoginAssumption
<1>1. \A p \in Clients : ops'[p].pc = "idle" /\ ops'[p].token = NoToken
  BY IdleClient DEF Die
<1>2. LoginTypeOK'
  BY IdleClient DEF Die, LoginInv, LoginTypeOK
<1>3. \A p \in Clients : OpOK(p)' /\ ~Carries(p)'
  BY <1>1, EmptyOpOK
<1>4. \A c \in Codes : CodeOK(c)' /\ (Loaded(c)' <=> Loaded(c))
  BY DEF Die, LoginInv, CodeOK, OpenCode, Fresh, Loaded
<1>5. Exclusive'
  BY <1>1, <1>3, <1>4 DEF Exclusive, Die, LoginInv, At
<1>6. MemoryForgets'
  BY DEF Die, MemoryForgets
<1> QED BY <1>2, <1>3, <1>4, <1>5, <1>6 DEF LoginInv, Die

\* What is left of a code that is used up: all but its status.
UsedUp(c) ==
  /\ codes'[c].status = "used" /\ codes'[c].token = codes[c].token
  /\ codes'[c].owned = codes[c].owned /\ codes'[c].expires = codes[c].expires
  /\ codes'[c].known = codes[c].known

\* A code that is used up undelivered is overdue, and takes with it the token
\* that was issued for it, which nobody holds.
LEMMA RetiredIs ==
  ASSUME LoginInv, NEW D \in SUBSET Codes, \A c \in D : OpenCode(c),
         tokens' = Revoked(Retired(D))
  PROVE  /\ tokens' \in [Tokens -> Token] /\ TokensGrow
         /\ \A c \in D : IF codes[c].owned
                           THEN /\ codes[c].token \in Tokens
                                /\ tokens'[codes[c].token].status \notin {"none", "active"}
                           ELSE codes[c].token \in held
         /\ \A t \in held : tokens'[t] = tokens[t]
<1>1. tokens' \in [Tokens -> Token] /\ TokensGrow
  BY RevokedGrow DEF LoginInv
<1>2. \A c \in D : IF codes[c].owned THEN Fresh(codes[c].token) ELSE codes[c].token \in held
  BY DEF LoginInv, CodeOK
<1>3. \A c \in D : codes[c].owned => codes[c].token \in Retired(D)
  BY DEF Retired
<1>4. \A c \in D : codes[c].owned =>
        codes[c].token \in Tokens /\ tokens'[codes[c].token].status \notin {"none", "active"}
  <2> SUFFICES ASSUME NEW c \in D, codes[c].owned
               PROVE  /\ codes[c].token \in Tokens
                      /\ tokens'[codes[c].token].status \notin {"none", "active"}
    OBVIOUS
  <2> DEFINE t == codes[c].token
  <2>1. /\ t \in Tokens /\ tokens[t] \in Token /\ tokens[t].status # "none"
        /\ t \in Retired(D)
    BY <1>2, <1>3 DEF Fresh, LoginInv, LoginTypeOK
  <2>2. tokens'[t] = IF ActiveToken(t) THEN [tokens[t] EXCEPT !.status = "revoked"] ELSE tokens[t]
    BY <2>1 DEF Revoked
  <2> QED BY <2>1, <2>2 DEF ActiveToken, Token
<1>5. \A t \in held : t \notin Retired(D) /\ t \in Tokens
  BY <1>2 DEF Retired, Fresh, LoginInv, LoginTypeOK
<1>6. \A t \in held : tokens'[t] = tokens[t]
  BY <1>5 DEF Revoked
<1> QED BY <1>1, <1>2, <1>4, <1>6

\* An overdue code is presented: it was returned before, so no request is about
\* to return it.
LEMMA PresentLateKeeps ==
  ASSUME LoginInv, NEW p \in Clients, NEW c \in Codes, Present(p, c), Expired(c)
  PROVE  LoginInv'
<1>1. /\ OpenCode(c) /\ codes[c].known /\ tokens' = Revoked(Retired({c}))
      /\ UNCHANGED <<ops, pending, held, file, now>>
  BY DEF Present, Unused, OpenCode
<1>2. UsedUp(c) /\ \A d \in Codes \ {c} : codes'[d] = codes[d]
  BY DEF Present, UsedUp, LoginInv, LoginTypeOK, Code
<1>3. \A d \in Codes : /\ Loaded(d)' => Loaded(d) /\ codes'[d].token = codes[d].token
                       /\ OpenCode(d)' => OpenCode(d) /\ d # c
                       /\ codes'[d].owned = codes[d].owned
                       /\ codes'[d].token = codes[d].token
                       /\ codes'[d].known = codes[d].known
                       /\ codes[d].status # "none" => codes'[d].status # "none"
                       /\ Expired(d) => Expired(d)'
  BY <1>1, <1>2 DEF Loaded, OpenCode, UsedUp, Expired
<1>4. tokens' \in [Tokens -> Token] /\ TokensGrow /\ \A t \in held : tokens'[t] = tokens[t]
  BY <1>1, RetiredIs
<1>5. LoginTypeOK'
  <2>1. codes' \in [Codes -> Code]
    BY DEF Present, LoginInv, LoginTypeOK, Code
  <2> QED BY <1>1, <1>4, <2>1 DEF LoginInv, LoginTypeOK
<1>6. \A t : Fresh(t) => Fresh(t)'
  BY <1>1, <1>4 DEF Fresh, TokensGrow
<1>7. \A q \in Clients : Carries(q)' <=> Carries(q)
  BY <1>1, <1>3 DEF Carries, At, LoginInv, OpOK
<1>8. ASSUME NEW q \in Clients PROVE OpOK(q)'
  <2>1. OpOK(q) /\ ops'[q] = ops[q] /\ held' = held
    BY <1>1 DEF LoginInv
  <2>2. At(q, "stash") => ops[q].code \in Codes \ {c}
    BY <1>1, <2>1 DEF OpOK, At
  <2>3. Carries(q)' => Fresh(ops[q].token)'
    BY <1>6, <1>7, <2>1 DEF OpOK, Fresh
  <2>4. At(q, "stash") =>
          /\ OpenCode(ops[q].code)' \/ Expired(ops[q].code)'
          /\ \/ OpenCode(ops[q].code)' \/ ops[q].token \in held'
             \/ ops[q].token \in Tokens /\ ~ActiveToken(ops[q].token)'
                /\ tokens'[ops[q].token].status # "none"
    BY <1>2, <1>3, <1>4, <2>1, <2>2
       DEF OpOK, OpenCode, Expired, At, TokensGrow, ActiveToken
  <2> QED BY <1>3, <1>7, <2>1, <2>3, <2>4
             DEF OpOK, At, OpenCode, Expired, Fresh, ActiveToken
<1>9. \A d \in Codes : CodeOK(d)'
  BY <1>1, <1>3, <1>6 DEF LoginInv, CodeOK, Fresh
<1>10. Exclusive'
  BY <1>1, <1>3, <1>7 DEF LoginInv, Exclusive, At
<1>11. MemoryForgets'
  <2>1. Expired(c)'
    BY <1>3
  <2> QED BY <1>1, <1>2, <1>3, <2>1
             DEF LoginInv, LoginTypeOK, MemoryForgets, At, Expired
<1>12. \A t \in held' : tokens'[t].status # "none"
  BY <1>1, <1>4 DEF LoginInv
<1> QED BY <1>1, <1>5, <1>8, <1>9, <1>10, <1>11, <1>12 DEF LoginInv

\* A code is presented in time: the token goes from the code to the request.
LEMMA PresentInTimeKeeps ==
  ASSUME LoginInv, NEW p \in Clients, NEW c \in Codes, Present(p, c), ~Expired(c)
  PROVE  LoginInv'
<1> USE LoginAssumption
<1>1. /\ OpenCode(c) /\ codes[c].known /\ At(p, "idle")
      /\ UNCHANGED <<tokens, pending, held, file, now>>
  BY DEF Present, Unused, OpenCode
<1>2. UsedUp(c) /\ \A d \in Codes \ {c} : codes'[d] = codes[d]
  BY DEF Present, UsedUp, LoginInv, LoginTypeOK, Code
<1>3. \A d \in Codes : /\ Loaded(d)' => Loaded(d) /\ codes'[d].token = codes[d].token /\ d # c
                       /\ OpenCode(d)' => OpenCode(d) /\ d # c
                       /\ codes'[d].owned = codes[d].owned
                       /\ codes'[d].token = codes[d].token
                       /\ codes'[d].known = codes[d].known
                       /\ codes[d].status # "none" => codes'[d].status # "none"
                       /\ Expired(d) => Expired(d)'
  BY <1>1, <1>2 DEF Loaded, OpenCode, UsedUp, Expired
<1>4. PICK new \in Op : /\ ops' = [ops EXCEPT ![p] = new]
                        /\ new.pc = "marked" /\ new.code = c /\ new.token = codes[c].token
  <2> DEFINE new == [NoOp EXCEPT !.pc = "marked", !.code = c, !.token = codes[c].token]
  <2>1. new \in Op /\ new.pc = "marked" /\ new.code = c /\ new.token = codes[c].token
    BY IdleClient DEF LoginInv, LoginTypeOK, Code, Op
  <2>2. ops' = [ops EXCEPT ![p] = new]
    BY DEF Present
  <2> HIDE DEF new
  <2> QED BY <2>1, <2>2
<1>5. /\ ops' \in [Clients -> Op] /\ ops'[p] = new
      /\ \A q \in Clients \ {p} : ops'[q] = ops[q]
  BY <1>4 DEF LoginInv, LoginTypeOK
<1>6. LoginTypeOK'
  <2>1. codes' \in [Codes -> Code]
    BY DEF Present, LoginInv, LoginTypeOK, Code
  <2> QED BY <1>1, <1>5, <2>1 DEF LoginInv, LoginTypeOK
<1>7. \A q \in Clients \ {p} : Carries(q)' <=> Carries(q)
  BY <1>3, <1>5 DEF Carries, At, LoginInv, OpOK
<1>8. Carries(p)' <=> Loaded(c)
  BY <1>1, <1>3, <1>4, <1>5 DEF Carries, At, Loaded
<1>9. IF codes[c].owned THEN Fresh(codes[c].token) ELSE codes[c].token \in held
  BY <1>1 DEF LoginInv, CodeOK
<1>10. \A t : Fresh(t)' <=> Fresh(t)
  BY <1>1 DEF Fresh
<1>11. ASSUME NEW q \in Clients PROVE OpOK(q)'
  <2>1. CASE q = p
    <3>1. Carries(p)' => Fresh(ops[p].token)'
      BY <1>4, <1>5, <1>8, <1>9, <1>10 DEF Loaded, Fresh
    <3>2. ~Carries(p)' => ops'[p].token \in held'
      BY <1>1, <1>4, <1>5, <1>8, <1>9 DEF Loaded
    <3>3. codes'[c].status # "none" /\ codes'[c].token = ops'[p].token
      BY <1>2, <1>4, <1>5 DEF UsedUp
    <3> QED BY <1>4, <1>5, <2>1, <3>1, <3>2, <3>3 DEF OpOK, At, Fresh
  <2>2. CASE q # p
    <3>1. OpOK(q) /\ ops'[q] = ops[q] /\ held' = held /\ tokens' = tokens
      BY <1>1, <1>5, <2>2 DEF LoginInv
    <3>2. At(q, "stash") => ops[q].code \in Codes \ {c}
      BY <1>1, <3>1 DEF OpOK, At
    <3>3. Carries(q)' => Fresh(ops[q].token)'
      BY <1>7, <1>10, <2>2, <3>1 DEF OpOK, Fresh
    <3>4. At(q, "stash") =>
            /\ OpenCode(ops[q].code)' \/ Expired(ops[q].code)'
            /\ \/ OpenCode(ops[q].code)' \/ ops[q].token \in held'
               \/ ops[q].token \in Tokens /\ ~ActiveToken(ops[q].token)'
                  /\ tokens'[ops[q].token].status # "none"
      BY <1>2, <1>3, <3>1, <3>2 DEF OpOK, OpenCode, Expired, At, ActiveToken
    <3> QED BY <1>3, <1>7, <2>2, <3>1, <3>3, <3>4
               DEF OpOK, At, OpenCode, Expired, Fresh, ActiveToken
  <2> QED BY <2>1, <2>2
<1>12. \A d \in Codes : CodeOK(d)'
  BY <1>1, <1>3, <1>10 DEF LoginInv, CodeOK, Fresh
<1>13. Exclusive'
  <2>1. ASSUME NEW q \in Clients, NEW r \in Clients, Carries(q)', Carries(r)',
               ops'[q].token = ops'[r].token
        PROVE  q = r
    BY <1>4, <1>5, <1>7, <1>8, <2>1 DEF LoginInv, Exclusive
  <2>2. ASSUME NEW q \in Clients, NEW d \in Codes, Carries(q)', Loaded(d)'
        PROVE  ops'[q].token # codes'[d].token
    BY <1>3, <1>4, <1>5, <1>7, <1>8, <2>2 DEF LoginInv, Exclusive
  <2>3. ASSUME NEW d \in Codes, NEW e \in Codes, Loaded(d)', Loaded(e)',
               codes'[d].token = codes'[e].token
        PROVE  d = e
    BY <1>3, <2>3 DEF LoginInv, Exclusive
  <2>4. ASSUME NEW q \in Clients, NEW r \in Clients, At(q, "stash")', At(r, "stash")',
               ops'[q].code = ops'[r].code
        PROVE  q = r
    BY <1>4, <1>5, <2>4 DEF LoginInv, Exclusive, At
  <2> QED BY <2>1, <2>2, <2>3, <2>4 DEF Exclusive
<1>14. MemoryForgets'
  <2> SUFFICES ASSUME NEW d \in pending, ~OpenCode(d)', ~Expired(d)'
               PROVE  \E q \in Clients : At(q, "marked")' /\ ops'[q].code = d
    BY <1>1 DEF MemoryForgets, OpenCode
  <2>1. CASE d = c
    BY <1>4, <1>5, <2>1 DEF At
  <2>2. CASE d # c
    <3>1. d \in Codes /\ codes'[d] = codes[d] /\ ~OpenCode(d) /\ ~Expired(d)
      BY <1>1, <1>2, <2>2 DEF LoginInv, LoginTypeOK, OpenCode, Expired
    <3>2. PICK q \in Clients : At(q, "marked") /\ ops[q].code = d
      BY <3>1 DEF LoginInv, MemoryForgets, OpenCode
    <3> QED BY <1>1, <1>5, <3>2 DEF At
  <2> QED BY <2>1, <2>2
<1> QED BY <1>1, <1>6, <1>11, <1>12, <1>13, <1>14 DEF LoginInv

\* The token goes from the request to its code, or is lent to it; the overdue
\* codes are used up, whether or not they were returned yet.
LEMMA InsertCodeKeeps ==
  ASSUME LoginInv, NEW p \in Clients, NEW c \in Codes, InsertCode(p, c)
  PROVE  LoginInv'
<1> DEFINE t == ops[p].token
<1>1. /\ codes[c].status = "none" /\ tokens' = Revoked(Retired(Overdue))
      /\ UNCHANGED <<pending, held, file, now>>
      /\ Overdue \in SUBSET Codes
      /\ \A d \in Overdue : OpenCode(d) /\ Expired(d)
  BY DEF InsertCode, Overdue, OpenCode
<1>2. /\ \A d \in Overdue : UsedUp(d) /\ d # c
      /\ \A d \in Codes \ (Overdue \cup {c}) : codes'[d] = codes[d]
      /\ codes'[c].status = "open" /\ codes'[c].token = t
      /\ (codes'[c].owned <=> At(p, "issued"))
      /\ ~codes'[c].known
  BY <1>1 DEF InsertCode, UsedUp, LoginInv, LoginTypeOK, Code, OpenCode
<1>3. \A d \in Codes \ {c} : /\ Loaded(d)' => Loaded(d) /\ d \notin Overdue
                             /\ OpenCode(d)' => OpenCode(d) /\ d \notin Overdue
                             /\ codes'[d].owned = codes[d].owned
                             /\ codes'[d].token = codes[d].token
                             /\ codes'[d].known = codes[d].known
                             /\ codes[d].status # "none" => codes'[d].status # "none"
                             /\ Expired(d) => Expired(d)'
                             /\ d \notin Overdue => (OpenCode(d)' <=> OpenCode(d))
  BY <1>1, <1>2 DEF Loaded, OpenCode, UsedUp, Expired
<1>4. /\ tokens' \in [Tokens -> Token] /\ TokensGrow
      /\ \A u \in held : tokens'[u] = tokens[u]
      /\ \A d \in Overdue : IF codes[d].owned
                              THEN /\ codes[d].token \in Tokens
                                   /\ tokens'[codes[d].token].status \notin {"none", "active"}
                              ELSE codes[d].token \in held
  BY <1>1, RetiredIs
<1>5. PICK new \in Op : /\ ops' = [ops EXCEPT ![p] = new]
                        /\ new.pc = "stash" /\ new.code = c /\ new.token = t
  <2> DEFINE new == [ops[p] EXCEPT !.pc = "stash", !.code = c]
  <2>1. new \in Op /\ new.pc = "stash" /\ new.code = c /\ new.token = t
    BY DEF LoginInv, LoginTypeOK, Op
  <2>2. ops' = [ops EXCEPT ![p] = new]
    BY DEF InsertCode
  <2> HIDE DEF new
  <2> QED BY <2>1, <2>2
<1>6. /\ ops' \in [Clients -> Op] /\ ops'[p] = new
      /\ \A q \in Clients \ {p} : ops'[q] = ops[q]
  BY <1>5 DEF LoginInv, LoginTypeOK
<1>7. LoginTypeOK'
  <2>1. t \in Tokens \cup {NoToken} /\ now + Lifetime \in 0..(MaxTime + Lifetime)
    BY LoginAssumption DEF LoginInv, LoginTypeOK, Op
  <2>2. \A d \in Codes : codes'[d] \in Code
    <3> SUFFICES ASSUME NEW d \in Codes PROVE codes'[d] \in Code
      OBVIOUS
    <3>1. CASE d = c
      <4>1. codes'[d] = [status |-> "open", token |-> t, owned |-> At(p, "issued"),
                         expires |-> now + Lifetime, known |-> FALSE]
        BY <3>1 DEF InsertCode
      <4>2. At(p, "issued") \in BOOLEAN
        BY DEF At
      <4> QED BY <2>1, <4>1, <4>2 DEF Code
    <3>2. CASE d # c
      <4>1. codes[d] \in Code
        BY DEF LoginInv, LoginTypeOK
      <4>2. codes'[d] = [codes[d] EXCEPT !.status = "used"] \/ codes'[d] = codes[d]
        BY <3>2 DEF InsertCode
      <4> QED BY <4>1, <4>2 DEF Code
    <3> QED BY <3>1, <3>2
  <2>3. codes' \in [Codes -> Code]
    BY <2>2 DEF InsertCode
  <2> QED BY <1>1, <1>4, <1>6, <2>3 DEF LoginInv, LoginTypeOK
<1>8. \A u : Fresh(u) => Fresh(u)'
  BY <1>1, <1>4 DEF Fresh, TokensGrow
<1>9. /\ ~Carries(p)'
      /\ At(p, "issued") => Carries(p) /\ Fresh(t)
      /\ ~At(p, "issued") => t \in held
  BY <1>5, <1>6 DEF InsertCode, Carries, At, LoginInv, OpOK
<1>10. ASSUME NEW q \in Clients \ {p} PROVE Carries(q)' <=> Carries(q)
  <2>1. OpOK(q) /\ ops'[q] = ops[q]
    BY <1>6 DEF LoginInv
  <2>2. At(q, "marked") => ops[q].code \in Codes \ {c}
    BY <1>1, <2>1 DEF OpOK, At
  <2> QED BY <1>3, <2>1, <2>2 DEF Carries, At
<1>11. ASSUME NEW q \in Clients PROVE OpOK(q)'
  <2>1. CASE q = p
    <3>1. OpenCode(c)'
      BY <1>2 DEF OpenCode
    <3> QED BY <1>2, <1>5, <1>6, <1>9, <2>1, <3>1 DEF OpOK, At, OpenCode
  <2>2. CASE q # p
    <3>1. OpOK(q) /\ ops'[q] = ops[q] /\ held' = held
      BY <1>1, <1>6, <2>2 DEF LoginInv
    <3>2. ops[q].pc \in {"stash", "marked"} => ops[q].code \in Codes \ {c}
      BY <1>1, <3>1 DEF OpOK
    <3>3. Carries(q)' => Fresh(ops[q].token)'
      BY <1>8, <1>10, <2>2, <3>1 DEF OpOK, Fresh
    <3>4. At(q, "stash") =>
            /\ OpenCode(ops[q].code)' \/ Expired(ops[q].code)'
            /\ \/ OpenCode(ops[q].code)' \/ ops[q].token \in held'
               \/ ops[q].token \in Tokens /\ ~ActiveToken(ops[q].token)'
                  /\ tokens'[ops[q].token].status # "none"
      <4> SUFFICES ASSUME At(q, "stash")
                   PROVE  /\ OpenCode(ops[q].code)' \/ Expired(ops[q].code)'
                          /\ \/ OpenCode(ops[q].code)' \/ ops[q].token \in held'
                             \/ ops[q].token \in Tokens /\ ~ActiveToken(ops[q].token)'
                                /\ tokens'[ops[q].token].status # "none"
        OBVIOUS
      <4> DEFINE k == ops[q].code
      <4>1. k \in Codes \ {c} /\ codes[k].token = ops[q].token
        BY <3>1, <3>2 DEF OpOK, At
      <4>2. CASE k \in Overdue
        BY <1>1, <1>3, <1>4, <3>1, <4>1, <4>2 DEF ActiveToken, Expired
      <4>3. CASE k \notin Overdue
        BY <1>3, <1>4, <3>1, <4>1, <4>3
           DEF OpOK, At, OpenCode, Expired, ActiveToken, TokensGrow
      <4> QED BY <4>2, <4>3
    <3> QED BY <1>3, <1>10, <2>2, <3>1, <3>2, <3>3, <3>4
            DEF OpOK, At, OpenCode, Expired, Fresh, ActiveToken
  <2> QED BY <2>1, <2>2
<1>12. ASSUME NEW d \in Codes PROVE CodeOK(d)'
  <2>1. CASE d = c
    <3>1. Fresh(t) => Fresh(codes[c].token)'
      BY <1>2, <1>8 DEF Fresh
    <3> QED BY <1>1, <1>2, <1>9, <2>1, <3>1 DEF CodeOK
  <2>2. CASE d # c
    BY <1>1, <1>3, <1>8, <2>2 DEF LoginInv, CodeOK, Fresh
  <2> QED BY <2>1, <2>2
<1>13. Exclusive'
  <2>0. Loaded(c)' => Carries(p)
    BY <1>2, <1>9 DEF Loaded
  <2>1. ASSUME NEW q \in Clients, NEW r \in Clients, Carries(q)', Carries(r)',
               ops'[q].token = ops'[r].token
        PROVE  q = r
    BY <1>6, <1>9, <1>10, <2>1 DEF LoginInv, Exclusive
  <2>2. ASSUME NEW q \in Clients, NEW d \in Codes, Carries(q)', Loaded(d)'
        PROVE  ops'[q].token # codes'[d].token
    <3>1. q # p /\ Carries(q) /\ ops'[q] = ops[q]
      BY <1>6, <1>9, <1>10, <2>2
    <3>2. CASE d = c
      BY <1>2, <2>0, <2>2, <3>1, <3>2 DEF LoginInv, Exclusive
    <3>3. CASE d # c
      BY <1>3, <2>2, <3>1, <3>3 DEF LoginInv, Exclusive
    <3> QED BY <3>2, <3>3
  <2>3. ASSUME NEW d \in Codes, NEW e \in Codes, Loaded(d)', Loaded(e)',
               codes'[d].token = codes'[e].token
        PROVE  d = e
    BY <1>2, <1>3, <2>0, <2>3 DEF LoginInv, Exclusive
  <2>4. \A q \in Clients : At(q, "stash") => ops[q].code # c
    BY <1>1 DEF LoginInv, OpOK, At
  <2>5. ASSUME NEW q \in Clients, NEW r \in Clients, At(q, "stash")', At(r, "stash")',
               ops'[q].code = ops'[r].code
        PROVE  q = r
    BY <1>5, <1>6, <2>4, <2>5 DEF LoginInv, Exclusive, At
  <2> QED BY <2>1, <2>2, <2>3, <2>5 DEF Exclusive
<1>14. MemoryForgets'
  <2> SUFFICES ASSUME NEW d \in pending, ~OpenCode(d)', ~Expired(d)'
               PROVE  \E q \in Clients : At(q, "marked")' /\ ops'[q].code = d
    BY <1>1 DEF MemoryForgets, OpenCode
  <2>1. d \in Codes /\ d # c
    BY <1>2 DEF LoginInv, LoginTypeOK, OpenCode
  <2>2. ~OpenCode(d) /\ ~Expired(d)
    BY <1>1, <1>3, <2>1
  <2>3. PICK q \in Clients : At(q, "marked") /\ ops[q].code = d
    BY <2>2 DEF LoginInv, MemoryForgets, OpenCode
  <2> QED BY <1>6, <2>3 DEF At, InsertCode
<1>15. \A u \in held' : tokens'[u].status # "none"
  BY <1>1, <1>4 DEF LoginInv
<1> QED BY <1>1, <1>7, <1>11, <1>12, <1>13, <1>14, <1>15 DEF LoginInv

-----------------------------------------------------------------------------
(* What the run checks, for every value of the constants *)

LEMMA StepKeeps ==
  ASSUME LoginInv, NEW p \in Clients, Step(p)
  PROVE  LoginInv'
<1>1. ASSUME NEW t \in Tokens,
             \/ Authenticate(p, t) \/ RestCreate(p, t) \/ RestRevoke(p, t)
             \/ Issue(p, t) \/ Renew(p, t)
      PROVE  LoginInv'
  BY <1>1, AuthenticateKeeps, RestCreateKeeps, RestRevokeKeeps, IssueKeeps, RenewKeeps
<1>2. ASSUME NEW c \in Codes, InsertCode(p, c) \/ Present(p, c) PROVE LoginInv'
  BY <1>2, InsertCodeKeeps, PresentLateKeeps, PresentInTimeKeeps
<1>3. CASE WriteFails(p) \/ Undo(p) \/ RevokeLost(p)
  BY <1>3, RevokeIssuedKeeps DEF WriteFails, Undo, RevokeLost, At
<1>4. CASE \/ Link(p) \/ WriteFile(p) \/ InsertFails(p)
           \/ Stash(p) \/ Pop(p) \/ Refuse(p)
  BY <1>4, LinkKeeps, WriteFileKeeps, InsertFailsKeeps, StashKeeps, PopKeeps, RefuseKeeps
<1> QED BY <1>1, <1>2, <1>3, <1>4 DEF Step

LEMMA NextLogin ==
  ASSUME LoginInv, [LoginNext]_loginVars
  PROVE  LoginInv'
<1>1. CASE LoginNext
  BY <1>1, StepKeeps, HostRevokeKeeps, HostCreateKeeps, DieKeeps, TickKeeps DEF LoginNext
<1>2. CASE UNCHANGED loginVars
  <2>1. \A c \in Codes : (Loaded(c)' <=> Loaded(c)) /\ (CodeOK(c)' <=> CodeOK(c))
    BY <1>2 DEF loginVars, Loaded, CodeOK, OpenCode, Fresh
  <2>2. \A p \in Clients : (Carries(p)' <=> Carries(p)) /\ (OpOK(p)' <=> OpOK(p))
    BY <1>2
       DEF loginVars, Carries, OpOK, At, OpenCode, Expired, ActiveToken, Fresh
  <2>3. LoginTypeOK' /\ Exclusive' /\ MemoryForgets'
    BY <1>2, <2>1, <2>2
       DEF loginVars, LoginInv, LoginTypeOK, Exclusive, MemoryForgets, At,
           Expired
  <2> QED BY <1>2, <2>1, <2>2, <2>3 DEF loginVars, LoginInv
<1> QED BY <1>1, <1>2

LEMMA LoginAlways ==
  LoginSpec => []LoginInv
<1>1. LoginInit => LoginInv
  BY InitLogin
<1>2. LoginInv /\ [LoginNext]_loginVars => LoginInv'
  BY NextLogin
<1> QED BY <1>1, <1>2, PTL DEF LoginSpec

\* A plaintext stays in memory no longer than its code is open, but for the moment
\* between marking and delivering, and for codes that are overdue.
THEOREM MemoryForgetsTheorem ==
  LoginSpec => []MemoryForgets
<1>1. LoginInv => MemoryForgets
  BY DEF LoginInv
<1> QED BY <1>1, LoginAlways, PTL

-----------------------------------------------------------------------------
(* Tokens that are held are kept *)

LEMMA RevokedOnly ==
  ASSUME LoginTypeOK, NEW T, tokens' = Revoked(T), NEW t \in Tokens
  PROVE  /\ ActiveToken(t) /\ tokens'[t].status = "revoked" => t \in T
         /\ Console(t)' => Console(t)
BY DEF Revoked, ActiveToken, Console, LoginTypeOK, Token

LEMMA NewOnly ==
  ASSUME LoginTypeOK, NEW t \in Tokens, NEW s \in Tokens, NEW u, NEW r, New(s, u, r)
  PROVE  /\ ~(ActiveToken(t) /\ tokens'[t].status = "revoked")
         /\ s # t => (Console(t)' <=> Console(t))
BY DEF New, ActiveToken, Console, LoginTypeOK

LEMMA HeldStep ==
  ASSUME LoginInv, LoginNext, NEW t \in held, ActiveToken(t), tokens'[t].status = "revoked"
  PROVE  Asked(t)
<1>1. LoginTypeOK /\ t \in Tokens /\ tokens'[t] # tokens[t]
  BY DEF LoginInv, LoginTypeOK, ActiveToken
<1>2. ASSUME NEW p \in Clients, Step(p) PROVE Asked(t)
  <2>1. ASSUME NEW s \in Tokens, RestRevoke(p, s) PROVE Asked(t)
    BY <1>1, <2>1, RevokedOnly DEF RestRevoke, Asked
  <2>2. ASSUME NEW s \in Tokens,
               RestCreate(p, s) \/ Issue(p, s) \/ Renew(p, s)
        PROVE  FALSE
    BY <1>1, <2>2, NewOnly DEF RestCreate, Issue, Renew
  <2>3. ASSUME NEW c \in Codes, InsertCode(p, c) PROVE FALSE
    <3>1. Overdue \in SUBSET Codes /\ \A d \in Overdue : OpenCode(d)
      BY DEF Overdue, OpenCode
    <3>2. tokens' = Revoked(Retired(Overdue))
      BY <2>3 DEF InsertCode
    <3>3. \A u \in held : tokens'[u] = tokens[u]
      BY <3>1, <3>2, RetiredIs
    <3> QED BY <1>1, <3>3
  <2>4. ASSUME NEW c \in Codes, Present(p, c) PROVE FALSE
    <3>1. Expired(c) /\ tokens' = Revoked(Retired({c})) /\ OpenCode(c)
      BY <1>1, <2>4 DEF Present, Unused, OpenCode
    <3>2. \A u \in held : tokens'[u] = tokens[u]
      BY <3>1, RetiredIs
    <3> QED BY <1>1, <3>2
  <2>5. CASE WriteFails(p) \/ Undo(p) \/ RevokeLost(p)
    <3>1. Carries(p) /\ tokens' = Revoked({ops[p].token})
      BY <1>1, <2>5
         DEF WriteFails, Undo, RevokeLost, RevokeIssued, Carries,
             At
    <3>2. ops[p].token # t
      BY <3>1 DEF LoginInv, OpOK, Fresh
    <3> QED BY <1>1, <3>1, <3>2, RevokedOnly
  <2>6. CASE \/ Link(p) \/ WriteFile(p) \/ InsertFails(p)
             \/ Stash(p) \/ Pop(p) \/ Refuse(p)
             \/ \E s \in Tokens : Authenticate(p, s)
    BY <1>1, <2>6
       DEF Link, WriteFile, InsertFails, Stash, Pop,
           Refuse, Authenticate
  <2> QED BY <1>2, <2>1, <2>2, <2>3, <2>4, <2>5, <2>6 DEF Step
<1>3. ASSUME NEW s \in Tokens, HostRevoke(s) PROVE Asked(t)
  <2>1. t = s
    BY <1>1, <1>3, RevokedOnly DEF HostRevoke
  <2> QED BY <1>3, <2>1 DEF Asked
<1>4. ASSUME NEW s \in Tokens, NEW u \in Users, NEW r \in Roles,
             HostCreate(s, u, r)
      PROVE  FALSE
  BY <1>1, <1>4, NewOnly DEF HostCreate
<1>5. CASE Die \/ Tick
  BY <1>1, <1>5 DEF Die, Tick
<1> QED BY <1>2, <1>3, <1>4, <1>5 DEF LoginNext

\* Codes come and go, are retired, presented late or lost with the process, and
\* no token that somebody holds is revoked for it.
THEOREM HeldTokensKeptTheorem ==
  LoginSpec => HeldTokensKept
<1>1. LoginInv /\ [LoginNext]_loginVars =>
        [\A t \in held :
           ActiveToken(t) /\ tokens'[t].status = "revoked" => Asked(t)]_loginVars
  BY HeldStep
<1> QED BY <1>1, LoginAlways, PTL DEF LoginSpec, HeldTokensKept

-----------------------------------------------------------------------------
(* Tokens that go astray *)

\* What keeps a token from going astray keeps doing so, or something else does.
LEMMA StillFound ==
  ASSUME NEW t \in Tokens, ~Stray(t), held \subseteq held',
         Console(t)' => Console(t),
         \A c \in Codes :
           OpenCode(c) /\ codes[c].token = t => OpenCode(c)' /\ codes'[c].token = t,
         \A q \in Clients : AnswersFor(q, t) => AnswersFor(q, t)'
  PROVE  ~Stray(t)'
BY DEF Stray, OpenCode

\* The same for a step of one request that revokes at most.
LEMMA RequestStillFound ==
  ASSUME LoginInv, NEW t \in Tokens, ~Stray(t), NEW p \in Clients, held \subseteq held',
         \A q \in Clients \ {p} : ops'[q] = ops[q], AnswersFor(p, t) => AnswersFor(p, t)',
         Console(t)' => Console(t),
         \A c \in Codes : OpenCode(c) /\ codes[c].token = t => OpenCode(c)' /\ codes'[c].token = t
  PROVE  ~Stray(t)'
<1>1. \A q \in Clients : AnswersFor(q, t) => AnswersFor(q, t)'
  BY DEF AnswersFor
<1> QED BY <1>1, StillFound

\* A code that is used up undelivered leaves no token astray.
LEMMA RetiredNotStray ==
  ASSUME LoginInv, NEW D \in SUBSET Codes, \A c \in D : OpenCode(c),
         tokens' = Revoked(Retired(D)),
         held' = held, NEW c \in D, NEW t, codes[c].token = t
  PROVE  ~Stray(t)'
<1>1. t \in held \/ tokens'[t].status # "active"
  BY RetiredIs
<1> QED BY <1>1 DEF Stray, Console, ActiveToken

LEMMA StrayStep ==
  ASSUME LoginInv, NEW p \in Clients, Step(p), NEW t \in Tokens, ~Stray(t)
  PROVE  ~Stray(t)' \/ (AnswersFor(p, t) /\ RevokeIssued(p))
<1> DEFINE SameCodes ==
             \A c \in Codes :
               OpenCode(c) /\ codes[c].token = t => OpenCode(c)' /\ codes'[c].token = t
<1>1. LoginTypeOK /\ OpOK(p)
  BY DEF LoginInv
<1>2. \A q \in Clients \ {p} : ops'[q] = ops[q]
  BY <1>1
     DEF Step, Authenticate, RestCreate, RestRevoke, Issue,
         Renew, InsertCode, Present, Link,
         WriteFile, WriteFails, InsertFails, Undo, Stash,
         Pop, RevokeLost, Refuse, RevokeIssued,
         Goto, Finish, LoginTypeOK
<1>3. UNCHANGED codes => SameCodes
  BY DEF OpenCode
<1>4. UNCHANGED tokens => (Console(t)' => Console(t))
  BY DEF Console, ActiveToken
<1>5. t # NoToken
  BY LoginAssumption DEF LoginInv
<1>6. ops[p].pc \in {"idle", "auth", "renew"} => ~AnswersFor(p, t)
  BY <1>1, <1>5 DEF OpOK, AnswersFor
<1> HIDE DEF SameCodes
<1>7. ASSUME NEW s \in Tokens, Authenticate(p, s) PROVE ~Stray(t)'
  <2>1. At(p, "idle") /\ UNCHANGED <<tokens, codes, held>>
    BY <1>7 DEF Authenticate
  <2> QED BY <1>2, <1>3, <1>4, <1>6, <2>1, RequestStillFound DEF At, SameCodes
<1>8. ASSUME NEW s \in Tokens, RestCreate(p, s) PROVE ~Stray(t)'
  <2>1. At(p, "auth") /\ held \subseteq held' /\ s \in held' /\ UNCHANGED codes
    BY <1>8 DEF RestCreate
  <2>2. CASE s = t
    BY <2>1, <2>2 DEF Stray
  <2>3. CASE s # t
    <3>1. Console(t)' <=> Console(t)
      BY <1>1, <1>8, <2>3, NewOnly DEF RestCreate
    <3> QED BY <1>2, <1>3, <1>6, <2>1, <3>1, RequestStillFound DEF At, SameCodes
  <2> QED BY <2>2, <2>3
<1>9. ASSUME NEW s \in Tokens, RestRevoke(p, s) PROVE ~Stray(t)'
  <2>1. /\ At(p, "auth") /\ UNCHANGED <<codes, held>>
        /\ (Console(t)' => Console(t))
    BY <1>1, <1>9, RevokedOnly DEF RestRevoke
  <2> QED BY <1>2, <1>3, <1>6, <2>1, RequestStillFound DEF At, SameCodes
<1>10. ASSUME NEW s \in Tokens, Issue(p, s) \/ Renew(p, s) PROVE ~Stray(t)'
  <2>1. ops[p].pc \in {"auth", "renew"} /\ UNCHANGED <<codes, held>>
    BY <1>10 DEF Issue, Renew, At
  <2>2. CASE s = t
    <3>1. ops'[p].token = t /\ ops'[p].pc # "idle"
      BY <1>1, <1>10, <2>2 DEF Issue, Renew, LoginTypeOK, Op
    <3> QED BY <3>1 DEF Stray, AnswersFor
  <2>3. CASE s # t
    <3>1. Console(t)' <=> Console(t)
      BY <1>1, <1>10, <2>3, NewOnly DEF Issue, Renew
    <3> QED BY <1>2, <1>3, <1>6, <2>1, <3>1, RequestStillFound DEF SameCodes
  <2> QED BY <2>2, <2>3
<1>11. ASSUME NEW c \in Codes, InsertCode(p, c) PROVE ~Stray(t)'
  <2>1. /\ Overdue \in SUBSET Codes /\ \A d \in Overdue : OpenCode(d)
        /\ tokens' = Revoked(Retired(Overdue)) /\ held' = held
    BY <1>11 DEF InsertCode, Overdue, OpenCode
  <2>2. CASE \E d \in Overdue : codes[d].token = t
    BY <2>1, <2>2, RetiredNotStray
  <2>3. CASE \A d \in Overdue : codes[d].token # t
    <3>1. SameCodes
      BY <1>11, <2>3 DEF SameCodes, InsertCode, OpenCode
    <3>2. AnswersFor(p, t) => AnswersFor(p, t)'
      BY <1>1, <1>11 DEF InsertCode, AnswersFor, LoginTypeOK, Op
    <3>3. Console(t)' => Console(t)
      BY <1>1, <2>1, RevokedOnly
    <3> QED BY <1>2, <2>1, <3>1, <3>2, <3>3, RequestStillFound DEF SameCodes
  <2> QED BY <2>2, <2>3
<1>12. ASSUME NEW c \in Codes, Present(p, c) PROVE ~Stray(t)'
  <2>1. /\ At(p, "idle") /\ OpenCode(c) /\ held' = held
        /\ \A d \in Codes \ {c} : codes'[d] = codes[d]
    BY <1>1, <1>12 DEF Present, Unused, OpenCode, LoginTypeOK
  <2>2. CASE codes[c].token = t /\ Expired(c)
    <3>1. tokens' = Revoked(Retired({c})) /\ {c} \in SUBSET Codes
      BY <1>12, <2>2 DEF Present
    <3> QED BY <2>1, <2>2, <3>1, RetiredNotStray
  <2>3. CASE codes[c].token = t /\ ~Expired(c)
    <3>1. ops'[p] = [NoOp EXCEPT !.pc = "marked", !.code = c, !.token = codes[c].token]
      BY <1>1, <1>12, <2>3 DEF Present, LoginTypeOK
    <3>2. ops'[p].pc = "marked" /\ ops'[p].token = t
      BY <2>3, <3>1 DEF NoOp
    <3> QED BY <3>2 DEF Stray, AnswersFor
  <2>4. CASE codes[c].token # t
    <3>1. SameCodes
      BY <2>1, <2>4 DEF SameCodes, OpenCode
    <3>2. Console(t)' => Console(t)
      BY <1>1, <1>4, <1>12, RevokedOnly DEF Present
    <3> QED BY <1>2, <1>6, <2>1, <3>1, <3>2, RequestStillFound DEF SameCodes, At
  <2> QED BY <2>2, <2>3, <2>4
<1>13. CASE Link(p) \/ Refuse(p)
  <2>1. ops[p].pc \in {"idle", "auth"} /\ UNCHANGED <<tokens, codes, held>>
    BY <1>13 DEF Link, Refuse, At
  <2> QED BY <1>2, <1>3, <1>4, <1>6, <2>1, RequestStillFound DEF SameCodes
<1>14. CASE WriteFile(p)
  <2>1. UNCHANGED <<tokens, codes>> /\ held' = held \cup {ops[p].token}
    BY <1>14 DEF WriteFile
  <2>2. CASE ops[p].token = t
    BY <2>1, <2>2 DEF Stray
  <2>3. CASE ops[p].token # t
    BY <1>2, <1>3, <1>4, <2>1, <2>3, RequestStillFound DEF SameCodes, AnswersFor
  <2> QED BY <2>2, <2>3
<1>15. CASE WriteFails(p) \/ Undo(p) \/ RevokeLost(p)
  <2>1. RevokeIssued(p) /\ UNCHANGED <<codes, held>>
    BY <1>15 DEF WriteFails, Undo, RevokeLost, RevokeIssued
  <2>2. Console(t)' => Console(t)
    BY <1>1, <1>4, <2>1, RevokedOnly DEF RevokeIssued
  <2> QED BY <1>2, <1>3, <2>1, <2>2, RequestStillFound DEF SameCodes
<1>16. CASE InsertFails(p)
  <2>1. UNCHANGED <<tokens, codes, held>>
    BY <1>16 DEF InsertFails
  <2>2. CASE At(p, "issued")
    <3>1. AnswersFor(p, t) => AnswersFor(p, t)'
      BY <1>1, <1>16, <2>2
         DEF InsertFails, Goto, AnswersFor, At, LoginTypeOK, Op
    <3> QED BY <1>2, <1>3, <1>4, <2>1, <3>1, RequestStillFound DEF SameCodes
  <2>3. CASE At(p, "lend") /\ ops[p].token = t
    BY <1>1, <2>1, <2>3 DEF OpOK, Stray
  <2>4. CASE ops[p].token # t
    BY <1>2, <1>3, <1>4, <2>1, <2>4, RequestStillFound DEF SameCodes, AnswersFor
  <2> QED BY <1>16, <2>2, <2>3, <2>4 DEF InsertFails
<1>17. CASE Stash(p)
  <2>1. UNCHANGED <<tokens, held>> /\ At(p, "stash") /\ ops[p].code \in Codes
    BY <1>1, <1>17 DEF Stash, OpOK, At
  <2>2. \A c \in Codes : (OpenCode(c)' <=> OpenCode(c)) /\ codes'[c].token = codes[c].token
    BY <1>1, <1>17, <2>1 DEF Stash, OpenCode, LoginTypeOK, Code
  <2>3. CASE ops[p].token = t
    <3>1. codes[ops[p].code].token = t
      BY <1>1, <2>1, <2>3 DEF OpOK, At
    <3>2. \/ OpenCode(ops[p].code)
          \/ t \in held \/ ~ActiveToken(t)
      BY <1>1, <2>1, <2>3 DEF OpOK, At
    <3>3. CASE OpenCode(ops[p].code)
      BY <2>1, <2>2, <3>1, <3>3 DEF Stray, OpenCode
    <3>4. CASE t \in held \/ ~ActiveToken(t)
      BY <2>1, <3>4 DEF Stray, Console, ActiveToken
    <3> QED BY <3>2, <3>3, <3>4
  <2>4. CASE ops[p].token # t
    BY <1>2, <1>4, <2>1, <2>2, <2>4, RequestStillFound DEF AnswersFor
  <2> QED BY <2>3, <2>4
<1>18. CASE Pop(p)
  <2>1. /\ UNCHANGED <<tokens, codes>> /\ At(p, "marked")
        /\ held' = held \/ held' = held \cup {ops[p].token}
    BY <1>18 DEF Pop
  <2>2. CASE ops[p].token # t
    BY <1>2, <1>3, <1>4, <2>1, <2>2, RequestStillFound DEF SameCodes, AnswersFor
  <2>3. CASE ops[p].token = t /\ t \in held'
    BY <2>3 DEF Stray
  <2>4. CASE ops[p].token = t /\ t \notin held'
    <3>1. codes[ops[p].code].owned
      BY <1>1, <2>1, <2>4 DEF OpOK, Carries, At
    <3>2. Goto(p, "lost")
      BY <1>18, <2>4, <3>1 DEF Pop
    <3>3. AnswersFor(p, t)'
      BY <1>1, <2>4, <3>2 DEF Goto, AnswersFor, LoginTypeOK, Op
    <3> QED BY <3>3 DEF Stray
  <2> QED BY <2>2, <2>3, <2>4
<1> QED BY <1>7, <1>8, <1>9, <1>10, <1>11, <1>12, <1>13, <1>14, <1>15, <1>16, <1>17, <1>18
           DEF Step

LEMMA AstrayStep ==
  ASSUME LoginInv, LoginNext, NEW t \in Tokens, ~Stray(t), Stray(t)'
  PROVE  Die \/ \E p \in Clients : AnswersFor(p, t) /\ RevokeIssued(p)
<1>1. ASSUME NEW p \in Clients, Step(p) PROVE AnswersFor(p, t) /\ RevokeIssued(p)
  BY <1>1, StrayStep
<1>2. UNCHANGED <<ops, codes>> => /\ \A q \in Clients : AnswersFor(q, t) => AnswersFor(q, t)'
                                  /\ \A c \in Codes : OpenCode(c) /\ codes[c].token = t =>
                                                        OpenCode(c)' /\ codes'[c].token = t
  BY DEF AnswersFor, OpenCode
<1>3. ASSUME NEW s \in Tokens, HostRevoke(s) PROVE FALSE
  <2>1. Console(t)' => Console(t)
    BY <1>3, RevokedOnly DEF HostRevoke, LoginInv
  <2> QED BY <1>2, <1>3, <2>1, StillFound DEF HostRevoke
<1>4. ASSUME NEW s \in Tokens, NEW u \in Users, NEW r \in Roles,
             HostCreate(s, u, r)
      PROVE  FALSE
  <2>1. s # t
    BY <1>4 DEF HostCreate, Stray
  <2>2. Console(t)' => Console(t)
    BY <1>4, <2>1, NewOnly DEF HostCreate, LoginInv
  <2> QED BY <1>2, <1>4, <2>2, StillFound DEF HostCreate
<1>5. CASE Tick
  <2>1. Console(t)' => Console(t)
    BY <1>5 DEF Tick, Console, ActiveToken
  <2> QED BY <1>2, <1>5, <2>1, StillFound DEF Tick
<1> QED BY <1>1, <1>3, <1>4, <1>5 DEF LoginNext

\* A console token goes astray only by a death, or when the revocation of what
\* was issued in vain fails itself.
THEOREM StraysHaveACauseTheorem ==
  LoginSpec => StraysHaveACause
<1>1. LoginInv /\ [LoginNext]_loginVars =>
        [\A t \in Tokens :
           ~Stray(t) /\ Stray(t)'
           => Die
              \/ \E p \in Clients : AnswersFor(p, t) /\ RevokeIssued(p)]_loginVars
  BY AstrayStep
<1> QED BY <1>1, LoginAlways, PTL DEF LoginSpec, StraysHaveACause

=============================================================================
