-------------------------- MODULE ChatFinalizeProofs --------------------------
(***************************************************************************)
(* Safety of the finalize outbox for every number of jobs, users, tasks    *)
(* and tokens and every value of its limits.                               *)
(***************************************************************************)
EXTENDS ChatFinalize, FiniteSetTheorems, TLAPS

-----------------------------------------------------------------------------
(* Finite sets of naturals: the library's induction theorem for finite sets *)
(* cannot be instantiated here, so the argument is by a minimal counterexample. *)

HasMax(S) == \E m \in S : \A k \in S : k <= m

\* Every nonempty finite set of naturals has a greatest element: used for the
\* columns whose next value is one above all the present ones.
LEMMA FiniteMax ==
  ASSUME NEW S \in SUBSET Nat, IsFiniteSet(S), S # {}
  PROVE  HasMax(S)
<1> DEFINE Bad == {T \in FiniteSubsetsOf(S) : T # {} /\ ~HasMax(T)}
<1>1. SUFFICES ASSUME Bad # {} PROVE FALSE
  <2>1. S \in FiniteSubsetsOf(S)
    BY DEF FiniteSubsetsOf
  <2> QED BY <2>1
<1>2. PICK T \in Bad : \A U \in Bad : ~(<<U, T>> \in StrictSubsetOrdering(S))
  <2>1. IsWellFoundedOn(StrictSubsetOrdering(S), FiniteSubsetsOf(S))
    BY FS_StrictSubsetOrderingWellFounded
  <2>2. Bad \subseteq FiniteSubsetsOf(S)
    OBVIOUS
  <2> HIDE DEF Bad
  <2> QED BY <1>1, <2>1, <2>2, WFMin
<1>3. /\ T \subseteq S /\ IsFiniteSet(T) /\ T # {} /\ T \subseteq Nat
      /\ ~HasMax(T)
  BY DEF FiniteSubsetsOf
<1>4. PICK x \in T : TRUE
  BY <1>3
<1> DEFINE U == T \ {x}
<1>5. U \subseteq S /\ IsFiniteSet(U)
  BY <1>3, FS_RemoveElement
<1>6. <<U, T>> \in StrictSubsetOrdering(S)
  BY <1>3, <1>4, <1>5 DEF StrictSubsetOrdering
<1>7. CASE U = {}
  <2>1. T = {x}
    BY <1>4, <1>7
  <2>2. x \in Nat
    BY <1>3, <1>4
  <2> QED BY <1>3, <2>1, <2>2 DEF HasMax
<1>8. CASE U # {}
  <2>1. HasMax(U)
    <3>1. U \notin Bad
      BY <1>2, <1>6
    <3>2. U \in FiniteSubsetsOf(S)
      BY <1>5 DEF FiniteSubsetsOf
    <3> QED BY <1>8, <3>1, <3>2
  <2>2. PICK m \in U : \A k \in U : k <= m
    BY <2>1 DEF HasMax
  <2>3. m \in Nat /\ x \in Nat
    BY <1>3, <1>4
  <2>4. CASE x <= m
    <3>1. \A k \in T : k <= m
      BY <2>2, <2>4
    <3> QED BY <1>3, <3>1, <2>2 DEF HasMax
  <2>5. CASE m <= x
    <3>1. \A k \in T : k \in Nat
      BY <1>3
    <3>2. \A k \in T : k <= x
      BY <2>2, <2>3, <2>5, <3>1
    <3> QED BY <1>3, <1>4, <3>2 DEF HasMax
  <2> QED BY <2>3, <2>4, <2>5
<1> QED BY <1>7, <1>8

HasMin(f, S) == \E m \in S : \A k \in S : f[m] <= f[k]

\* A function to the naturals is least somewhere on a nonempty set: used where a
\* query orders rows and takes the first.
LEMMA LeastValue ==
  ASSUME NEW S, S # {}, NEW f, \A k \in S : f[k] \in Nat
  PROVE  HasMin(f, S)
<1> DEFINE Below == {0..f[k] : k \in S}
<1>1. Below \subseteq FiniteSubsetsOf(Nat) /\ Below # {}
  <2>1. \A k \in S : 0..f[k] \in SUBSET Nat /\ IsFiniteSet(0..f[k])
    BY FS_Interval
  <2> QED BY <2>1 DEF FiniteSubsetsOf
<1>2. PICK B \in Below : \A C \in Below : ~(<<C, B>> \in StrictSubsetOrdering(Nat))
  <2>1. IsWellFoundedOn(StrictSubsetOrdering(Nat), FiniteSubsetsOf(Nat))
    BY FS_StrictSubsetOrderingWellFounded
  <2> HIDE DEF Below
  <2> QED BY <1>1, <2>1, WFMin
<1>3. PICK m \in S : B = 0..f[m]
  BY <1>2
<1>4. ASSUME NEW k \in S PROVE f[m] <= f[k]
  <2>1. SUFFICES ASSUME f[k] < f[m] PROVE FALSE
    BY <1>3
  <2>2. f[k] \in Nat /\ f[m] \in Nat
    BY <1>3
  <2>3. 0..f[k] \subseteq 0..f[m] /\ f[m] \in 0..f[m] /\ f[m] \notin 0..f[k]
    BY <2>1, <2>2
  <2>4. <<0..f[k], B>> \in StrictSubsetOrdering(Nat)
    BY <1>3, <2>2, <2>3 DEF StrictSubsetOrdering
  <2> QED BY <1>2, <2>4
<1> QED BY <1>3, <1>4 DEF HasMin


USE JobsAssumption, TasksAssumption, TokensAssumption, BoundsAssumption

-----------------------------------------------------------------------------
(* The operators of the table *)

\* The next value of a growing column is a number above every present one.
LEMMA AboveIsNext ==
  ASSUME NEW S \in SUBSET Nat, IsFiniteSet(S), S # {}
  PROVE  Above(S) \in Nat /\ \A m \in S : m < Above(S)
<1>1. PICK m \in S : \A k \in S : k <= m
  BY FiniteMax DEF HasMax
<1>2. /\ m + 1 \in {k + 1 : k \in S}
      /\ \A k \in S : k < m + 1
  BY <1>1
<1>3. Above(S) \in {k + 1 : k \in S} /\ \A k \in S : k < Above(S)
  BY <1>2 DEF Above
<1> QED BY <1>3

LEMMA ColumnFinite ==
  ASSUME NEW f \in [Jobs -> Nat]
  PROVE  LET S == {f[j] : j \in Jobs} IN S \in SUBSET Nat /\ IsFiniteSet(S) /\ S # {}
<1> DEFINE S == {f[j] : j \in Jobs}
<1>1. S \in SUBSET Nat /\ S # {}
  OBVIOUS
<1>2. f \in Surjection(Jobs, S)
  BY DEF Surjection
<1>3. IsFiniteSet(S)
  BY <1>2, FS_Surjection
<1> QED BY <1>1, <1>3

\* Both columns of a well-typed table have a next value.
LEMMA NextValues ==
  ASSUME NEW rs \in [Jobs -> Row]
  PROVE  NextRowid(rs) \in Nat /\ NextEnded(rs) \in Nat
<1>1. [j \in Jobs |-> rs[j].rowid] \in [Jobs -> Nat]
  BY DEF Row
<1>2. [j \in Jobs |-> rs[j].ended] \in [Jobs -> Nat]
  BY DEF Row
<1>3. {[i \in Jobs |-> rs[i].rowid][j] : j \in Jobs} = {rs[j].rowid : j \in Jobs}
  OBVIOUS
<1>4. {[i \in Jobs |-> rs[i].ended][j] : j \in Jobs} = {rs[j].ended : j \in Jobs}
  OBVIOUS
<1>5. NextRowid(rs) \in Nat
  BY <1>1, <1>3, ColumnFinite, AboveIsNext DEF NextRowid
<1>6. NextEnded(rs) \in Nat
  BY <1>2, <1>4, ColumnFinite, AboveIsNext DEF NextEnded
<1> QED BY <1>5, <1>6

LEMMA Bounds ==
  /\ MaxAttempts \in Nat /\ MaxAttempts > 0
  /\ MaxAge \in Nat /\ MaxAge > 0
  /\ Lease \in Nat /\ Lease > 0
  /\ MaxLive \in Nat /\ MaxLive > 0
BY BoundsAssumption

\* Closing a row keeps its type and leaves neither a body nor a lease.
LEMMA ClosedRow ==
  ASSUME NEW r \in Row, NEW status \in Terminal, NEW at \in Nat
  PROVE  /\ Closed(r, status, at) \in Row
         /\ Closed(r, status, at).status = status
         /\ Closed(r, status, at).body = FALSE
         /\ Closed(r, status, at).token = NoToken
<1>1. 0 \in 0..Lease /\ 0 \in 0..MaxAge
  BY Bounds
<1> QED BY <1>1 DEF Closed, Row, Terminal, Live

\* What a purge may do to a row: nothing, or fail it if it was live.
Purged(r, s) ==
  \/ s = r
  \/ r.status \in Live /\ s.status = "failed" /\ s.body = FALSE /\ s.token = NoToken

\* Failing a set of live rows closes those and leaves the others alone.
LEMMA FailedRows ==
  ASSUME NEW rs \in [Jobs -> Row], NEW S \in SUBSET Jobs, NEW at \in Nat,
         \A j \in S : rs[j].status \in Live
  PROVE  /\ FailRows(rs, S, at) \in [Jobs -> Row]
         /\ \A j \in Jobs : Purged(rs[j], FailRows(rs, S, at)[j])
         /\ \A j \in Jobs : IF j \in S THEN FailRows(rs, S, at)[j].status = "failed"
                              ELSE FailRows(rs, S, at)[j] = rs[j]
<1> DEFINE T == FailRows(rs, S, at)
<1>1. \A j \in Jobs : T[j] = IF j \in S THEN Closed(rs[j], "failed", at) ELSE rs[j]
  BY DEF FailRows
<1>2. \A j \in Jobs : rs[j] \in Row
  OBVIOUS
<1>3. \A j \in Jobs : /\ Closed(rs[j], "failed", at) \in Row
                      /\ Closed(rs[j], "failed", at).status = "failed"
                      /\ Closed(rs[j], "failed", at).body = FALSE
                      /\ Closed(rs[j], "failed", at).token = NoToken
  BY <1>2, ClosedRow DEF Terminal
<1>4. T \in [Jobs -> Row]
  BY <1>2, <1>3 DEF FailRows
<1>5. \A j \in Jobs : Purged(rs[j], T[j])
  BY <1>1, <1>3 DEF Purged
<1> QED BY <1>1, <1>3, <1>4, <1>5

\* The purge that opens every transaction leaves no exhausted row live.
LEMMA TerminatedRows ==
  ASSUME NEW rs \in [Jobs -> Row]
  PROVE  /\ Terminated(rs) \in [Jobs -> Row]
         /\ \A j \in Jobs : Purged(rs[j], Terminated(rs)[j])
         /\ \A j \in Jobs : ~Exhausted(Terminated(rs)[j])
<1> DEFINE S == {j \in Jobs : Exhausted(rs[j])}
           at == NextEnded(rs)
<1>1. at \in Nat
  BY NextValues
<1>2. \A j \in S : rs[j].status \in Live
  BY DEF Exhausted
<1>3. Terminated(rs) = FailRows(rs, S, at)
  BY DEF Terminated
<1>4. S \in SUBSET Jobs /\ \A j \in Jobs : Exhausted(rs[j]) <=> j \in S
  OBVIOUS
<1> HIDE DEF S, at
<1>5. /\ FailRows(rs, S, at) \in [Jobs -> Row]
      /\ \A j \in Jobs : Purged(rs[j], FailRows(rs, S, at)[j])
      /\ \A j \in Jobs : IF j \in S THEN FailRows(rs, S, at)[j].status = "failed"
                           ELSE FailRows(rs, S, at)[j] = rs[j]
  BY <1>1, <1>2, <1>4, FailedRows
<1>6. \A j \in Jobs : ~Exhausted(FailRows(rs, S, at)[j])
  BY <1>4, <1>5 DEF Exhausted, Live
<1> QED BY <1>3, <1>5, <1>6

LEMMA CappedRows ==
  ASSUME NEW rs \in [Jobs -> Row], NEW at \in Nat
  PROVE  /\ Capped(rs, at) \in [Jobs -> Row]
         /\ \A j \in Jobs : Purged(rs[j], Capped(rs, at)[j])
<1> DEFINE S == Overflow(rs)
<1>1. S \in SUBSET Jobs /\ \A j \in S : rs[j].status \in Live
  BY DEF Overflow
<1>2. Capped(rs, at) = FailRows(rs, S, at)
  BY DEF Capped
<1> HIDE DEF S
<1>3. /\ FailRows(rs, S, at) \in [Jobs -> Row]
      /\ \A j \in Jobs : Purged(rs[j], FailRows(rs, S, at)[j])
  BY <1>1, FailedRows
<1> QED BY <1>2, <1>3

\* The first row of a query is one of those it selects.
LEMMA OldestIsMember ==
  ASSUME NEW rs \in [Jobs -> Row], NEW S \in SUBSET Jobs, S # {}
  PROVE  Oldest(rs, S) \in S
<1> DEFINE f == [j \in Jobs |-> rs[j].rowid]
<1>1. \A k \in S : f[k] \in Nat
  BY DEF Row
<1>2. HasMin(f, S)
  <2> HIDE DEF f
  <2> QED BY <1>1, LeastValue
<1>3. \E j \in S : \A k \in S : rs[j].rowid <= rs[k].rowid
  BY <1>2 DEF HasMin
<1> QED BY <1>3 DEF Oldest

LEMMA FreshTokenIsFresh ==
  ASSUME FreshTokens # {}
  PROVE  /\ FreshToken \in Tokens
         /\ \A w \in Tasks : FreshToken # tasks[w].token
         /\ \A j \in Jobs : FreshToken # rows[j].token
<1>1. FreshToken \in FreshTokens
  BY DEF FreshToken
<1> QED BY <1>1 DEF FreshTokens, HeldTokens

-----------------------------------------------------------------------------
(* Types *)

LEMMA IdleType ==
  /\ Idle \in Task /\ Idle.pc = "idle" /\ Idle.token = NoToken
  /\ Idle.tried = {} /\ ~Idle.ok
BY DEF Idle, Task

LEMMA NoRowType ==
  /\ NoRow \in Row /\ NoRow.status = "absent" /\ NoRow.token = NoToken
  /\ ~NoRow.body /\ NoRow.attempts = 0
<1>1. 0 \in 0..Lease /\ 0 \in 0..MaxAge
  BY Bounds
<1> QED BY <1>1 DEF NoRow, Row, Live, Terminal

\* A task record whose fields have the right types is a task.
LEMMA TaskUpdate ==
  ASSUME NEW t \in Task, NEW tried \in SUBSET Jobs, NEW j \in Jobs \cup {AnyJob},
         NEW pc \in {"idle", "claim", "ingest", "mark", "direct", "prune"}
  PROVE  [t EXCEPT !.pc = pc, !.job = j, !.tried = tried] \in Task
BY DEF Task

LEMMA AfterType ==
  ASSUME NEW w \in Tasks, NEW tried \in SUBSET Jobs
  PROVE  /\ After(w, tried) \in Task /\ After(w, tried).token = NoToken
         /\ After(w, tried).pc \in {"idle", "claim", "prune"}
         /\ AfterNone(w) \in Task /\ AfterNone(w).token = NoToken
         /\ AfterNone(w).pc \in {"idle", "prune"}
<1>1. \A pc \in {"claim", "prune"}, T \in SUBSET Jobs :
        /\ [Idle EXCEPT !.pc = pc, !.tried = T] \in Task
        /\ [Idle EXCEPT !.pc = pc, !.tried = T].token = NoToken
        /\ [Idle EXCEPT !.pc = pc, !.tried = T].pc = pc
  BY DEF Idle, Task
<1>2. /\ [Idle EXCEPT !.pc = "prune"] \in Task
      /\ [Idle EXCEPT !.pc = "prune"].token = NoToken
      /\ [Idle EXCEPT !.pc = "prune"].pc = "prune"
  BY DEF Idle, Task
<1>3. CASE w \in TurnTasks
  BY <1>3, IdleType DEF After, AfterNone
<1>4. CASE w \notin TurnTasks
  <2>1. CASE Cardinality(tried) < BatchLimit
    BY <1>1, <1>2, <1>4, <2>1 DEF After, AfterNone
  <2>2. CASE ~(Cardinality(tried) < BatchLimit)
    BY <1>1, <1>2, <1>4, <2>2 DEF After, AfterNone
  <2> QED BY <2>1, <2>2
<1> QED BY <1>3, <1>4

LEMMA UpgradeRowType ==
  ASSUME NEW j \in Jobs, NEW s \in Live, NEW a \in 0..(MaxAttempts - 1)
  PROVE  /\ UpgradeRow(j, s, a) \in Row
         /\ UpgradeRow(j, s, a).status = s /\ UpgradeRow(j, s, a).body
         /\ UpgradeRow(j, s, a).attempts = a /\ UpgradeRow(j, s, a).token = NoToken
<1> DEFINE lease == IF s = "running" THEN Lease ELSE 0
<1>1. a \in Nat /\ j \in Nat /\ a < MaxAttempts /\ lease \in 0..Lease
  BY Bounds
<1> HIDE DEF lease
<1>2. UpgradeRow(j, s, a) = [NoRow EXCEPT !.status = s, !.body = TRUE, !.attempts = a,
                                           !.lease = lease, !.rowid = j]
  BY DEF UpgradeRow, lease
<1>3. UpgradeRow(j, s, a) \in Row
  BY <1>1, <1>2, NoRowType DEF Row
<1>4. DOMAIN NoRow = {"status", "body", "attempts", "token", "lease", "age", "rowid", "ended"}
  BY DEF NoRow
<1> QED BY <1>2, <1>3, <1>4, NoRowType

LEMMA InitTypeOK == Init => TypeOK
<1> SUFFICES ASSUME Init PROVE TypeOK
  OBVIOUS
<1>1. \A j \in Jobs : rows[j] \in Row
  <2> TAKE j \in Jobs
  <2>1. CASE rows[j] = NoRow
    BY <2>1, NoRowType
  <2>2. CASE rows[j] \in UpgradeRows(j)
    <3>1. PICK s \in Live, a \in 0..(MaxAttempts - 1) : rows[j] = UpgradeRow(j, s, a)
      BY <2>2 DEF UpgradeRows
    <3>2. UpgradeRow(j, s, a) \in Row
      BY UpgradeRowType
    <3> QED BY <3>1, <3>2
  <2> QED BY <2>1, <2>2 DEF Init
<1>2. rows \in [Jobs -> Row]
  BY <1>1 DEF Init
<1>3. tasks \in [Tasks -> Task]
  BY IdleType DEF Init
<1> QED BY <1>2, <1>3 DEF Init, TypeOK

-----------------------------------------------------------------------------
(* Leases *)

\* RowsConsistent, of one row.
RowOK(r, isIngested) ==
  /\ r.status # "running" => r.token = NoToken
  /\ r.status = "pending" => r.attempts < MaxAttempts
  /\ r.body <=> r.status \in Live
  /\ r.status = "done" => isIngested

LEMMA RowsConsistentIsRowOK ==
  RowsConsistent <=> \A j \in Jobs : RowOK(rows[j], j \in ingested)
BY DEF RowsConsistent, RowOK

\* A purged table is as consistent as the table was, and gives out no lease.
LEMMA PurgedRowsOK ==
  ASSUME NEW rs, RowsConsistent, NEW j \in Jobs, Purged(rows[j], rs[j])
  PROVE  /\ RowOK(rs[j], j \in ingested)
         /\ rs[j].token # NoToken => rs[j] = rows[j]
<1>1. RowOK(rows[j], j \in ingested)
  BY RowsConsistentIsRowOK
<1>2. CASE rs[j] = rows[j]
  BY <1>1, <1>2
<1>3. CASE rs[j].status = "failed" /\ rs[j].body = FALSE /\ rs[j].token = NoToken
  BY <1>3 DEF RowOK, Live
<1> QED BY <1>2, <1>3 DEF Purged

\* A step that hands out no token: a row or a task keeps the lease it has, with
\* its attempt, or drops it.
Quiet ==
  /\ \A j \in Jobs : rows'[j].token # NoToken =>
       /\ rows'[j].token = rows[j].token
       /\ rows'[j].attempts = rows[j].attempts
       /\ j \in ingested => j \in ingested'
  /\ \A w \in Tasks : tasks'[w].token # NoToken =>
       /\ tasks'[w].token = tasks[w].token
       /\ tasks'[w].job = tasks[w].job
       /\ tasks'[w].attempts = tasks[w].attempts
       /\ tasks'[w].pc = "mark" /\ tasks'[w].ok =>
            (tasks[w].pc = "mark" /\ tasks[w].ok) \/ tasks[w].job \in ingested'

TokenInv == RowTokensDistinct /\ TaskTokensDistinct /\ TokensTie

LEMMA QuietKeepsTokens ==
  ASSUME TokenInv, Quiet
  PROVE  TokenInv'
<1>1. RowTokensDistinct'
  BY DEF TokenInv, Quiet, RowTokensDistinct
<1>2. TaskTokensDistinct'
  BY DEF TokenInv, Quiet, TaskTokensDistinct
<1>3. TokensTie'
  BY DEF TokenInv, Quiet, TokensTie
<1> QED BY <1>1, <1>2, <1>3 DEF TokenInv

IInv == TypeOK /\ LeaseInv

\* The shape of a step of one task that hands out no token: what is left to show
\* for each action is the row and the task it writes.
LEMMA QuietTaskStep ==
  ASSUME IInv, NEW w \in Tasks, NEW t \in Task,
         tasks' = [tasks EXCEPT ![w] = t],
         IF t.pc \in {"ingest", "mark"} THEN t.token \in Tokens /\ t.job \in Jobs
                                       ELSE t.token = NoToken,
         t.token # NoToken =>
           /\ t.token = tasks[w].token /\ t.job = tasks[w].job
           /\ t.attempts = tasks[w].attempts
           /\ t.pc = "mark" /\ t.ok => t.job \in ingested',
         rows' \in [Jobs -> Row],
         \A j \in Jobs : /\ RowOK(rows'[j], j \in ingested')
                         /\ rows'[j].token # NoToken =>
                              /\ rows'[j].token = rows[j].token
                              /\ rows'[j].attempts = rows[j].attempts
                              /\ j \in ingested => j \in ingested',
         ingested' \subseteq Jobs, turns' \in 0..MaxTurns
  PROVE  IInv'
<1>1. TypeOK'
  BY DEF IInv, TypeOK
<1>2. \A v \in Tasks : tasks'[v] = IF v = w THEN t ELSE tasks[v]
  BY DEF IInv, TypeOK
<1>3. TasksConsistent'
  BY <1>2 DEF IInv, LeaseInv, TasksConsistent
<1>4. RowsConsistent'
  BY Zenon DEF RowsConsistent, RowOK
<1>5. Quiet
  <2>1. \A v \in Tasks : tasks'[v].token # NoToken =>
          /\ tasks'[v].token = tasks[v].token
          /\ tasks'[v].job = tasks[v].job
          /\ tasks'[v].attempts = tasks[v].attempts
          /\ tasks'[v].pc = "mark" /\ tasks'[v].ok =>
               (tasks[v].pc = "mark" /\ tasks[v].ok) \/ tasks[v].job \in ingested'
    <3> TAKE v \in Tasks
    <3>1. CASE v = w
      <4>1. tasks'[v] = t
        BY <1>2, <3>1
      <4> QED BY <3>1, <4>1, Zenon
    <3>2. CASE v # w
      <4>1. tasks'[v] = tasks[v]
        BY <1>2, <3>2
      <4> QED BY <4>1, Zenon
    <3> QED BY <3>1, <3>2
  <2> QED BY <2>1, Zenon DEF Quiet
<1>6. TokenInv'
  BY <1>5, QuietKeepsTokens DEF IInv, LeaseInv, TokenInv
<1> QED BY <1>1, <1>3, <1>4, <1>6 DEF IInv, LeaseInv, TokenInv

\* What every transaction starts from: the table purged of exhausted rows.
LEMMA TerminatedOK ==
  ASSUME IInv
  PROVE  /\ Terminated(rows) \in [Jobs -> Row]
         /\ \A j \in Jobs : /\ RowOK(Terminated(rows)[j], j \in ingested)
                            /\ ~Exhausted(Terminated(rows)[j])
                            /\ Terminated(rows)[j].token # NoToken =>
                                 Terminated(rows)[j] = rows[j]
<1> DEFINE rs == Terminated(rows)
<1>1. rows \in [Jobs -> Row] /\ RowsConsistent
  BY DEF IInv, TypeOK, LeaseInv
<1>2. /\ rs \in [Jobs -> Row]
      /\ \A j \in Jobs : Purged(rows[j], rs[j])
      /\ \A j \in Jobs : ~Exhausted(rs[j])
  BY <1>1, TerminatedRows
<1> HIDE DEF rs
<1>3. \A j \in Jobs : /\ RowOK(rs[j], j \in ingested)
                      /\ rs[j].token # NoToken => rs[j] = rows[j]
  BY <1>1, <1>2, PurgedRowsOK
<1> QED BY <1>2, <1>3 DEF rs

\* The rows as they are.
LEMMA RowsOK ==
  ASSUME IInv
  PROVE  /\ rows \in [Jobs -> Row]
         /\ \A j \in Jobs : RowOK(rows[j], j \in ingested)
         /\ tasks \in [Tasks -> Task] /\ ingested \subseteq Jobs /\ turns \in 0..MaxTurns
BY RowsConsistentIsRowOK DEF IInv, TypeOK, LeaseInv

LEMMA ClaimOwnType ==
  ASSUME NEW j \in Jobs, NEW pc \in {"claim", "direct"}
  PROVE  LET t == [Idle EXCEPT !.pc = pc, !.job = j]
         IN  t \in Task /\ t.pc = pc /\ t.token = NoToken
BY DEF Idle, Task

LEMMA TurnCounts ==
  ASSUME IInv, NEW w, StartTurn(w)
  PROVE  turns' \in 0..MaxTurns
BY BoundsAssumption DEF IInv, TypeOK, StartTurn

LEMMA EnqueueStep ==
  ASSUME IInv, NEW w \in TurnTasks, NEW j \in Jobs, Enqueue(w, j)
  PROVE  IInv'
<1> DEFINE rs == Terminated(rows)
           t == [Idle EXCEPT !.pc = "claim", !.job = j]
           new == [NoRow EXCEPT !.status = "pending", !.body = TRUE, !.rowid = NextRowid(rs)]
<1>1. /\ rs \in [Jobs -> Row]
      /\ \A k \in Jobs : /\ RowOK(rs[k], k \in ingested)
                         /\ rs[k].token # NoToken => rs[k] = rows[k]
  BY TerminatedOK
<1>2. t \in Task /\ t.pc = "claim" /\ t.token = NoToken
  BY ClaimOwnType
<1>3. NextRowid(rs) \in Nat
  BY <1>1, NextValues
<1>4. /\ new \in Row /\ new.status = "pending" /\ new.body = TRUE
      /\ new.token = NoToken /\ new.attempts = 0
  BY <1>3, NoRowType DEF NoRow, Row, Live
<1>5. RowOK(new, FALSE)
  BY <1>4, Bounds DEF RowOK, Live
<1>6. /\ tasks' = [tasks EXCEPT ![w] = t]
      /\ rows' = [rs EXCEPT ![j] = new]
      /\ ingested' = ingested \ {j}
  BY DEF Enqueue, ClaimOwn
<1>7. turns' \in 0..MaxTurns
  BY TurnCounts DEF Enqueue
<1> HIDE DEF rs, t, new
<1>8. rows' \in [Jobs -> Row] /\ \A k \in Jobs : rows'[k] = IF k = j THEN new ELSE rs[k]
  BY <1>1, <1>4, <1>6
<1>9. \A k \in Jobs : /\ RowOK(rows'[k], k \in ingested')
                      /\ rows'[k].token # NoToken =>
                           /\ rows'[k].token = rows[k].token
                           /\ rows'[k].attempts = rows[k].attempts
                           /\ k \in ingested => k \in ingested'
  <2> TAKE k \in Jobs
  <2>1. CASE k = j
    BY <1>4, <1>5, <1>6, <1>8, <2>1 DEF RowOK
  <2>2. CASE k # j
    <3>1. rows'[k] = rs[k] /\ (k \in ingested' <=> k \in ingested)
      BY <1>6, <1>8, <2>2
    <3> QED BY <1>1, <3>1 DEF RowOK
  <2> QED BY <2>1, <2>2
<1>10. ingested' \subseteq Jobs
  BY <1>6, RowsOK
<1> QED BY <1>2, <1>6, <1>7, <1>8, <1>9, <1>10, QuietTaskStep DEF Tasks

LEMMA EnqueueDuplicateStep ==
  ASSUME IInv, NEW w \in TurnTasks, NEW j \in Jobs, EnqueueDuplicate(w, j)
  PROVE  IInv'
<1> DEFINE t == [Idle EXCEPT !.pc = "claim", !.job = j]
<1>1. t \in Task /\ t.pc = "claim" /\ t.token = NoToken
  BY ClaimOwnType
<1>2. /\ tasks' = [tasks EXCEPT ![w] = t]
      /\ rows' = Terminated(rows) /\ ingested' = ingested
  BY DEF EnqueueDuplicate, ClaimOwn
<1>3. turns' \in 0..MaxTurns
  BY TurnCounts DEF EnqueueDuplicate
<1> HIDE DEF t
<1> QED BY <1>1, <1>2, <1>3, TerminatedOK, RowsOK, QuietTaskStep DEF Tasks

LEMMA EnqueueFailsStep ==
  ASSUME IInv, NEW w \in TurnTasks, NEW j \in Jobs, EnqueueFails(w, j)
  PROVE  IInv'
<1> DEFINE t == [Idle EXCEPT !.pc = "direct", !.job = j]
<1>1. t \in Task /\ t.pc = "direct" /\ t.token = NoToken
  BY ClaimOwnType
<1>2. /\ tasks' = [tasks EXCEPT ![w] = t]
      /\ rows' = rows /\ ingested' = ingested
  BY DEF EnqueueFails
<1>3. turns' \in 0..MaxTurns
  BY TurnCounts DEF EnqueueFails
<1> HIDE DEF t
<1> QED BY <1>1, <1>2, <1>3, RowsOK, QuietTaskStep DEF Tasks

\* Steps that only end what a task was doing, or send it to claim or to prune.
LEMMA LeaveRows ==
  ASSUME IInv, NEW w \in Tasks, NEW t \in Task, t.token = NoToken,
         t.pc \in {"idle", "claim", "prune"}, tasks' = [tasks EXCEPT ![w] = t],
         UNCHANGED <<rows, ingested, turns>>
  PROVE  IInv'
BY RowsOK, QuietTaskStep

LEMMA ClaimNothingStep ==
  ASSUME IInv, NEW w \in Tasks, ClaimNothing(w)
  PROVE  IInv'
<1> DEFINE t == AfterNone(w)
<1>1. t \in Task /\ t.token = NoToken /\ t.pc \in {"idle", "prune"}
  BY AfterType
<1>2. /\ tasks' = [tasks EXCEPT ![w] = t]
      /\ rows' = Terminated(rows) /\ ingested' = ingested /\ turns' = turns
  BY DEF ClaimNothing
<1> HIDE DEF t
<1> QED BY <1>1, <1>2, TerminatedOK, RowsOK, QuietTaskStep

LEMMA PruneStep ==
  ASSUME IInv, NEW w \in Tasks, Prune(w)
  PROVE  IInv'
<1> DEFINE ts == Terminated(rows)
           at == NextEnded(rows)
           rs == Capped(ts, at)
<1>1. /\ ts \in [Jobs -> Row]
      /\ \A j \in Jobs : RowOK(ts[j], j \in ingested) /\ (ts[j].token # NoToken => ts[j] = rows[j])
  BY TerminatedOK
<1>2. at \in Nat
  BY RowsOK, NextValues
<1> HIDE DEF ts, at
<1>3. rs \in [Jobs -> Row] /\ \A j \in Jobs : Purged(ts[j], rs[j])
  BY <1>1, <1>2, CappedRows
<1>4. /\ tasks' = [tasks EXCEPT ![w] = Idle]
      /\ rows' = [j \in Jobs |-> IF j \in Deletable(rs) THEN NoRow ELSE rs[j]]
      /\ ingested' = ingested /\ turns' = turns
  BY DEF Prune, ts, at
<1> HIDE DEF rs
<1>5. rows' \in [Jobs -> Row]
  BY <1>3, <1>4, NoRowType
<1>6. \A j \in Jobs : /\ RowOK(rows'[j], j \in ingested)
                      /\ rows'[j].token # NoToken => rows'[j] = rows[j]
  <2> TAKE j \in Jobs
  <2>1. CASE rows'[j] = NoRow
    BY <2>1, NoRowType DEF RowOK, Live
  <2>2. CASE rows'[j] = rs[j] /\ rs[j] = ts[j]
    BY <1>1, <2>2
  <2>3. CASE rows'[j] = rs[j] /\ rs[j].status = "failed" /\ rs[j].body = FALSE
                              /\ rs[j].token = NoToken
    BY <2>3 DEF RowOK, Live
  <2> QED BY <1>3, <1>4, <2>1, <2>2, <2>3 DEF Purged
<1> QED BY <1>4, <1>5, <1>6, IdleType, RowsOK, QuietTaskStep

LEMMA IngestStep ==
  ASSUME IInv, NEW w \in Tasks, NEW ok \in BOOLEAN, Ingest(w, ok)
  PROVE  IInv'
<1> DEFINE t == [tasks[w] EXCEPT !.pc = "mark", !.ok = ok]
<1>1. tasks[w] \in Task /\ tasks[w].pc = "ingest"
  BY RowsOK DEF Ingest
<1>2. tasks[w].token \in Tokens /\ tasks[w].job \in Jobs
  BY <1>1 DEF IInv, LeaseInv, TasksConsistent
<1>3. /\ t \in Task /\ t.pc = "mark" /\ t.token = tasks[w].token /\ t.job = tasks[w].job
      /\ t.attempts = tasks[w].attempts /\ t.ok = ok
  BY <1>1 DEF Task
<1>4. tasks' = [tasks EXCEPT ![w] = t]
  BY RowsOK DEF Ingest
<1>5. /\ rows' = rows /\ turns' = turns
      /\ ingested' = IF ok THEN ingested \cup {tasks[w].job} ELSE ingested
  BY DEF Ingest
<1>6. ingested \subseteq ingested' /\ ingested' \subseteq Jobs /\ (ok => tasks[w].job \in ingested')
  BY <1>2, <1>5, RowsOK
<1> HIDE DEF t
<1>7. \A j \in Jobs : RowOK(rows'[j], j \in ingested')
  BY <1>5, <1>6, RowsOK DEF RowOK
<1>8. t.pc = "mark" /\ t.ok => t.job \in ingested'
  BY <1>3, <1>6
<1> QED BY <1>2, <1>3, <1>4, <1>5, <1>6, <1>7, <1>8, RowsOK, QuietTaskStep

LEMMA MarkStep ==
  ASSUME IInv, NEW w \in Tasks, Mark(w)
  PROVE  IInv'
<1> DEFINE j == tasks[w].job
           t == After(w, tasks[w].tried \cup {j})
           r == MarkedRow(rows[j], tasks[w])
<1>1. tasks[w] \in Task /\ tasks[w].pc = "mark" /\ Holds(w, j)
  BY RowsOK DEF Mark
<1>2. tasks[w].token \in Tokens /\ j \in Jobs
  BY <1>1 DEF IInv, LeaseInv, TasksConsistent
<1>3. /\ tasks[w].attempts = rows[j].attempts
      /\ tasks[w].ok => j \in ingested
  <2>1. tasks[w].token = rows[j].token /\ rows[j].token # NoToken
    BY <1>1, <1>2 DEF Holds
  <2> QED BY <1>1, <1>2, <2>1 DEF IInv, LeaseInv, TokensTie
<1>4. rows[j] \in Row /\ rows[j].status = "running" /\ RowOK(rows[j], j \in ingested)
  BY <1>1, <1>2, RowsOK DEF Holds
<1>5. NextEnded(rows) \in Nat
  BY RowsOK, NextValues
<1>6. r \in Row /\ r.token = NoToken /\ RowOK(r, j \in ingested)
  <2>1. CASE tasks[w].ok
    <3>1. r = Closed(rows[j], "done", NextEnded(rows))
      BY <2>1 DEF MarkedRow
    <3>2. Closed(rows[j], "done", NextEnded(rows)) \in Row
      BY <1>4, <1>5, ClosedRow DEF Terminal
    <3>3. /\ Closed(rows[j], "done", NextEnded(rows)).status = "done"
          /\ Closed(rows[j], "done", NextEnded(rows)).body = FALSE
          /\ Closed(rows[j], "done", NextEnded(rows)).token = NoToken
      BY <1>4, <1>5, ClosedRow DEF Terminal
    <3> QED BY <1>3, <2>1, <3>1, <3>2, <3>3 DEF RowOK, Live
  <2>2. CASE ~tasks[w].ok /\ tasks[w].attempts >= MaxAttempts
    <3>1. r = Closed(rows[j], "failed", NextEnded(rows))
      BY <2>2 DEF MarkedRow
    <3>2. Closed(rows[j], "failed", NextEnded(rows)) \in Row
      BY <1>4, <1>5, ClosedRow DEF Terminal
    <3>3. /\ Closed(rows[j], "failed", NextEnded(rows)).status = "failed"
          /\ Closed(rows[j], "failed", NextEnded(rows)).body = FALSE
          /\ Closed(rows[j], "failed", NextEnded(rows)).token = NoToken
      BY <1>4, <1>5, ClosedRow DEF Terminal
    <3> QED BY <3>1, <3>2, <3>3 DEF RowOK, Live
  <2>3. CASE ~tasks[w].ok /\ ~(tasks[w].attempts >= MaxAttempts)
    <3>1. r = [rows[j] EXCEPT !.status = "pending", !.token = NoToken, !.lease = 0]
      BY <2>3 DEF MarkedRow
    <3>2. 0 \in 0..Lease
      BY Bounds
    <3>3. /\ r \in Row /\ r.status = "pending" /\ r.token = NoToken
          /\ r.body = rows[j].body /\ r.attempts = rows[j].attempts
      BY <1>4, <3>1, <3>2 DEF Row, Live
    <3>4. r.attempts < MaxAttempts
      BY <1>3, <2>3, <3>3, <1>4, Bounds DEF Row
    <3> QED BY <1>4, <3>3, <3>4 DEF RowOK, Live
  <2> QED BY <2>1, <2>2, <2>3
<1>7. /\ tasks' = [tasks EXCEPT ![w] = t] /\ rows' = [rows EXCEPT ![j] = r]
      /\ ingested' = ingested /\ turns' = turns
  BY RowsOK DEF Mark
<1>8. t \in Task /\ t.token = NoToken /\ t.pc \in {"idle", "claim", "prune"}
  BY <1>1, <1>2, AfterType DEF Task
<1> HIDE DEF t, r, j
<1>9. rows' \in [Jobs -> Row] /\ \A k \in Jobs : rows'[k] = IF k = j THEN r ELSE rows[k]
  BY <1>6, <1>7, RowsOK
<1>10. \A k \in Jobs : RowOK(rows'[k], k \in ingested') /\ (rows'[k].token # NoToken => rows'[k] = rows[k])
  BY <1>6, <1>7, <1>9, RowsOK
<1> QED BY <1>7, <1>8, <1>9, <1>10, RowsOK, QuietTaskStep

\* The only step that hands out a token: it is fresh, so it is in no other row
\* and with no other task.
LEMMA ClaimStep ==
  ASSUME IInv, NEW w \in Tasks, Claim(w)
  PROVE  IInv'
<1> DEFINE rs == Terminated(rows)
           S == MayClaim(rs, w)
           j == Oldest(rs, S)
           n == rs[j].attempts + 1
           k == FreshToken
           r == [rs[j] EXCEPT !.status = "running", !.attempts = n, !.token = k, !.lease = Lease]
           t == [tasks[w] EXCEPT !.pc = "ingest", !.job = j, !.token = k, !.attempts = n]
<1>1. /\ rs \in [Jobs -> Row]
      /\ \A i \in Jobs : /\ RowOK(rs[i], i \in ingested)
                         /\ rs[i].token # NoToken => rs[i] = rows[i]
  BY TerminatedOK
<1>2. S \in SUBSET Jobs /\ S # {} /\ \A i \in S : Eligible(rs[i])
  BY DEF Claim, MayClaim
<1>3. j \in Jobs /\ Eligible(rs[j])
  <2> HIDE DEF rs, S
  <2>1. j \in S
    BY <1>1, <1>2, OldestIsMember
  <2> QED BY <1>2, <2>1
<1>4. /\ k \in Tokens /\ k # NoToken
      /\ \A v \in Tasks : k # tasks[v].token
      /\ \A i \in Jobs : k # rows[i].token
  BY FreshTokenIsFresh DEF Claim
<1>5. tasks[w] \in Task
  BY RowsOK
<1>6. /\ rows' = [rs EXCEPT ![j] = r] /\ tasks' = [tasks EXCEPT ![w] = t]
      /\ ingested' = ingested /\ turns' = turns
  BY <1>1, <1>3, RowsOK DEF Claim
<1> HIDE DEF rs, S, j, k
<1>7. rs[j] \in Row /\ n \in Nat
  BY <1>1, <1>3 DEF Row
<1>8. /\ r \in Row /\ r.status = "running" /\ r.token = k /\ r.attempts = n
      /\ r.body = rs[j].body
  <2>1. Lease \in 0..Lease
    BY Bounds
  <2> HIDE DEF n
  <2> QED BY <1>4, <1>7, <2>1 DEF Row, Live
<1>9. /\ t \in Task /\ t.pc = "ingest" /\ t.job = j /\ t.token = k /\ t.attempts = n
  <2> HIDE DEF n
  <2> QED BY <1>3, <1>4, <1>5, <1>7 DEF Task
<1> HIDE DEF n, r, t
<1>10. RowOK(r, j \in ingested)
  <2>1. RowOK(rs[j], j \in ingested) /\ rs[j].status \in Live
    BY <1>1, <1>3 DEF Eligible, Live
  <2> QED BY <1>8, <2>1 DEF RowOK, Live
<1>11. /\ rows' \in [Jobs -> Row]
       /\ \A i \in Jobs : rows'[i] = IF i = j THEN r ELSE rs[i]
  BY <1>1, <1>3, <1>6, <1>8
<1>12. /\ tasks' \in [Tasks -> Task]
       /\ \A v \in Tasks : tasks'[v] = IF v = w THEN t ELSE tasks[v]
  BY <1>6, <1>9, RowsOK
<1>13. TypeOK'
  BY <1>6, <1>11, <1>12, RowsOK DEF TypeOK
<1>14. RowsConsistent'
  <2>1. \A i \in Jobs : RowOK(rows'[i], i \in ingested')
    BY <1>1, <1>6, <1>10, <1>11
  <2> QED BY <2>1, Zenon DEF RowsConsistent, RowOK
<1>15. TasksConsistent'
  BY <1>3, <1>4, <1>9, <1>12 DEF IInv, LeaseInv, TasksConsistent
<1>16. \A i \in Jobs : rows'[i].token # NoToken => (i = j /\ rows'[i].token = k) \/ rows'[i] = rows[i]
  BY <1>1, <1>8, <1>11
<1>17. RowTokensDistinct'
  BY <1>4, <1>16 DEF IInv, LeaseInv, RowTokensDistinct
<1>18. TaskTokensDistinct'
  BY <1>4, <1>9, <1>12 DEF IInv, LeaseInv, TaskTokensDistinct
<1>19. TokensTie'
  <2> SUFFICES ASSUME NEW v \in Tasks, NEW i \in Jobs,
                      tasks'[v].token = rows'[i].token, rows'[i].token # NoToken
               PROVE  /\ tasks'[v].job = i
                      /\ tasks'[v].attempts = rows'[i].attempts
                      /\ tasks'[v].pc = "mark" /\ tasks'[v].ok => i \in ingested'
    BY DEF TokensTie
  <2>1. CASE i = j
    <3>1. rows'[i] = r /\ tasks'[v].token = k
      BY <1>8, <1>11, <2>1
    <3>2. v = w /\ tasks'[v] = t
      BY <1>4, <1>12, <3>1
    <3>3. tasks'[v].job = i /\ tasks'[v].attempts = rows'[i].attempts
      BY <1>8, <1>9, <2>1, <3>1, <3>2
    <3>4. tasks'[v].pc # "mark"
      BY <1>9, <3>2
    <3> QED BY <3>3, <3>4
  <2>2. CASE i # j
    <3>1. rows'[i] = rows[i] /\ tasks'[v].token # k
      BY <1>4, <1>16, <2>2
    <3>2. tasks'[v] = tasks[v]
      BY <1>9, <1>12, <3>1
    <3>3. tasks[v].token = rows[i].token /\ rows[i].token # NoToken
      BY <3>1, <3>2
    <3>4. /\ tasks[v].job = i
          /\ tasks[v].attempts = rows[i].attempts
          /\ tasks[v].pc = "mark" /\ tasks[v].ok => i \in ingested
      BY <3>3, Zenon DEF IInv, LeaseInv, TokensTie
    <3> QED BY <1>6, <3>1, <3>2, <3>4
  <2> QED BY <2>1, <2>2
<1> QED BY <1>13, <1>14, <1>15, <1>17, <1>18, <1>19 DEF IInv, LeaseInv

LEMMA TickStep ==
  ASSUME IInv, Tick
  PROVE  IInv'
<1>1. /\ rows' = [j \in Jobs |-> Older(rows[j])]
      /\ tasks' = tasks /\ ingested' = ingested /\ turns' = turns
  BY DEF Tick
<1>2. \A r \in Row : /\ Older(r) \in Row /\ Older(r).status = r.status
                     /\ Older(r).token = r.token /\ Older(r).attempts = r.attempts
                     /\ Older(r).body = r.body
  <2> TAKE r \in Row
  <2> DEFINE age == IF r.age < MaxAge THEN r.age + 1 ELSE r.age
             lease == IF r.lease > 0 THEN r.lease - 1 ELSE 0
  <2>1. age \in 0..MaxAge /\ lease \in 0..Lease
    BY Bounds DEF Row
  <2>2. CASE r.status \in Live
    <3>1. Older(r) = [r EXCEPT !.age = age, !.lease = lease]
      BY <2>2 DEF Older
    <3> HIDE DEF age, lease
    <3> QED BY <2>1, <3>1 DEF Row
  <2>3. CASE r.status \notin Live
    BY <2>3 DEF Older
  <2> QED BY <2>2, <2>3
<1>3. /\ rows' \in [Jobs -> Row]
      /\ \A j \in Jobs : /\ rows'[j].token = rows[j].token
                         /\ rows'[j].attempts = rows[j].attempts
                         /\ RowOK(rows'[j], j \in ingested')
  BY <1>1, <1>2, RowsOK DEF RowOK
<1>4. TypeOK'
  BY <1>1, <1>3, RowsOK DEF TypeOK
<1>5. RowsConsistent'
  BY <1>3, Zenon DEF RowsConsistent, RowOK
<1>6. TasksConsistent'
  BY <1>1 DEF IInv, LeaseInv, TasksConsistent
<1>7. TokenInv'
  <2>1. Quiet
    BY <1>1, <1>3 DEF Quiet
  <2> QED BY <2>1, QuietKeepsTokens DEF IInv, LeaseInv, TokenInv
<1> QED BY <1>4, <1>5, <1>6, <1>7 DEF IInv, LeaseInv, TokenInv

\* The leases and what hangs on them are an inductive invariant.
LEMMA InitIInv == Init => IInv
<1> SUFFICES ASSUME Init PROVE IInv
  OBVIOUS
<1>1. TypeOK
  BY InitTypeOK
<1>2. \A j \in Jobs : rows[j].token = NoToken /\ RowOK(rows[j], j \in ingested)
  <2> TAKE j \in Jobs
  <2>1. CASE rows[j] = NoRow
    BY <2>1, NoRowType DEF RowOK, Live
  <2>2. CASE rows[j] \in UpgradeRows(j)
    <3>1. PICK s \in Live, a \in 0..(MaxAttempts - 1) : rows[j] = UpgradeRow(j, s, a)
      BY <2>2 DEF UpgradeRows
    <3> DEFINE r == UpgradeRow(j, s, a)
    <3>2. r.status = s /\ r.attempts = a /\ r.token = NoToken /\ r.body
      BY UpgradeRowType
    <3>3. a < MaxAttempts
      BY Bounds
    <3> QED BY <3>1, <3>2, <3>3 DEF RowOK, Live
  <2> QED BY <2>1, <2>2 DEF Init
<1>3. \A w \in Tasks : tasks[w] = Idle
  BY DEF Init
<1>4. RowsConsistent
  BY <1>2, Zenon DEF RowsConsistent, RowOK
<1>5. TasksConsistent
  BY <1>3, IdleType DEF TasksConsistent
<1>6. RowTokensDistinct /\ TaskTokensDistinct /\ TokensTie
  BY <1>2, <1>3, IdleType DEF RowTokensDistinct, TaskTokensDistinct, TokensTie
<1> QED BY <1>1, <1>4, <1>5, <1>6 DEF IInv, LeaseInv

LEMMA NextIInv == IInv /\ [Next]_vars => IInv'
<1> SUFFICES ASSUME IInv, [Next]_vars PROVE IInv'
  OBVIOUS
<1>1. ASSUME NEW w \in TurnTasks, TurnStep(w) PROVE IInv'
  BY <1>1, EnqueueStep, EnqueueDuplicateStep, EnqueueFailsStep DEF TurnStep
<1>2. ASSUME NEW w \in TurnTasks, DirectIngest(w) PROVE IInv'
  BY <1>2, LeaveRows, IdleType DEF DirectIngest, Tasks
<1>3. ASSUME NEW w \in Drainers, Wake(w) PROVE IInv'
  <2> DEFINE t == [Idle EXCEPT !.pc = "claim"]
  <2>1. t \in Task /\ t.token = NoToken /\ t.pc = "claim"
    BY DEF Idle, Task
  <2>2. tasks' = [tasks EXCEPT ![w] = t] /\ UNCHANGED <<rows, ingested, turns>>
    BY <1>3 DEF Wake
  <2> HIDE DEF t
  <2> QED BY <2>1, <2>2, LeaveRows DEF Tasks
<1>4. ASSUME NEW w \in Drainers, Prune(w) PROVE IInv'
  BY <1>4, PruneStep DEF Tasks
<1>5. ASSUME NEW w \in Drainers, PruneFails(w) PROVE IInv'
  BY <1>5, LeaveRows, IdleType DEF PruneFails, Tasks
<1>6. ASSUME NEW w \in Tasks, Claim(w) PROVE IInv'
  BY <1>6, ClaimStep
<1>7. ASSUME NEW w \in Tasks, ClaimNothing(w) PROVE IInv'
  BY <1>7, ClaimNothingStep
<1>8. ASSUME NEW w \in Tasks, ClaimFails(w) PROVE IInv'
  <2>1. AfterNone(w) \in Task /\ AfterNone(w).token = NoToken
        /\ AfterNone(w).pc \in {"idle", "prune"}
    BY AfterType
  <2> QED BY <1>8, <2>1, LeaveRows DEF ClaimFails
<1>9. ASSUME NEW w \in Tasks, NEW ok \in BOOLEAN, Ingest(w, ok) PROVE IInv'
  BY <1>9, IngestStep
<1>10. ASSUME NEW w \in Tasks, Mark(w) PROVE IInv'
  BY <1>10, MarkStep
<1>11. ASSUME NEW w \in Tasks, MarkDropped(w) PROVE IInv'
  <2> DEFINE t == After(w, tasks[w].tried \cup {tasks[w].job})
  <2>1. tasks[w] \in Task /\ tasks[w].job \in Jobs
    BY <1>11, RowsOK DEF MarkDropped, IInv, LeaseInv, TasksConsistent
  <2>2. t \in Task /\ t.token = NoToken /\ t.pc \in {"idle", "claim", "prune"}
    BY <2>1, AfterType DEF Task
  <2>3. tasks' = [tasks EXCEPT ![w] = t] /\ UNCHANGED <<rows, ingested, turns>>
    BY <1>11, RowsOK DEF MarkDropped
  <2> HIDE DEF t
  <2> QED BY <2>2, <2>3, LeaveRows
<1>12. ASSUME NEW w \in Tasks, Crash(w) PROVE IInv'
  BY <1>12, LeaveRows, IdleType DEF Crash
<1>13. CASE Tick
  BY <1>13, TickStep
<1>14. CASE UNCHANGED vars
  BY <1>14, QuietKeepsTokens DEF vars, IInv, TypeOK, LeaseInv, RowsConsistent, TasksConsistent,
     RowTokensDistinct, TaskTokensDistinct, TokensTie
<1> QED BY <1>1, <1>2, <1>3, <1>4, <1>5, <1>6, <1>7, <1>8, <1>9, <1>10, <1>11, <1>12, <1>13,
           <1>14 DEF Next, RunStep

\* Every reachable state is well typed and its leases tie tasks to rows.
THEOREM LeasesTie == Spec => [](TypeOK /\ LeaseInv)
<1>1. Init => IInv
  BY InitIInv
<1>2. IInv /\ [Next]_vars => IInv'
  BY NextIInv
<1> QED BY <1>1, <1>2, PTL DEF Spec, IInv

\* Of all tasks that believe they run a job, at most one can write its result.
THEOREM OneWriterTheorem == Spec => []OneWriter
<1>1. LeaseInv => OneWriter
  <2> SUFFICES ASSUME LeaseInv, NEW j \in Jobs, NEW v \in Tasks,
                      tasks[v].pc \in {"ingest", "mark"}, Holds(v, j)
               PROVE  /\ tasks[v].attempts = rows[j].attempts
                      /\ \A w \in Tasks : Holds(w, j) => v = w
    BY DEF OneWriter
  <2>1. tasks[v].token = rows[j].token /\ rows[j].token # NoToken
    BY DEF Holds, LeaseInv, TasksConsistent
  <2>2. tasks[v].attempts = rows[j].attempts
    BY <2>1 DEF LeaseInv, TokensTie
  <2>3. \A w \in Tasks : Holds(w, j) => v = w
    BY <2>1 DEF LeaseInv, TaskTokensDistinct, Holds
  <2> QED BY <2>2, <2>3
<1> QED BY <1>1, LeasesTie, PTL

\* No row is done without a completed ingest.
THEOREM DoneWasIngestedTheorem == Spec => []DoneWasIngested
<1>1. LeaseInv => DoneWasIngested
  BY DEF LeaseInv, RowsConsistent, DoneWasIngested
<1> QED BY <1>1, LeasesTie, PTL

\* No row waits for an attempt that will not be made, and the copied turn is kept
\* exactly as long as the row can be run.
THEOREM RowsTheorem == Spec => [](PendingHasAttemptLeft /\ BodyOnlyWhileLive)
<1>1. LeaseInv => PendingHasAttemptLeft /\ BodyOnlyWhileLive
  BY Zenon DEF LeaseInv, RowsConsistent, PendingHasAttemptLeft, BodyOnlyWhileLive
<1> QED BY <1>1, LeasesTie, PTL

-----------------------------------------------------------------------------
(* The bound on live rows *)

NoNewLive == \A j \in Jobs : rows'[j].status \in Live => rows[j].status \in Live

LEMMA LiveSubset ==
  ASSUME NEW rs, NEW qs, NEW u,
         \A j \in Jobs : qs[j].status \in Live => rs[j].status \in Live,
         Cardinality(LiveJobs(rs, u)) <= MaxLive
  PROVE  Cardinality(LiveJobs(qs, u)) <= MaxLive
<1>1. LiveJobs(rs, u) \in SUBSET Jobs /\ LiveJobs(qs, u) \in SUBSET LiveJobs(rs, u)
  BY DEF LiveJobs
<1>2. IsFiniteSet(LiveJobs(rs, u))
  BY <1>1, FS_Subset
<1>3. Cardinality(LiveJobs(qs, u)) <= Cardinality(LiveJobs(rs, u))
  BY <1>1, <1>2, FS_Subset
<1>4. Cardinality(LiveJobs(qs, u)) \in Nat /\ Cardinality(LiveJobs(rs, u)) \in Nat
  BY <1>1, <1>2, FS_Subset, FS_CardinalityType
<1> QED BY <1>3, <1>4, Bounds

LEMMA TerminatedNoNewLive ==
  ASSUME IInv
  PROVE  \A j \in Jobs : Terminated(rows)[j].status \in Live => rows[j].status \in Live
<1>1. \A j \in Jobs : Purged(rows[j], Terminated(rows)[j])
  BY RowsOK, TerminatedRows
<1> QED BY <1>1 DEF Purged, Live

LEMMA EnqueueLiveBound ==
  ASSUME IInv, LiveBound, NEW w, NEW j \in Jobs, Enqueue(w, j)
  PROVE  LiveBound'
<1> DEFINE rs == Terminated(rows)
           new == [NoRow EXCEPT !.status = "pending", !.body = TRUE, !.rowid = NextRowid(rs)]
<1>1. /\ rows' = [rs EXCEPT ![j] = new]
      /\ Cardinality(LiveJobs(rs, Owner[j])) < MaxLive
  BY DEF Enqueue
<1>2. rs \in [Jobs -> Row]
  BY TerminatedOK
<1>3. \A k \in Jobs : rs[k].status \in Live => rows[k].status \in Live
  BY TerminatedNoNewLive
<1> HIDE DEF rs, new
<1> SUFFICES ASSUME NEW u \in Users PROVE Cardinality(LiveJobs(rows', u)) <= MaxLive
  BY DEF LiveBound
<1>4. \A k \in Jobs : k # j => rows'[k] = rs[k]
  BY <1>1, <1>2
<1>5. CASE u = Owner[j]
  <2> DEFINE L == LiveJobs(rs, u)
  <2>1. L \in SUBSET Jobs /\ LiveJobs(rows', u) \in SUBSET (L \cup {j})
    BY <1>4 DEF LiveJobs
  <2>2. IsFiniteSet(L) /\ Cardinality(L) \in Nat
    BY <2>1, FS_Subset, FS_CardinalityType
  <2>5. Cardinality(L) < MaxLive
    BY <1>1, <1>5
  <2> HIDE DEF L
  <2>3. IsFiniteSet(L \cup {j}) /\ Cardinality(L \cup {j}) <= Cardinality(L) + 1
    <3>1. /\ IsFiniteSet(L \cup {j})
          /\ Cardinality(L \cup {j}) = IF j \in L THEN Cardinality(L) ELSE Cardinality(L) + 1
      BY <2>2, FS_AddElement, Zenon
    <3> QED BY <2>2, <3>1
  <2>4. /\ Cardinality(LiveJobs(rows', u)) <= Cardinality(L \cup {j})
        /\ Cardinality(LiveJobs(rows', u)) \in Nat
        /\ Cardinality(L \cup {j}) \in Nat
    BY <2>1, <2>3, FS_Subset, FS_CardinalityType
  <2> QED BY <2>2, <2>3, <2>4, <2>5, Bounds
<1>6. CASE u # Owner[j]
  <2>1. LiveJobs(rows', u) = LiveJobs(rs, u)
    BY <1>4, <1>6 DEF LiveJobs
  <2>2. Cardinality(LiveJobs(rs, u)) <= MaxLive
    BY <1>3, LiveSubset DEF LiveBound
  <2> QED BY <2>1, <2>2
<1> QED BY <1>5, <1>6

\* No other step makes a row live.
LEMMA OthersNoNewLive ==
  ASSUME IInv, [Next]_vars
  PROVE  NoNewLive \/ \E w \in TurnTasks, j \in Jobs : Enqueue(w, j)
<1> SUFFICES ASSUME ~\E w \in TurnTasks, j \in Jobs : Enqueue(w, j) PROVE NoNewLive
  OBVIOUS
<1>1. CASE rows' = rows
  BY <1>1 DEF NoNewLive
<1>2. CASE rows' = Terminated(rows)
  BY <1>2, TerminatedNoNewLive DEF NoNewLive
<1>3. ASSUME NEW w \in Tasks, Claim(w) PROVE NoNewLive
  <2> DEFINE rs == Terminated(rows)
             S == MayClaim(rs, w)
             j == Oldest(rs, S)
  <2>1. rs \in [Jobs -> Row] /\ S \in SUBSET Jobs /\ S # {} /\ \A i \in S : Eligible(rs[i])
    BY <1>3, TerminatedOK DEF Claim, MayClaim
  <2>2. j \in S
    <3> HIDE DEF rs, S
    <3> QED BY <2>1, OldestIsMember
  <2>3. j \in Jobs /\ rs[j].status \in Live
    BY <2>1, <2>2 DEF Eligible, Live
  <2>4. \A i \in Jobs : i # j => rows'[i] = rs[i]
    BY <1>3, <2>1 DEF Claim
  <2>5. \A i \in Jobs : rs[i].status \in Live => rows[i].status \in Live
    BY TerminatedNoNewLive
  <2> HIDE DEF rs, S, j
  <2> QED BY <2>3, <2>4, <2>5 DEF NoNewLive
<1>4. ASSUME NEW w \in Tasks, Mark(w) PROVE NoNewLive
  <2>1. rows[tasks[w].job].status = "running"
    BY <1>4 DEF Mark, Holds
  <2>2. \A i \in Jobs : i # tasks[w].job => rows'[i] = rows[i]
    BY <1>4, RowsOK DEF Mark
  <2> QED BY <2>1, <2>2 DEF NoNewLive, Live
<1>5. ASSUME NEW w \in Drainers, Prune(w) PROVE NoNewLive
  <2> DEFINE ts == Terminated(rows)
             rs == Capped(ts, NextEnded(rows))
  <2>1. \A j \in Jobs : Purged(ts[j], rs[j])
    <3>1. ts \in [Jobs -> Row] /\ NextEnded(rows) \in Nat
      BY TerminatedOK, RowsOK, NextValues
    <3> HIDE DEF ts
    <3> QED BY <3>1, CappedRows
  <2>2. \A j \in Jobs : ts[j].status \in Live => rows[j].status \in Live
    BY TerminatedNoNewLive
  <2>3. \A j \in Jobs : rows'[j] \in {NoRow, rs[j]}
    BY <1>5 DEF Prune
  <2> HIDE DEF ts, rs
  <2> QED BY <2>1, <2>2, <2>3, NoRowType DEF NoNewLive, Purged, Live
<1>6. CASE Tick
  <2>1. \A r \in Row : Older(r).status = r.status
    BY DEF Older, Row
  <2>2. \A j \in Jobs : rows'[j].status = rows[j].status
    BY <1>6, <2>1, RowsOK DEF Tick
  <2> QED BY <2>2 DEF NoNewLive
<1>7. CASE \E w \in TurnTasks : TurnStep(w) \/ DirectIngest(w)
  BY <1>1, <1>2, <1>7 DEF TurnStep, DirectIngest, EnqueueDuplicate, EnqueueFails
<1>8. CASE \E w \in Drainers : Wake(w) \/ Prune(w) \/ PruneFails(w)
  BY <1>1, <1>5, <1>8 DEF Wake, PruneFails
<1>9. CASE \E w \in Tasks : RunStep(w)
  BY <1>1, <1>2, <1>3, <1>4, <1>9 DEF RunStep, ClaimNothing, ClaimFails, Ingest, MarkDropped, Crash
<1>10. CASE UNCHANGED vars
  BY <1>1, <1>10 DEF vars
<1> QED BY <1>6, <1>7, <1>8, <1>9, <1>10 DEF Next

\* A user never has more live rows than the bound, whatever is enqueued, retried,
\* reclaimed or lost.
THEOREM LiveBoundTheorem == Spec => []LiveBound
<1>1. Init => LiveBound
  BY DEF Init, LiveBound
<1>2. IInv /\ LiveBound /\ [Next]_vars => LiveBound'
  <2> SUFFICES ASSUME IInv, LiveBound, [Next]_vars PROVE LiveBound'
    OBVIOUS
  <2>1. CASE NoNewLive
    <3>1. \A u \in Users : Cardinality(LiveJobs(rows', u)) <= MaxLive
      BY <2>1, LiveSubset DEF LiveBound, NoNewLive
    <3> QED BY <3>1 DEF LiveBound
  <2>2. CASE \E w \in TurnTasks, j \in Jobs : Enqueue(w, j)
    BY <2>2, EnqueueLiveBound
  <2> QED BY <2>1, <2>2, OthersNoNewLive
<1>3. Spec => []IInv
  BY LeasesTie, PTL DEF IInv
<1> QED BY <1>1, <1>2, <1>3, PTL DEF Spec

-----------------------------------------------------------------------------
(* What a step may do to a row *)

\* The edges of a row's life: a row is written once, waits, is run under a lease
\* that had lapsed or was never given, and ends; a purge fails it only if it is
\* exhausted, and a prune may then delete it at once.
Edge(r, s, isIngested) ==
  \/ s = r \/ s = Older(r)
  \/ r.status = "absent" /\ s.status = "pending"
  \/ Eligible(r) /\ s.status = "running"
  \/ r.status = "running" /\ s.status = "pending"
  \/ r.status = "running" /\ s.status = "done" /\ isIngested
  \/ Exhausted(r) /\ s.status \in {"failed", "absent"}
  \/ r.status \in Terminal /\ s.status = "absent"

\* The purge of a table moves rows along edges.
LEMMA TerminatedEdges ==
  ASSUME IInv
  PROVE  \A j \in Jobs : \/ Terminated(rows)[j] = rows[j]
                         \/ Exhausted(rows[j]) /\ Terminated(rows)[j].status = "failed"
<1> DEFINE S == {j \in Jobs : Exhausted(rows[j])}
           at == NextEnded(rows)
<1>1. at \in Nat /\ rows \in [Jobs -> Row]
  BY NextValues, RowsOK
<1>2. S \in SUBSET Jobs /\ \A j \in S : rows[j].status \in Live
  BY DEF Exhausted
<1>3. Terminated(rows) = FailRows(rows, S, at)
  BY DEF Terminated
<1>4. \A j \in Jobs : Exhausted(rows[j]) <=> j \in S
  OBVIOUS
<1> HIDE DEF S, at
<1>5. /\ FailRows(rows, S, at) \in [Jobs -> Row]
      /\ \A j \in Jobs : Purged(rows[j], FailRows(rows, S, at)[j])
      /\ \A j \in Jobs : IF j \in S THEN FailRows(rows, S, at)[j].status = "failed"
                           ELSE FailRows(rows, S, at)[j] = rows[j]
  BY <1>1, <1>2, FailedRows
<1> QED BY <1>3, <1>4, <1>5

\* A queue within its bound has no row to give up: each live row has fewer newer
\* ones than the bound.
LEMMA NoOverflow ==
  ASSUME NEW rs \in [Jobs -> Row], \A u \in Users : Cardinality(LiveJobs(rs, u)) <= MaxLive
  PROVE  Overflow(rs) = {}
<1> SUFFICES ASSUME NEW j \in Jobs, rs[j].status \in Live
             PROVE  ~(Cardinality({k \in LiveJobs(rs, Owner[j]) : rs[k].rowid > rs[j].rowid})
                        >= MaxLive)
  BY DEF Overflow
<1> DEFINE L == LiveJobs(rs, Owner[j])
           N == {k \in L : rs[k].rowid > rs[j].rowid}
<1>1. L \in SUBSET Jobs /\ j \in L
  BY DEF LiveJobs
<1>2. IsFiniteSet(L) /\ Cardinality(L) \in Nat
  BY <1>1, FS_Subset, FS_CardinalityType
<1>3. j \notin N
  <2>1. rs[j].rowid \in Nat
    BY DEF Row
  <2>2. ~(rs[j].rowid > rs[j].rowid)
    BY <2>1
  <2> QED BY <2>2
<1>4. Cardinality(L) <= MaxLive
  BY DEF Users
<1>5. N \in SUBSET (L \ {j})
  BY <1>3
<1> HIDE DEF L, N
<1>6. IsFiniteSet(L \ {j}) /\ Cardinality(L \ {j}) = Cardinality(L) - 1
  BY <1>1, <1>2, FS_RemoveElement
<1>7. Cardinality(N) <= Cardinality(L \ {j}) /\ Cardinality(N) \in Nat
  BY <1>5, <1>6, FS_Subset, FS_CardinalityType
<1>8. ~(Cardinality(N) >= MaxLive)
  BY <1>2, <1>4, <1>6, <1>7, Bounds
<1> QED BY <1>8 DEF N, L

LEMMA StepsAreEdges ==
  ASSUME IInv, LiveBound, [Next]_vars
  PROVE  \A j \in Jobs : Edge(rows[j], rows'[j], j \in ingested)
<1> DEFINE Goal == \A j \in Jobs : Edge(rows[j], rows'[j], j \in ingested)
           rs == Terminated(rows)
<1> SUFFICES Goal
  OBVIOUS
<1>1. CASE rows' = rows
  BY <1>1 DEF Edge
<1>2. \A j \in Jobs : \/ rs[j] = rows[j]
                      \/ Exhausted(rows[j]) /\ rs[j].status = "failed"
  BY TerminatedEdges
<1>3. rs \in [Jobs -> Row]
  BY TerminatedOK
<1>4. CASE rows' = rs
  BY <1>2, <1>4 DEF Edge
<1>5. ASSUME NEW w \in TurnTasks, NEW j \in Jobs, Enqueue(w, j) PROVE Goal
  <2> DEFINE new == [NoRow EXCEPT !.status = "pending", !.body = TRUE, !.rowid = NextRowid(rs)]
  <2>1. rows[j].status = "absent" /\ rows' = [rs EXCEPT ![j] = new]
    BY <1>5 DEF Enqueue
  <2>2. new.status = "pending"
    BY DEF NoRow
  <2> HIDE DEF new, rs
  <2> QED BY <1>2, <1>3, <2>1, <2>2 DEF Edge
<1>6. ASSUME NEW w \in Tasks, Claim(w) PROVE Goal
  <2> DEFINE S == MayClaim(rs, w)
             j == Oldest(rs, S)
             r == [rs[j] EXCEPT !.status = "running", !.attempts = rs[j].attempts + 1,
                                !.token = FreshToken, !.lease = Lease]
  <2>1. S \in SUBSET Jobs /\ S # {} /\ \A i \in S : Eligible(rs[i])
    BY <1>6 DEF Claim, MayClaim
  <2>2. j \in Jobs /\ Eligible(rs[j])
    <3> HIDE DEF rs, S
    <3> QED BY <1>3, <2>1, OldestIsMember
  <2>3. rows' = [rs EXCEPT ![j] = r]
    BY <1>3, <1>6, <2>2 DEF Claim
  <2>4. r.status = "running"
    BY <1>3, <2>2 DEF Row
  <2>5. rs[j] = rows[j]
    BY <1>2, <2>2 DEF Eligible
  <2> HIDE DEF rs, S, j, r
  <2> QED BY <1>2, <1>3, <2>2, <2>3, <2>4, <2>5 DEF Edge
<1>7. ASSUME NEW w \in Tasks, Mark(w) PROVE Goal
  <2> DEFINE j == tasks[w].job
             r == MarkedRow(rows[j], tasks[w])
  <2>1. tasks[w].pc = "mark" /\ rows[j].status = "running" /\ rows[j].token = tasks[w].token
    BY <1>7 DEF Mark, Holds
  <2>2. tasks[w].token \in Tokens /\ j \in Jobs
    BY <2>1 DEF IInv, LeaseInv, TasksConsistent
  <2>3. tasks[w].attempts = rows[j].attempts /\ (tasks[w].ok => j \in ingested)
    <3>1. rows[j].token # NoToken
      BY <2>1, <2>2
    <3> QED BY <2>1, <2>2, <3>1 DEF IInv, LeaseInv, TokensTie
  <2>4. rows' = [rows EXCEPT ![j] = r] /\ rows \in [Jobs -> Row]
    BY <1>7, RowsOK DEF Mark
  <2>5. rows[j] \in Row /\ NextEnded(rows) \in Nat
    BY <2>2, RowsOK, NextValues
  <2>6. \/ r.status = "done" /\ j \in ingested
        \/ r.status = "failed" /\ Exhausted(rows[j])
        \/ r.status = "pending"
    BY <2>1, <2>3, <2>5 DEF MarkedRow, Closed, Row, Exhausted, Live
  <2> HIDE DEF j, r
  <2> QED BY <2>1, <2>2, <2>4, <2>6 DEF Edge
<1>8. ASSUME NEW w \in Drainers, Prune(w) PROVE Goal
  <2>1. \A u \in Users : Cardinality(LiveJobs(rs, u)) <= MaxLive
    BY TerminatedNoNewLive, LiveSubset DEF LiveBound
  <2>2. Overflow(rs) = {}
    BY <1>3, <2>1, NoOverflow
  <2>3. Capped(rs, NextEnded(rows)) = rs
    BY <1>3, <2>2 DEF Capped, FailRows
  <2>4. rows' = [j \in Jobs |-> IF j \in Deletable(rs) THEN NoRow ELSE rs[j]]
    BY <1>8, <2>3 DEF Prune
  <2>5. \A j \in Deletable(rs) : rs[j].status \in Terminal
    BY DEF Deletable
  <2> HIDE DEF rs
  <2> QED BY <1>2, <2>4, <2>5, NoRowType DEF Edge, Terminal, Exhausted, Live
<1>9. CASE Tick
  BY <1>9 DEF Tick, Edge
<1>10. CASE \E w \in TurnTasks : TurnStep(w) \/ DirectIngest(w)
  BY <1>1, <1>4, <1>5, <1>10 DEF TurnStep, DirectIngest, EnqueueDuplicate, EnqueueFails
<1>11. CASE \E w \in Drainers : Wake(w) \/ Prune(w) \/ PruneFails(w)
  BY <1>1, <1>8, <1>11 DEF Wake, PruneFails
<1>12. CASE \E w \in Tasks : RunStep(w)
  BY <1>1, <1>4, <1>6, <1>7, <1>12 DEF RunStep, ClaimNothing, ClaimFails, Ingest, MarkDropped,
                                       Crash
<1>13. CASE UNCHANGED vars
  BY <1>1, <1>13 DEF vars
<1> QED BY <1>9, <1>10, <1>11, <1>12, <1>13 DEF Next

LEMMA Always == Spec => [](IInv /\ LiveBound)
<1>1. Spec => []IInv
  BY LeasesTie, PTL DEF IInv
<1> QED BY <1>1, LiveBoundTheorem, PTL

\* No task takes a row over while the lease of another one lasts.
THEOREM LeaseRespectedTheorem == Spec => LeaseRespected
<1> DEFINE Keeps == \A j \in Jobs :
                      rows[j].status = "running" /\ rows[j].lease > 0 /\ rows'[j].status = "running"
                        => rows'[j].token = rows[j].token
<1>1. IInv /\ LiveBound /\ [Next]_vars => [Keeps]_vars
  <2> SUFFICES ASSUME IInv, LiveBound, [Next]_vars, NEW j \in Jobs,
                      rows[j].status = "running", rows[j].lease > 0, rows'[j].status = "running"
               PROVE  rows'[j].token = rows[j].token
    OBVIOUS
  <2>1. Edge(rows[j], rows'[j], j \in ingested)
    BY StepsAreEdges
  <2>2. rows[j] \in Row
    BY RowsOK
  <2>3. Older(rows[j]).token = rows[j].token
    BY <2>2 DEF Older, Row
  <2> QED BY <2>1, <2>2, <2>3 DEF Edge, Eligible, Terminal, Row
<1> QED BY <1>1, Always, PTL DEF Spec, LeaseRespected

\* A turn is given up only with its attempts used or its age reached; the bound
\* that prune puts on the queue never gives one up.
THEOREM FailedForCauseTheorem == Spec => FailedForCause
<1> DEFINE Keeps == \A j \in Jobs :
                      rows[j].status \in Live /\ rows'[j].status = "failed"
                        => rows[j].attempts >= MaxAttempts \/ rows[j].age >= MaxAge
<1>1. IInv /\ LiveBound /\ [Next]_vars => [Keeps]_vars
  <2> SUFFICES ASSUME IInv, LiveBound, [Next]_vars, NEW j \in Jobs,
                      rows[j].status \in Live, rows'[j].status = "failed"
               PROVE  rows[j].attempts >= MaxAttempts \/ rows[j].age >= MaxAge
    OBVIOUS
  <2>1. Edge(rows[j], rows'[j], j \in ingested)
    BY StepsAreEdges
  <2>2. rows[j] \in Row
    BY RowsOK
  <2>3. Older(rows[j]).status = rows[j].status
    BY <2>2 DEF Older, Row
  <2> QED BY <2>1, <2>3 DEF Edge, Exhausted, Live, Terminal
<1> QED BY <1>1, Always, PTL DEF Spec, FailedForCause

-----------------------------------------------------------------------------
(* The contract *)

\* Edges of a row are moves of its turn.
LEMMA EdgesAreMoves ==
  ASSUME NEW r \in Row, NEW s \in Row, NEW isIngested \in BOOLEAN, Edge(r, s, isIngested)
  PROVE  /\ <<Phase(r), Phase(s)>> \in Contract!Moves \cup Contract!Dropped
         /\ Phase(r) = "live" /\ Phase(s) = "done" => isIngested
<1>1. Older(r).status = r.status
  BY DEF Older, Row
<1>2. \A x \in Row : /\ x.status = "absent" <=> Phase(x) = "absent"
                     /\ x.status \in Live <=> Phase(x) = "live"
                     /\ x.status = "done" <=> Phase(x) = "done"
                     /\ x.status = "failed" <=> Phase(x) = "failed"
                     /\ Phase(x) \in Contract!Phases
  BY DEF Phase, Row, Live, Terminal, Contract!Phases
<1>3. Phase(s) = Phase(r) \/ <<Phase(r), Phase(s)>> \in
        {<<"absent", "live">>, <<"live", "live">>, <<"live", "done">>, <<"live", "failed">>,
         <<"live", "absent">>, <<"done", "absent">>, <<"failed", "absent">>}
  BY <1>1, <1>2 DEF Edge, Eligible, Exhausted, Live, Terminal, Phase
<1>4. <<Phase(r), Phase(s)>> \in Contract!Moves \cup Contract!Dropped
  BY <1>2, <1>3 DEF Contract!Moves, Contract!Dropped, Contract!Phases
<1>5. Phase(r) = "live" /\ Phase(s) = "done" => isIngested
  BY <1>1, <1>2 DEF Edge, Eligible, Exhausted, Live, Terminal
<1> QED BY <1>4, <1>5

\* An ingest is forgotten only when its turn is accepted anew.
LEMMA IngestedSteps ==
  ASSUME IInv, [Next]_vars
  PROVE  \/ rows' = rows /\ \E j \in Jobs : ingested' = ingested \cup {j}
         \/ ingested' = ingested /\ \A j \in Jobs : rows'[j].status \in Live => rows[j].status \in Live
         \/ \E j \in Jobs : /\ ingested' = ingested \ {j}
                            /\ rows[j].status = "absent" /\ rows'[j].status \in Live
                            /\ \A k \in Jobs \ {j} : rows'[k].status \in Live => rows[k].status \in Live
<1>1. ASSUME NEW w \in Tasks, NEW ok \in BOOLEAN, Ingest(w, ok)
      PROVE  rows' = rows /\ (ingested' = ingested \/ \E j \in Jobs : ingested' = ingested \cup {j})
  <2>1. tasks[w].job \in Jobs
    BY <1>1 DEF Ingest, IInv, LeaseInv, TasksConsistent
  <2> QED BY <1>1, <2>1 DEF Ingest
<1>2. ASSUME NEW w \in TurnTasks, NEW j \in Jobs, Enqueue(w, j)
      PROVE  /\ ingested' = ingested \ {j}
             /\ rows[j].status = "absent" /\ rows'[j].status \in Live
             /\ \A k \in Jobs \ {j} : rows'[k].status \in Live => rows[k].status \in Live
  <2> DEFINE rs == Terminated(rows)
             new == [NoRow EXCEPT !.status = "pending", !.body = TRUE, !.rowid = NextRowid(rs)]
  <2>1. rs \in [Jobs -> Row] /\ new.status \in Live
    BY TerminatedOK DEF NoRow, Live
  <2>2. rows' = [rs EXCEPT ![j] = new] /\ rows[j].status = "absent" /\ ingested' = ingested \ {j}
    BY <1>2 DEF Enqueue
  <2>3. \A k \in Jobs : rs[k].status \in Live => rows[k].status \in Live
    BY TerminatedNoNewLive
  <2> HIDE DEF rs, new
  <2> QED BY <2>1, <2>2, <2>3
<1>3. CASE \E w \in Tasks, ok \in BOOLEAN : Ingest(w, ok)
  BY <1>1, <1>3
<1>4. CASE \E w \in TurnTasks, j \in Jobs : Enqueue(w, j)
  BY <1>2, <1>4
<1>5. CASE /\ ~\E w \in Tasks, ok \in BOOLEAN : Ingest(w, ok)
           /\ ~\E w \in TurnTasks, j \in Jobs : Enqueue(w, j)
  <2>1. NoNewLive
    BY <1>5, OthersNoNewLive
  <2>2. ingested' = ingested
    BY <1>5 DEF Next, TurnStep, RunStep, EnqueueDuplicate, EnqueueFails, DirectIngest, Wake,
       Prune, PruneFails, Claim, ClaimNothing, ClaimFails, Mark, MarkDropped, Crash, Tick, vars
  <2> QED BY <2>1, <2>2 DEF NoNewLive
<1> QED BY <1>3, <1>4, <1>5

\* The outbox implements the contract: whatever its tasks, leases, retries and
\* crashes do, each turn only moves as the contract says.
THEOREM ImplementsContract == Spec => ContractSpec
<1> DEFINE phase == [j \in Jobs |-> Phase(rows[j])]
<1>1. Init => Contract!Init
  <2> SUFFICES ASSUME Init PROVE Contract!Init
    OBVIOUS
  <2>1. \A j \in Jobs : Phase(rows[j]) \in {"absent", "live"}
    <3> TAKE j \in Jobs
    <3>1. CASE rows[j] = NoRow
      BY <3>1, NoRowType DEF Phase, Live
    <3>2. CASE rows[j] \in UpgradeRows(j)
      <4>1. PICK s \in Live, a \in 0..(MaxAttempts - 1) : rows[j] = UpgradeRow(j, s, a)
        BY <3>2 DEF UpgradeRows
      <4> QED BY <4>1, UpgradeRowType DEF Phase
    <3> QED BY <3>1, <3>2 DEF Init
  <2> QED BY <2>1 DEF Init, Contract!Init
<1>2. IInv /\ IInv' /\ LiveBound /\ [Next]_vars => [Contract!Next]_(Contract!vars)
  <2> SUFFICES ASSUME IInv, IInv', LiveBound, [Next]_vars
               PROVE  Contract!Next \/ UNCHANGED <<phase, ingested>>
    BY DEF Contract!vars
  <2>1. \A j \in Jobs : rows[j] \in Row /\ rows'[j] \in Row
    BY DEF IInv, TypeOK
  <2>2. \A j \in Jobs : /\ <<Phase(rows[j]), Phase(rows'[j])>> \in Contract!Moves \cup Contract!Dropped
                        /\ Phase(rows[j]) = "live" /\ Phase(rows'[j]) = "done" => j \in ingested
    <3> TAKE j \in Jobs
    <3>1. Edge(rows[j], rows'[j], j \in ingested)
      BY StepsAreEdges
    <3>2. (j \in ingested) \in BOOLEAN
      OBVIOUS
    <3> QED BY <2>1, <3>1, <3>2, EdgesAreMoves
  <2>3. \A j \in Jobs : /\ rows[j].status = "absent" <=> Phase(rows[j]) = "absent"
                        /\ rows[j].status \in Live <=> Phase(rows[j]) = "live"
                        /\ rows'[j].status \in Live <=> Phase(rows'[j]) = "live"
                        /\ Phase(rows'[j]) \in Contract!Phases
    BY <2>1 DEF Phase, Row, Live, Terminal, Contract!Phases
  <2>4. phase' = [j \in Jobs |-> Phase(rows'[j])]
    BY DEF Phase
  <2>5. CASE rows' = rows /\ \E j \in Jobs : ingested' = ingested \cup {j}
    <3>1. phase' = phase
      BY <2>4, <2>5
    <3> QED BY <2>5, <3>1 DEF Contract!Next, Contract!Ingest
  <2>6. ASSUME ingested' = ingested \ {j \in Jobs : phase[j] = "absent" /\ phase'[j] = "live"}
        PROVE  Contract!Next
    <3>1. phase' \in [Jobs -> Contract!Phases]
      BY <2>3, <2>4
    <3>2. \A j \in Jobs : /\ <<phase[j], phase'[j]>> \in Contract!Moves \cup Contract!Dropped
                          /\ phase[j] = "live" /\ phase'[j] = "done" => j \in ingested
      BY <2>2, <2>4
    <3>3. Contract!Settle
      BY <2>6, <3>1, <3>2 DEF Contract!Settle
    <3> QED BY <3>3 DEF Contract!Next
  <2>7. CASE /\ ingested' = ingested
             /\ \A j \in Jobs : rows'[j].status \in Live => rows[j].status \in Live
    <3>1. {j \in Jobs : phase[j] = "absent" /\ phase'[j] = "live"} = {}
      BY <2>3, <2>4, <2>7
    <3> QED BY <2>6, <2>7, <3>1
  <2>8. CASE \E j \in Jobs : /\ ingested' = ingested \ {j}
                             /\ rows[j].status = "absent" /\ rows'[j].status \in Live
                             /\ \A k \in Jobs \ {j} : rows'[k].status \in Live => rows[k].status \in Live
    <3>1. PICK j \in Jobs : /\ ingested' = ingested \ {j}
                            /\ rows[j].status = "absent" /\ rows'[j].status \in Live
                            /\ \A k \in Jobs \ {j} : rows'[k].status \in Live => rows[k].status \in Live
      BY <2>8
    <3>2. {k \in Jobs : phase[k] = "absent" /\ phase'[k] = "live"} = {j}
      BY <2>3, <2>4, <3>1
    <3> QED BY <2>6, <3>1, <3>2
  <2> QED BY <2>5, <2>7, <2>8, IngestedSteps
<1> QED BY <1>1, <1>2, Always, PTL DEF Spec, ContractSpec, Contract!Spec

=============================================================================
