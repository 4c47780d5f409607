----------------------------- MODULE ChatFinalize -----------------------------
(***************************************************************************)
(* The durable outbox of the chat gateway: after a chat turn is answered,  *)
(* its memory extraction ("ingest") is written to chat_finalize_jobs and   *)
(* run under a lease, by the request's own background task or, after a     *)
(* crash or a retryable failure, by the periodic drainer.                  *)
(*                                                                         *)
(* Every SQLite transaction (BEGIN IMMEDIATE) is one action; the ingest    *)
(* itself, which awaits models, is an action of its own between claim and  *)
(* mark.  Times are kept relative to now: a row carries its age and what   *)
(* is left of its lease.                                                   *)
(***************************************************************************)
EXTENDS Naturals, FiniteSets

CONSTANTS
  Jobs,          \* job ids: one per (user, turn, answer)
  Owner,         \* the user of each job
  TurnTasks,     \* background tasks of chat requests, of any process
  Drainers,      \* chat_finalize_outbox_drainer tasks, one per process
  Tokens,        \* lease tokens (uuid4)
  NoToken,       \* SQL NULL
  AnyJob,        \* the job_id None of a drainer's claim
  MaxAttempts,   \* CHAT_FINALIZE_MAX_ATTEMPTS
  MaxLive,       \* CHAT_FINALIZE_MAX_NONTERMINAL_PER_USER
  MaxAge,        \* CHAT_FINALIZE_MAX_AGE_SECONDS
  Lease,         \* CHAT_FINALIZE_LEASE_SECONDS
  KeepTerminal,  \* keep_per_user of prune_chat_finalize_jobs
  BatchLimit,    \* batch_limit of the drainer
  MaxTurns       \* bound of the model: turns finalized in a behaviour

ASSUME JobsAssumption ==
  Jobs \subseteq Nat /\ Jobs # {} /\ IsFiniteSet(Jobs) /\ AnyJob \notin Jobs
ASSUME TasksAssumption == TurnTasks \cap Drainers = {}
ASSUME TokensAssumption ==
  /\ NoToken \notin Tokens /\ IsFiniteSet(Tokens)
  /\ Cardinality(Tokens) >= Cardinality(Jobs) + Cardinality(TurnTasks \cup Drainers)
ASSUME BoundsAssumption ==
  /\ {MaxAttempts, MaxLive, MaxAge, Lease, KeepTerminal, BatchLimit} \subseteq Nat \ {0}
  /\ MaxTurns \in Nat

VARIABLES
  rows,      \* the table chat_finalize_jobs
  tasks,     \* what each running task remembers; lost when it dies
  ingested,  \* history: rows whose ingest has completed since they were written
  turns      \* turns finalized so far

vars == <<rows, tasks, ingested, turns>>

Tasks == TurnTasks \cup Drainers
Users == {Owner[j] : j \in Jobs}

Live == {"pending", "running"}
Terminal == {"done", "failed"}

Row == [status: {"absent"} \cup Live \cup Terminal, body: BOOLEAN,
        attempts: Nat, token: Tokens \cup {NoToken}, lease: 0..Lease,
        age: 0..MaxAge, rowid: Nat, ended: Nat]

NoRow == [status |-> "absent", body |-> FALSE, attempts |-> 0, token |-> NoToken,
          lease |-> 0, age |-> 0, rowid |-> 0, ended |-> 0]

Task == [pc: {"idle", "claim", "ingest", "mark", "direct", "prune"},
         job: Jobs \cup {AnyJob}, token: Tokens \cup {NoToken}, attempts: Nat,
         ok: BOOLEAN, tried: SUBSET Jobs]

Idle == [pc |-> "idle", job |-> AnyJob, token |-> NoToken, attempts |-> 0,
         ok |-> FALSE, tried |-> {}]

-----------------------------------------------------------------------------
(* The table *)

\* The next value of a column that grows: MAX(rowid) + 1, or a later updated_at.
Above(S) == CHOOSE n \in {m + 1 : m \in S} : \A m \in S : m < n

NextRowid(rs) == Above({rs[j].rowid : j \in Jobs})
NextEnded(rs) == Above({rs[j].ended : j \in Jobs})

LiveJobs(rs, u) == {j \in Jobs : Owner[j] = u /\ rs[j].status \in Live}
EndedJobs(rs, u) == {j \in Jobs : Owner[j] = u /\ rs[j].status \in Terminal}

\* A row made terminal drops the copied turn and its lease.
Closed(r, status, at) ==
  [r EXCEPT !.status = status, !.body = FALSE, !.token = NoToken,
            !.lease = 0, !.age = 0, !.ended = at]

Exhausted(r) ==
  r.status \in Live /\ (r.attempts >= MaxAttempts \/ r.age >= MaxAge)

FailRows(rs, S, at) ==
  [j \in Jobs |-> IF j \in S THEN Closed(rs[j], "failed", at) ELSE rs[j]]

Terminated(rs) == FailRows(rs, {j \in Jobs : Exhausted(rs[j])}, NextEnded(rs))

\* Slip: off by one, the queue bound fails a row of a queue that is just full.
OverflowEarly(rs) ==
  {j \in Jobs : /\ rs[j].status \in Live
                /\ Cardinality({k \in LiveJobs(rs, Owner[j]) :
                                  rs[k].rowid > rs[j].rowid}) >= MaxLive - 1}

Overflow(rs) ==
  {j \in Jobs : /\ rs[j].status \in Live
                /\ Cardinality({k \in LiveJobs(rs, Owner[j]) :
                                  rs[k].rowid > rs[j].rowid}) >= MaxLive}

Capped(rs, at) == FailRows(rs, Overflow(rs), at)

Newer(rs, j, k) ==
  rs[j].ended > rs[k].ended \/ (rs[j].ended = rs[k].ended /\ j > k)

Deletable(rs) ==
  {j \in Jobs : /\ rs[j].status \in Terminal
                /\ Cardinality({k \in EndedJobs(rs, Owner[j]) :
                                  Newer(rs, k, j)}) >= KeepTerminal}

\* Slip: a running row is claimed whatever is left of its lease.
EligibleRunning(r) == r.status \in Live

\* Pending, or running on an expired lease.  A row left running by a version
\* without leases has no token and ages the same way from its updated_at.
Eligible(r) == r.status = "pending" \/ (r.status = "running" /\ r.lease = 0)

Oldest(rs, S) == CHOOSE j \in S : \A k \in S : rs[j].rowid <= rs[k].rowid

-----------------------------------------------------------------------------
(* Tasks *)

HeldTokens == {tasks[w].token : w \in Tasks} \cup {rows[j].token : j \in Jobs}
FreshTokens == Tokens \ HeldTokens

\* A uuid4 is none of the tokens anybody still remembers.
FreshToken == CHOOSE t \in FreshTokens : TRUE

\* What a task goes on with after _run_ingest_finalize_job returned: a request
\* ends; the drainer goes round, with the job excluded, or stops at its limit.
After(w, tried) ==
  IF w \in TurnTasks THEN Idle
  ELSE [Idle EXCEPT !.pc = IF Cardinality(tried) < BatchLimit THEN "claim" ELSE "prune",
                    !.tried = tried]

\* ... and after it returned None.
AfterNone(w) == IF w \in TurnTasks THEN Idle ELSE [Idle EXCEPT !.pc = "prune"]

MayClaim(rs, w) ==
  {j \in Jobs : /\ Eligible(rs[j])
                /\ tasks[w].job \in {AnyJob, j}
                /\ j \notin tasks[w].tried}

\* Slips: the compare-and-swap forgets the token, or the status as well.
HoldsByStatus(w, j) == rows[j].status = "running"
Holds(w, j) == rows[j].status = "running" /\ rows[j].token = tasks[w].token

-----------------------------------------------------------------------------
\* A live row that the migration to leases finds and leaves: it fails those that
\* are exhausted or beyond the queue bound, and knows no lease of the others.
UpgradeRow(j, status, attempts) ==
  [NoRow EXCEPT !.status = status, !.body = TRUE, !.attempts = attempts,
                !.lease = IF status = "running" THEN Lease ELSE 0, !.rowid = j]

UpgradeRows(j) == {UpgradeRow(j, s, a) : s \in Live, a \in 0..(MaxAttempts - 1)}

Init ==
  /\ rows \in [Jobs -> {NoRow} \cup UNION {UpgradeRows(j) : j \in Jobs}]
  /\ \A j \in Jobs : rows[j] \in {NoRow} \cup UpgradeRows(j)
  /\ \A u \in Users : Cardinality(LiveJobs(rows, u)) <= MaxLive
  /\ tasks = [w \in Tasks |-> Idle]
  /\ ingested = {}
  /\ turns = 0

StartTurn(w) ==
  /\ tasks[w].pc = "idle"
  /\ turns < MaxTurns
  /\ turns' = turns + 1

ClaimOwn(w, j) ==
  tasks' = [tasks EXCEPT ![w] = [Idle EXCEPT !.pc = "claim", !.job = j]]

\* Slip: the queue bound is tested with <=.
EnqueueOneMore(w, j) ==
  LET rs == Terminated(rows) IN
  /\ StartTurn(w)
  /\ rows[j].status = "absent"
  /\ Cardinality(LiveJobs(rs, Owner[j])) <= MaxLive
  /\ rows' = [rs EXCEPT ![j] = [NoRow EXCEPT !.status = "pending", !.body = TRUE,
                                             !.rowid = NextRowid(rs)]]
  /\ ClaimOwn(w, j)
  /\ ingested' = ingested \ {j}

Enqueue(w, j) ==
  LET rs == Terminated(rows) IN
  /\ StartTurn(w)
  /\ rows[j].status = "absent"
  /\ Cardinality(LiveJobs(rs, Owner[j])) < MaxLive
  /\ rows' = [rs EXCEPT ![j] = [NoRow EXCEPT !.status = "pending", !.body = TRUE,
                                             !.rowid = NextRowid(rs)]]
  /\ ClaimOwn(w, j)
  /\ ingested' = ingested \ {j}

\* Slip: a retried request puts its settled row back in the queue.
EnqueueRevives(w, j) ==
  /\ StartTurn(w)
  /\ rows[j].status # "absent"
  /\ rows' = [Terminated(rows) EXCEPT ![j].status = "pending"]
  /\ ClaimOwn(w, j)
  /\ UNCHANGED ingested

\* A retried request finds its row, and runs the job if it is still to be run.
EnqueueDuplicate(w, j) ==
  /\ StartTurn(w)
  /\ rows[j].status # "absent"
  /\ rows' = Terminated(rows)
  /\ ClaimOwn(w, j)
  /\ UNCHANGED ingested

\* The queue is full, or SQLite failed: the transaction is rolled back, the
\* terminations included, and the turn is ingested once without a row.
EnqueueFails(w, j) ==
  /\ StartTurn(w)
  /\ tasks' = [tasks EXCEPT ![w] = [Idle EXCEPT !.pc = "direct", !.job = j]]
  /\ UNCHANGED <<rows, ingested>>

DirectIngest(w) ==
  /\ tasks[w].pc = "direct"
  /\ tasks' = [tasks EXCEPT ![w] = Idle]
  /\ UNCHANGED <<rows, ingested, turns>>

Wake(w) ==
  /\ tasks[w].pc = "idle"
  /\ tasks' = [tasks EXCEPT ![w] = [Idle EXCEPT !.pc = "claim"]]
  /\ UNCHANGED <<rows, ingested, turns>>

Claim(w) ==
  LET rs == Terminated(rows)
      j == Oldest(rs, MayClaim(rs, w))
      attempts == rs[j].attempts + 1
      t == FreshToken
  IN
  /\ tasks[w].pc = "claim"
  /\ MayClaim(rs, w) # {} /\ FreshTokens # {}
  /\ rows' = [rs EXCEPT ![j] = [@ EXCEPT !.status = "running", !.attempts = attempts,
                                         !.token = t, !.lease = Lease]]
  /\ tasks' = [tasks EXCEPT ![w] = [@ EXCEPT !.pc = "ingest", !.job = j, !.token = t,
                                             !.attempts = attempts]]
  /\ UNCHANGED <<ingested, turns>>

\* Slip: with nothing to claim the transaction is rolled back, purge included.
ClaimNothingRollsBack(w) ==
  /\ tasks[w].pc = "claim"
  /\ MayClaim(Terminated(rows), w) = {}
  /\ tasks' = [tasks EXCEPT ![w] = AfterNone(w)]
  /\ UNCHANGED <<rows, ingested, turns>>

ClaimNothing(w) ==
  LET rs == Terminated(rows) IN
  /\ tasks[w].pc = "claim"
  /\ MayClaim(rs, w) = {}
  /\ rows' = rs
  /\ tasks' = [tasks EXCEPT ![w] = AfterNone(w)]
  /\ UNCHANGED <<ingested, turns>>

ClaimFails(w) ==
  /\ tasks[w].pc = "claim"
  /\ tasks' = [tasks EXCEPT ![w] = AfterNone(w)]
  /\ UNCHANGED <<rows, ingested, turns>>

\* The ingest completes, or it raises or returns a retryable result.
Ingest(w, ok) ==
  /\ tasks[w].pc = "ingest"
  /\ tasks' = [tasks EXCEPT ![w].pc = "mark", ![w].ok = ok]
  /\ ingested' = IF ok THEN ingested \cup {tasks[w].job} ELSE ingested
  /\ UNCHANGED <<rows, turns>>

\* Slips: a retryable result counts as done; the last attempt is counted with >.
MarkedRowDone(r, task) == Closed(r, "done", NextEnded(rows))
MarkedRow(r, task) ==
  IF task.ok THEN Closed(r, "done", NextEnded(rows))
  ELSE IF task.attempts >= MaxAttempts THEN Closed(r, "failed", NextEnded(rows))
  ELSE [r EXCEPT !.status = "pending", !.token = NoToken, !.lease = 0]

Mark(w) ==
  LET j == tasks[w].job IN
  /\ tasks[w].pc = "mark"
  /\ Holds(w, j)
  /\ rows' = [rows EXCEPT ![j] = MarkedRow(@, tasks[w])]
  /\ tasks' = [tasks EXCEPT ![w] = After(w, @.tried \cup {j})]
  /\ UNCHANGED <<ingested, turns>>

\* The lease was replaced and the compare-and-swap changes nothing, or the
\* write fails and the row stays running until its lease expires.
MarkDropped(w) ==
  /\ tasks[w].pc = "mark"
  /\ tasks' = [tasks EXCEPT ![w] = After(w, @.tried \cup {@.job})]
  /\ UNCHANGED <<rows, ingested, turns>>

Prune(w) ==
  LET rs == Capped(Terminated(rows), NextEnded(rows)) IN
  /\ tasks[w].pc = "prune"
  /\ rows' = [j \in Jobs |-> IF j \in Deletable(rs) THEN NoRow ELSE rs[j]]
  /\ tasks' = [tasks EXCEPT ![w] = Idle]
  /\ UNCHANGED <<ingested, turns>>

PruneFails(w) ==
  /\ tasks[w].pc = "prune"
  /\ tasks' = [tasks EXCEPT ![w] = Idle]
  /\ UNCHANGED <<rows, ingested, turns>>

\* The task is cancelled or its process dies; the table survives.
Crash(w) ==
  /\ tasks[w].pc # "idle"
  /\ tasks' = [tasks EXCEPT ![w] = Idle]
  /\ UNCHANGED <<rows, ingested, turns>>

Older(r) ==
  IF r.status \in Live
  THEN [r EXCEPT !.age = IF @ < MaxAge THEN @ + 1 ELSE @,
                 !.lease = IF @ > 0 THEN @ - 1 ELSE 0]
  ELSE r

Tick ==
  /\ rows' = [j \in Jobs |-> Older(rows[j])]
  /\ UNCHANGED <<tasks, ingested, turns>>

TurnStep(w) == \E j \in Jobs : Enqueue(w, j) \/ EnqueueDuplicate(w, j) \/ EnqueueFails(w, j)

RunStep(w) ==
  \/ Claim(w) \/ ClaimNothing(w) \/ ClaimFails(w)
  \/ \E ok \in BOOLEAN : Ingest(w, ok)
  \/ Mark(w) \/ MarkDropped(w)
  \/ Crash(w)

Next ==
  \/ \E w \in TurnTasks : TurnStep(w) \/ DirectIngest(w)
  \/ \E w \in Drainers : Wake(w) \/ Prune(w) \/ PruneFails(w)
  \/ \E w \in Tasks : RunStep(w)
  \/ Tick

Spec == Init /\ [][Next]_vars

-----------------------------------------------------------------------------
(* The drainer's loop catches every exception and is started again with its
   process, so it wakes for ever, and SQLite does not refuse it for ever; an
   ingest has timeouts, so it returns; the clock advances. *)
ClaimTransaction(w) == Claim(w) \/ ClaimNothing(w)

Fairness ==
  /\ WF_vars(Tick)
  /\ \A w \in Drainers :
       /\ WF_vars(Wake(w))
       /\ SF_vars(ClaimTransaction(w))
       /\ WF_vars(\E ok \in BOOLEAN : Ingest(w, ok))
       /\ WF_vars(Mark(w) \/ MarkDropped(w))
       /\ WF_vars(Prune(w) \/ PruneFails(w))

FairSpec == Spec /\ Fairness

-----------------------------------------------------------------------------
(* Properties *)

\* Every variable has its type; rows and tasks have the fields of the table and
\* of the local variables of _run_ingest_finalize_job.
TypeOK ==
  /\ rows \in [Jobs -> Row]
  /\ tasks \in [Tasks -> Task]
  /\ ingested \subseteq Jobs
  /\ turns \in 0..MaxTurns

\* The per-user bound on live rows that enqueue enforces survives every
\* interleaving of enqueues, retries, reclaims and crashes, and a backlog that
\* an upgrade left behind.
LiveBound ==
  \A u \in Users : Cardinality(LiveJobs(rows, u)) <= MaxLive

\* The copied chat turn is in the table exactly while the row can still be run:
\* a terminal row has dropped it, and a live row has not lost it.
BodyOnlyWhileLive ==
  \A j \in Jobs : rows[j].body <=> rows[j].status \in Live

\* However often a job is claimed, reclaimed after a lost lease, requeued and
\* raced, a row that waits to be run has an attempt left, so no row waits for
\* an attempt that claim will never make.
PendingHasAttemptLeft ==
  \A j \in Jobs : rows[j].status = "pending" => rows[j].attempts < MaxAttempts

\* Of all tasks that believe they are executing a job, at most one can write its
\* result, and what it remembers of the attempt number is the row's.
OneWriter ==
  \A j \in Jobs : \A v, w \in Tasks :
     LET canWrite(x) == /\ tasks[x].pc \in {"ingest", "mark"}
                        /\ tasks[x].job = j
                        /\ Holds(x, j)
     IN /\ canWrite(v) /\ canWrite(w) => v = w
        /\ canWrite(v) => tasks[v].attempts = rows[j].attempts

\* A row is done only if an ingest of that turn completed after the row was
\* written: no crash, lost lease or late result marks a turn that was not run.
DoneWasIngested ==
  \A j \in Jobs : rows[j].status = "done" => j \in ingested

\* The outcome of a job is final: a done or failed row is never changed by a
\* late result, a retry of the request or the drainer, only deleted by prune.
TerminalIsFinal ==
  [][\A j \in Jobs : rows[j].status \in Terminal => rows'[j] \in {rows[j], NoRow}]_vars

\* A lease that has not expired is never taken over by another task.
LeaseRespected ==
  [][\A j \in Jobs :
       rows[j].status = "running" /\ rows[j].lease > 0 /\ rows'[j].status = "running"
         => rows'[j].token = rows[j].token]_vars

\* A live row is given up only with its attempts used or its age reached: the
\* queue bound of prune never discards a turn that could still be run.
FailedForCause ==
  [][\A j \in Jobs :
       rows[j].status \in Live /\ rows'[j].status = "failed"
         => rows[j].attempts >= MaxAttempts \/ rows[j].age >= MaxAge]_vars

\* No accepted turn stays in the queue for ever, whatever crashes, fails or is
\* retried: it is ingested or given up, and its text is dropped.
EventuallySettled ==
  \A j \in Jobs : rows[j].status \in Live ~> rows[j].status \notin Live

\* What the safety properties rest on, as an inductive invariant.  A lease is
\* owned through its token alone, so tokens must tie tasks to rows: no two rows
\* and no two tasks share one, and a task whose token is still in a row is the
\* one that executes that row, on the attempt the row counts.
RowsConsistent ==
  \A j \in Jobs :
    /\ rows[j].status # "running" => rows[j].token = NoToken
    /\ rows[j].status = "pending" => rows[j].attempts < MaxAttempts
    /\ rows[j].body <=> rows[j].status \in Live
    /\ rows[j].status = "done" => j \in ingested

TasksConsistent ==
  \A w \in Tasks :
    IF tasks[w].pc \in {"ingest", "mark"}
    THEN tasks[w].token \in Tokens /\ tasks[w].job \in Jobs
    ELSE tasks[w].token = NoToken

RowTokensDistinct ==
  \A j, k \in Jobs :
    rows[j].token = rows[k].token /\ rows[j].token # NoToken => j = k

TaskTokensDistinct ==
  \A v, w \in Tasks :
    tasks[v].token = tasks[w].token /\ tasks[v].token # NoToken => v = w

TokensTie ==
  \A w \in Tasks, j \in Jobs :
    tasks[w].token = rows[j].token /\ rows[j].token # NoToken =>
      /\ tasks[w].job = j
      /\ tasks[w].attempts = rows[j].attempts
      /\ tasks[w].pc = "mark" /\ tasks[w].ok => j \in ingested

LeaseInv ==
  /\ RowsConsistent /\ TasksConsistent
  /\ RowTokensDistinct /\ TaskTokensDistinct /\ TokensTie

\* The contract of the outbox, without tasks, leases or a clock.
Phase(r) == IF r.status \in Live THEN "live" ELSE r.status

Contract == INSTANCE OutboxContract WITH phase <- [j \in Jobs |-> Phase(rows[j])]
ContractSpec == Contract!Spec

=============================================================================
