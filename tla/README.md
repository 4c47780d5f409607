# Memory Platform in TLA+

Memory Platform is two Python services. The **memory gateway**
(`services/memory-gateway`) answers chat requests, remembers what was said and
keeps a knowledge library, all in SQLite. The **model gateway**
(`services/model-gateway`) forwards model requests to providers, with routes,
failover, a usage ledger and a control plane of two files. This directory holds
TLA+ modules of the parts whose correctness depends on the order of events,
TLC configurations that check them, and TLAPS proofs.

## 1. Inventory

State, operations, what is hard, and what must hold. Paths are relative to
`src/services/memory-gateway/app` (MG) or `src/services/model-gateway/model_gateway` (GW).

### Modelled

**Chat finalize outbox** — MG `memory/store/chat_finalize.py`,
`api/chat_gateway.py:1640-2047`. *State:* the table `chat_finalize_jobs` and the
local variables of the tasks that work on it. *Operations:* enqueue, claim
(targeted by a request, or the oldest by the drainer), ingest, mark, prune;
inside the first, second and last the termination of rows that are too old or
out of attempts. *Interacts* with the chat request, which starts a task after
it has answered, and with the ingest, which awaits models. *Hard:* any task may
die anywhere and leaves its row running; a lease runs out under a slow ingest;
requests are retried; several processes share the table. *Correct if* one
writer at most decides a row, a settled outcome stays, no turn is done without
an ingest, the private copy of the turn lives exactly as long as its row may be
run, the queue keeps its bound and every turn leaves it.

**Control-plane store** — GW `config_store.py`, `control_plane.py`. *State:*
`config.json`, `secrets.env`, their before-images, a journal, a lock file, and
in each process the last snapshot of `ConfigManager`. *Operations:*
initialize, snapshot, commit, recovery, cleanup. *Interacts* with every web
console and command line through the lock; requests read snapshots. *Hard:* two
files cannot be replaced atomically; a process can die or a system call fail
between any two steps, those of the recovery included; a caller edits a
snapshot that is older than the files. *Correct if* the two files are at every
moment one valid pair after recovery, and an edit changes what it says and
nothing else.

**Request routing and failover** — GW `routing.py`, `proxy.py`,
`upstream_executor.py`, `service.py:1240-1300`. *State:* the breakers of
`RuntimeHealthRegistry`, shared by all requests of the process, and the locals
of the loop in `complete` and `open_stream`. *Operations:* resolve, send,
connect retry, record an answer, fail over, clear after a new credential.
*Interacts* with the providers and with the ledger, whose room is proved before
the first send. *Hard:* requests interleave at every await and cool each
other's targets; a send may have been billed although nothing came back.
*Correct if* nothing is repeated that may have been billed, the attempt budget
and the scope of fallback hold, breakers are looked at when they matter, and
every request ends in the best answer that was seen.

**Knowledge store** — MG `knowledge/store/{uploads,documents,helpers,search}.py`,
`knowledge/retrieval.py`. *State:* documents, numbered versions with their
chunks and vectors, upload sessions with their parts, running embedding jobs.
*Operations:* begin, append, commit, cancel and expire an upload; soft delete,
restore and purge a document; restore and reindex a version; the embedding job.
*Interacts* with the embedding provider across awaits. *Hard:* indexing fails
halfway; commits are repeated; jobs overlap each other, reindexing and purge.
*Correct if* an upload makes one version, a searchable version is served, vectors are what their status says, and a purge
leaves nothing.

**Memory store** — MG `memory/store/{crud,temporal,merge,purge_ops,lifecycle_purge}.py`,
`api/memories/{item,search}.py`, `memory/review_revision.py`. *State:* the table
of memories, with their text, vector, revision, evidence, interval of validity
and links to the fact they replaced and the fact that replaced them.
*Operations:* create, update, move in time, archive, restore, reopen, merge,
expire, purge; embedding again; a revision proposed by a language model and
approved by a person. *Interacts* with core memory, which cites memories, and
with models and people, for whom it waits between its read and its write.
*Hard:* long sequences of operations must keep chains whole; a write may act on
what is no longer so. *Correct if* facts of one key do not overlap, links are
paired, a deletion for good reaches everything drawn from what it deletes, and
nobody's edit or deletion hits what they have not seen.

**Core memory** — MG `memory/core.py`, `memory/store/core_memory.py`. *State:*
sections with their evidence, and their history. *Operations:* consolidate,
edit, archive, and redaction by a purge. *Hard:* consolidation waits for a
language model. *Correct if* no section outlives the memories it was drawn from.

**Tokens and console login** — MG `auth/{tokens,console_login,middleware}.py`,
`api/{auth_tokens,console_login}.py`, `cli.py`, and `console_login_link` of the
Android host. *State:* hashed tokens and one-time codes in SQLite, the plaintext
of tokens in the memory of the process, the token in the host's file.
*Operations:* create, revoke, mint, lend, exchange, expire. *Hard:* issuing,
storing, stashing and delivering are separate steps, each of which can fail or
be the last before a death. *Correct if* plaintexts are forgotten, a token that
somebody holds is taken by nothing but a request to revoke it, and none is left
that works and nobody holds, except where the code cannot help it.

**Usage ledger** — GW `usage.py`, `service.py:1169-1486`, `storage.py`. *State:*
raw events with their attempts, totals per day, a latch of storage failures.
*Operations:* preflight, record, prune, summarize, readiness check. *Interacts*
with every request, stream and client that leaves. *Correct if* every answer is
accounted or its loss shows, and totals neither lose nor double.

**Restore of a backup** — MG `stack_backup.py:405-689, 985-1046`. *State:* the
files of a stopped stack, databases with their logs, a journal, rollback copies.
*Operations:* restore, roll back, recover. *Hard:* a death or failure between
any two steps, those of the rollback included; the Model Gateway and commands that
work on the same files without a look at the journal. *Correct if* a memory gateway
that runs reads all of the archive or none of it, secrets are not left in copies, and the stack can be
started again.

**Recall caches** — MG `memory/{search,vector_index}.py`, the generation
queries of `memory/store/crud.py`, the triggers of `memory/store/schema.py`.
*State:* answers kept with the instant of the newest live memory, the number of
live memories and an expiry; matrices of vectors kept with an epoch that
triggers advance. *Operations:* recall from a snapshot, label, store, replay,
discard; load, store and evict a matrix. *Interacts* with every writer of
memories, by nothing but the database. *Hard:* each statement sees another
moment; threads store what they read long ago. *Correct if* an answer that is
given again is what a recall would find, nothing deleted or made sensitive comes
out of it, and vectors are scored against the pages of their own snapshot.

**Conversation branches and side-effect claims** — MG
`api/chat_gateway.py:201-256, 770-830, 1234-1272, 1571-1712`,
`memory/conversation_context.py`, `memory/store/conversation.py`,
`chat_finalize.py:31-91`. *State:* a tree of branch nodes, a rolling context per
conversation id, the claims. *Operations:* resolve the context of a request,
claim the work of a turn, evolve and save the node and the rolling context,
release; archive, restore and prune branches; rewrite a summary. *Hard:* answers
are regenerated and histories edited under one conversation id, requests end in
any order, claims run out under their work and are released by whoever fails,
branches are deleted while requests that continue them wait. *Correct if* a
branch remembers its own history only, one request does the work of a turn, and
a deleted branch stays deleted.

### Not modelled

| Part | State and operations | Why not, or when |
|---|---|---|
| Embedding contract (MG `llm/embedding_contract.py`) | a cache of the provider's embedding space | refreshes answered out of order. In the plan |
| Start and stop of the embedded servers (`apps/android`) | the state of two servers | start, stop and status race. In the plan |
| Spaces, digest (MG `memory/store/…`) | tables beside the memories | transactions of one statement; nothing interleaves inside |
| Request limits, disk capacity (MG `request_limits.py`, `disk_capacity.py`) | counters | measurements of a volume that others write, too: they promise nothing that could be stated |
| Schema migrations | DDL | serialized by SQLite; only what an upgrade leaves in the outbox is modelled |
| Extraction, resolution, search, ranking, evaluation, parsing, the knowledge agent | text and scores | decided by models, heuristics and floating point: not state machines |
| Export and import, creation of backups | one transaction or one snapshot each | nothing interleaves inside |
| HTTP, MCP and OpenAI front ends, command lines, consoles, user interface, deployment scripts, contract types | pure I/O | their writes go through the stores above |

`PROJECT.json` lists the parts with their files, and every hazard with the line
where it bites and the properties that watch it.

## 2. Plan

Done: `ChatFinalize` with its contract and proofs, `ControlPlane`,
`RouteFailover`, `KnowledgeStore`, `MemoryTimeline`, `MemoryEdits`,
`ConsoleLogin`, `UsageLedger`, `StackRestore`, `RecallCache`, `VectorIndex`,
`ConversationBranches`.

Not begun: the embedding contract, the embedded servers, and in `KnowledgeStore`
the edits of a document's metadata and sensitivity. Of what is modelled, every
property but the four of liveness is proved (section 5).

No module declares a RECURSIVE operator, so all of them can be proved about.

## 3. The modules

Definitions whose comment begins with *Slip* are not part of the models: each
is what a plausible bug would make of the definition after it, and the property
it is paired with in `PROJECT.json` fails when it is put in place. Each module has a
type invariant, `TypeOK`, as the description of its state, and all of them are
proved. Four modules are extended together with another one by the module of
their proofs, so that their `Init`, `Next`, `Spec`, `vars` and `TypeOK` carry a
word of their own in front: `Login…`, `Ledger…`, `Restore…`, `Index…`.

### ChatFinalize, OutboxContract

`rows` is the table, one record per job id; a missing row is `NoRow`. `tasks`
holds what a running task remembers (`_run_ingest_finalize_job`'s locals and the
drainer's list of jobs tried) and is lost in `Crash`. `ingested` and `turns` are
a history variable and a bound. Each `BEGIN IMMEDIATE` transaction is one
action, with every statement in it: `Enqueue`, `EnqueueDuplicate` and
`EnqueueFails` are the outcomes of `enqueue_chat_finalize_job`; `Claim`,
`ClaimNothing` and `ClaimFails` of `claim_next_chat_finalize_job`; `Mark` and
`MarkDropped` of `mark_chat_finalize_job`; `Prune` of
`prune_chat_finalize_jobs`. `Terminated` is `_terminate_ineligible_jobs`,
`Capped` `_cap_nonterminal_jobs`. Between claim and mark lies `Ingest`, which
awaits models and may take longer than the lease. `Init` also has the rows a
version without leases may have left. Time is relative: a live row carries its
age and what is left of its lease, and `Tick` moves both. A fresh token is
chosen deterministically, because tokens are only compared.

`OutboxContract` knows neither tasks nor leases: a turn is live until it is
done, after a completed ingest, or failed, and only a settled turn is forgotten.
`ChatFinalize` implements it under the mapping `ContractSpec`.

### ControlPlane, ControlPair

`file`, `image`, `journal` and `orphans` are the directory; `lock` and `proc`
say who works under the lock and how far it has got; `view` and `fresh` are the
`ConfigManager` of each process. Every durable change is one action: `Copy`,
`Prepare`, `Write`, `Mark`, `Publish` of `commit_control_plane`; `Recover`,
`Restore`, `Refuse`, `Drop`, `Unlink` of the recovery and cleanup. `Fail` is a
system call that raises, `Handle` the `except` clause, `Crash` a death at any
point. *Simplifications:* a revision is the content it hashes; every write
changes mtime and size; the check of a provider-protected transform, disk
capacity and request validation are `Clashes` and `Reject`; a journal write is
atomic, as `os.replace` makes it.

`ControlPair` is one pair that changes at once, to a valid pair, by a caller who
knew the config it replaces. `ControlPlane` implements it with the pair a
restart would find, `Pair`.

### RouteFailover

`connCool`, `depCool` and `failures` are the registry, with cooldowns kept as
the time left; `req` holds the locals of the loop for each request. An action is
what happens between two awaits on the one event loop: `Resolve` and
`ResolveRequired` fix the targets (those with the capabilities the request asks
for, not cooling, whose prepared payload still has the right shape; `Payloads`
says which deployments a payload may fit), then `preflight_usage_ledger` is
awaited and either `Open` begins the loop, with its first check of the breakers,
or `NoRoom` ends the request; then `FailLocally`, `Refused` and `Resend` (the connect retry),
`Unreachable`, `Respond`, `BreakOff`, `EndStream`; `Clear` is
`clear_connection`, `Tick` time. Statuses are grouped by what the code does
with them; `missing` says that the body of an answer names a model that is not
found, which cools the deployment with any status but 401, 402 and 429. Targets are named by their places in the route, which lists each
deployment once. *Simplifications:* the text of answers, adaptation of protocols and
the transfer of a stream after its first byte are left out.

### KnowledgeStore

`docs`, `versions`, `uploads` are the tables, `jobs` the embedding jobs that
are under way. Operations under the write lock are one action, and an embedding
job is one action per call to the store; `cancel_upload` deletes without looking
again at what it read, so it also deletes a session that is committed by then.
Refused calls roll back and change nothing, so they are not
actions. Chunks are there exactly while the index is ready. Chunk ids are a
function of version and position, so chunks made anew accept the vectors of a
job that listed the old ones; the model does the same. *Simplifications:* one
user; an upload id is free again when its session is gone; metadata, sensitivity
and its confirmation are left out, except that a job may find all chunks `held`
back.

### MemoryTimeline, MemoryPurge

`rows` maps identifiers to memories: place, status, key, interval, links,
evidence. The actions carry the names of the functions in `crud.py`,
`temporal.py`, `merge.py` and `lifecycle_purge.py`; each runs under SQLite's
write lock and is one action, with the relinking it ends in: `Invalidate`
(a new or moved fact closes the one that held), `Rebuild` (a keyed chain anew),
`Detach` and `Unlink` (an unkeyed one joined around a gap), `Reopen`, and in
`Purge` the walk past purged links. `archive_expired_memories` selects before it
takes the lock and is two actions (`SelectExpired`, `ArchiveExpired`). The walk
past purged links is `Follow`: the row it ends at is the one kept row that is in
every set which holds where the walk began and, with a purged row, where its
link leads. `Dependents`, in `MemoryPurge`, is the closure of evidence which both
this module and the next delete by. *Simplifications:*
one user; each creation has an instant of its own, so that ties of creation
times are not broken by random identifiers; where the code picks by time of
update or identifier among rows that start together, the model allows any.

Two things the properties of this module leave out, because the code does them:

- The expiry sweep archives by identifier the rows it selected as unchained
  before it had the lock. One that was superseded, or given a key, in between is
  cut out of its chain with its links left in place: restored, it takes back
  links that are no longer mutual, and the end of a later fact of the same key
  can be taken for one that the user declared. The history variable `cut` is true
  from the moment the sweep archives such a row, and `FactsDontOverlap` and
  `LinksArePaired` speak of the states before. (Four edits over two memories
  without a key reach the first of the two.)
- A merge of versions checks that their keys, intervals and links are equal and
  does not relink. Two facts of one key with one interval overlap, which they
  never do (`NoOverlap`), unless it is empty for one of them; then a live row may
  be linked to the one of them that went to the trash. `ChainsSurvive` excepts
  merges in a table that has such an empty fact. (Four facts of one key with one
  start, of which two are merged.)

### MemoryEdits

The same memories as documents: text, the text their vector was computed from,
revision, instant of the last update, evidence; one section of core memory and
its history. A request that reads in one transaction and writes in another is
two actions with what it read in `ops`: PATCH (`Open`, `PatchRead`,
`PatchWrite`: the person read even earlier), embedding again, consolidation, the
edit of a section (`SectionRead`, then `SectionWrite`, which hands on the evidence
that was read, or `SectionCite`, which writes the evidence that the body names;
no id in it is compared with the memories there are, so it may be one deleted for
good; one that no memory ever had is left out), a review revision (`Preview`, `ReviewLoad`, then one action
per operation), a batch purge (`PurgePreview`, `PurgeCommit`). `Drop` ends any of
them anywhere. Temporal keys are left to `MemoryTimeline`.

### ConsoleLogin

`tokens` and `codes` are the tables, `pending` the plaintexts in memory, `file`
the host's token, `held` the tokens whose plaintext has been shown to somebody.
`ops` says how far each request has got: a code is minted in `Issue`,
`InsertCode`, `Stash` and exchanged in `Present`, `Pop`, with `Undo`,
`RevokeLost` and `WriteFails` for the failures; the host's link goes through
`Link`, `Renew`, `WriteFile`. `Die` loses what is in memory. Hashing, rate limits
and scopes other than the role are left out.

### UsageLedger

A request is a record of how far it has got and of its attempts, with a cost
that is known or not; `raw` the events written and not yet rolled up, `days` the
totals, `sums` the summaries under way, `latch` and `ready` the storage fault
monitor and a readiness check between its two steps. `RecordUsage` and `Prune` are
transactions; a summary is four reads. Money and tokens are counts, and the sum
of counts is the number of the things they count (`SumOf`), which needs no
recursion over the set that is summed.

### StackRestore, AtomicRestore

`main` and `wal` are the files and what a database's log makes of them, `own` the
part of `settings.env` that no archive holds, `journal` and `copies` what a
rollback works from. Each durable replacement is one action. `Fail` is a step
that raises, which the same process rolls back; `Die` a death, which a later
`Recover` rolls back. An archive of version 2 holds at least the required
components (`stack_backup.py:922`), so `Archived` is not empty; an empty one of
version 1 changes nothing.

The memory gateway is `up` or not, and starts only while no journal is pending
(`main.py:127`). Nothing else looks at the journal: not the Model Gateway
(`model_gateway/service.py:110-123`), which `memgw stack start` starts first
(`cli.py:526-539`), nor `memgw config`, `secret` and `token`, nor the maintenance
scripts. The targets that these write (`config.json`, `usage.db`, `auth.db`,
`settings.env`, `memory.db`) are the constant `Unguarded`, and `Work` changes them
at any time; `knowledge.db` is written by the memory gateway alone. Both services
are stopped, and found not to answer, before a restore or a recovery begins
(`_stop_stack_for_offline_restore`); a second command, or a service that starts,
while it runs is left out. Whoever does not look at the journal also *reads* the
files half restored: of that nothing is promised, and nothing is checked.

`AtomicRestore` changes all archived files at once, while the memory gateway is
down. `StackRestore` implements it under what the gateway reads while it runs
(`Shown`) and what it would find once nothing is pending (`Found`). A write into a
file that a pending journal names is a stutter of `Found`, because the rollback
undoes it.

### RecallCache

`rows` are the memories as far as one query can tell them apart: near or not by
words or vector, above the ceiling, in force from some second on. `entry` is the
one entry of the L2 cache under one key; `reqs` says how far each search has
got. A search is as many actions as it sends statements to SQLite, because each
has a connection and hence a moment of its own: `Hit`, `ReadMax`, `ReadCount`,
one `ReadRow` per memory, `ReadFinalMax`, `Replay` for `_cached_search_hits`;
`Recall` for `_recall_and_rank`, which reads one snapshot; `LabelMax`,
`LabelCount`, `Store` for `_cache_search_hits`. Writers that take `updated_at`
under the write lock are one action, those that take it before (`create_memory`,
`update_memory_embedding`, imports, `archive_expired_memories`; `update_memory_statuses`
would too, but nothing calls it) `Draft` and the write. Two fields are history.
`seen` collects what was eligible in each table since a request began, by each
clock that could be meant: the code filters by a time it took before or after the
statement it filters. `sure` is lost by the three interleavings that section 4
names, in which an old answer is given again. *Simplifications:* ranking and the limit are left out, so
every near memory is a hit; every vector in the space of the key is close to the
query; instants never repeat; the end of validity is left out, as its beginning
stands for both kinds of boundary; the boundary at which an entry ends is read
(`search.py:1079`) in the action that stores it.

### VectorIndex

`memories` are records of place, vector and space; `epoch` the counter of one
user, which `Advances` says when the triggers move; `matrices` the matrix of each
space. `BeginSearch` opens the snapshot, from which all that follows is read, and reads
`_read_epoch` from it; `Look` is `_cached_index` and, on a miss, `_load_space_index`; `StoreIndex`
is `_store_index` with the eviction of whichever matrix. The columns that no
trigger names are the field `used`. An epoch that cannot be read (an older
schema) and the identity of the database file, which is in the key of the cache,
are left out.

### ConversationBranches

`nodes` and `rolling` are the tables of branch nodes and of rolling contexts,
`claims` that of the claims that have not run out, `req` what each request holds
between its awaits; `overstayed` and `excused` are history variables. `Arrive` is
the request with `_resolve_previous_context`; `Answer` the end of the model call
with the claim of `_finalize_turn`; `SaveNode` and `SaveRolling` its two writes,
each a transaction; `Fail` its `except` clause with the release, which names no
owner and may fail itself. `Evolved` is the set of contexts that compaction may
leave of the older turns: summaries are written by a model and stand for
nothing here, so what a node remembers is its list of recent turns.
A fingerprint is the history it is the digest of; the
marks of a process (`_ExpiringState`) only add refusals, which are always
possible here; which node is the oldest when nodes are pruned is left open.
*Left out:* the counting of activated memories, which takes claims of the same
kind, the caches of reasoning texts, and the bound in bytes that may drop more of
the oldest turns (`conversation_context.py:314-329`).

## 4. What is checked

States are distinct states with the bounds of the configuration.

| Run | States | Question |
|---|---|---|
| `outbox` | 69,954 | a request and the drainer, two turns, what an upgrade may leave: OneWriter, DoneWasIngested, LeaseRespected, FailedForCause, LiveBound, ContractSpec, EventuallySettled |
| `control_commit` | 353,037 | two processes, two commits, two failures: PublishesItsOwnEdit, PairSpec, CommittedSettles |
| `failover` | 1,777,275 | two streaming requests confined to a channel of three deployments or to one deployment, with the ledger's preflight before the loop, payloads that fit all or not the first, a retry, time and a new credential: NeverRepeatedBlindly, ProviderAnswerKept, TargetRechecked |
| `knowledge` | 1,795,903 | one document, two versions, one upload at a time, one job, two spaces: ReadyIsServed, NeverServesWorse, VectorsMatch |
| `timeline` | 265,426 | three memories, one key, three edits: FactsDontOverlap, LinksArePaired, PurgeReachesAll, ChainsSurvive |
| `edits` | 1,482,182 | two memories, two requests under way, five writes: OnlyLateVectors, GuardedEditsLoseNoEdit, OnlyLateEvidence, OnlyLateCitations, PurgesWhatWasShown |
| `login` | 573,480 | three tokens, two codes, two requests: MemoryForgets, HeldTokensKept, StraysHaveACause |
| `usage` | 227,594 | one request, one earlier event, one summary, three days: DaysAddUp, SummaryMissesNothing, EveryAnswerAccounted |
| `restore` | 1,153,844 | a database that only the memory gateway writes, one that the Model Gateway writes at any time, settings.env, three failures: RestoresAllOrNothing, SecretsNotCopied, EventuallyStartable |
| `recall` | 2,262,868 | two memories, one search, one early writer, two instants more: ReplaysAreCurrent, NothingLeaks |
| `vectors` | 285,240 | one memory, two spaces, two recalls, three writes: IndexOfSnapshot |
| `branches` | 268,624 | three requests, one conversation, two answers, two turns, two nodes kept: BranchKeepsItsHistory, OneWorkerPerTurn, OnlyLateBranches |

What each property says stands above it in its module.

*Bounds.* The outbox has a lease of 300 s, 8 attempts, 24 h and 100 live rows
(`chat_finalize.py:19-23`). The model has 1, 2, 2 and 1: what matters is that a
lease can run out under a task while another claims, that a row has a first and
a last attempt, that it can expire before or after them, and that the queue can
be full when another turn arrives. `MaxTurns` bounds the requests that end a turn. One turn task beside
the drainer is enough for a lease to be taken over, and lets safety and liveness
be checked on the same states. That the bound of the queue, the fate of the
copied text and the tie of tokens do not depend on these numbers is proved
(section 5). The control plane is run with two names, one value and an
incompatible pair that two separately valid edits can produce; with two failures
one can hit the commit and one its recovery. Failover has two accounts, one with
two deployments, so that a target can be cooled through its sibling, a budget
smaller than the route, cooldowns of different length that can run out, and two
requests with one retry each. The knowledge run has two contents, so that an upload can replace or repeat
what is there, two versions, of which one can be served while the other fails,
and two spaces that one job after another uses; jobs that overlap are covered by
the proof (section 5). Three
memories give a chain a middle to be cut out of, and three edits after their
creation one to cut, one to move and one to join or purge. In `edits` one client
has the requests of people, the other those that wait for models; five writes
are a memory, its change, a second one that rests on it, a purge and a late
write. Two codes let one expire while the other is minted, and three tokens are
the two of the codes and one in somebody's hand. The ledger has a day that is
rolled up in two parts, and one that is dropped. A restore has two databases with
logs, one of which, like `settings.env`, is written without a look at the journal,
and each of which may not have existed; three failures can
hit the restore, its rollback and the recovery of that, and two writes come before
it, while its journal is pending, or after it. A recall has two
memories, so that a label can stay the same while one of them changes, a writer
that overtakes another, and a time to live that does not end before a memory
comes into force. Other searches appear as `Discard` and as the entry that the
same search left before. Larger instances of it that hold as well, in up to ten
minutes each: four and five instants without early writers or time (8 million
states), four instants with an early writer (5 and 7 million), three memories (4
million); all sizes are covered by the proof. The index has room for one matrix of two,
and three writes make it newer, older and of the same epoch again. Of three
requests two can answer the same turn and a third continue or regenerate it;
one turn kept uncompacted of two, and room for two nodes of three, make the
contexts short of their histories.

*Symmetry* is used where names are only compared: uploads, pieces and spaces in
`knowledge`, requests and answers in `branches`, texts in `edits`, tokens, codes and requests in `login`,
requests in `failover`, memories in `recall`, memories, spaces and requests in
`vectors`. No
run with a liveness property uses it.

*Deadlock* is checked for the outbox, the control plane and the login. It is not
for the failover run, where all requests may have been answered, nor for the
knowledge, memory, recall, usage, restore and branch runs, where every bound may be used up.

*Fairness.* `ChatFinalize`: the drainer's loop catches every exception and is
started again with its process (`chat_gateway.py:2030`, `main.py`), so it wakes
for ever; its claim transaction is strongly fair, because SQLite refuses now and
then but not for ever; an ingest returns, since its model calls have timeouts;
the clock runs. Nothing is assumed of turn tasks, of successful ingests, or of
the absence of crashes. `ControlPlane`: a thread that holds the lock goes on,
and snapshots keep being asked for, as every request does; failures are bounded
by `MaxFaults`. `UsageLedger`: what has ended
is recorded without waiting for anyone (`service.py:1393-1439`, a task of its
own), and the readiness keeps being asked for, as deployments do. `StackRestore`:
a command that runs goes on, and an operator who finds the memory gateway refusing to
start runs the recovery that their message names; failures are bounded by
`MaxFaults`.

### Where code and documents disagree

Statements of documents, comments and tests that behaviours of the models
break, or of the code beside them:

| Statement | What the code does |
|---|---|
| memory gateway `README.md:795`: deleting for good redacts the core memory drawn from what is deleted | a consolidation that read the memory before and writes after it (`memory/core.py:92`), or the edit of a section that was read before, brings a section back that cites it, and a `PATCH` whose body names the evidence (`api/memories/core.py:93`) may cite it even if it begins after the purge, because the store checks no id; `OnlyLateCitations` shows that these are the only ways |
| `tests/test_search_cache.py:116`: writing a memory changes `max_updated_at` and invalidates the cached recall | not when it commits between the recall and the reading of its label (`memory/search.py:1075`) or between the last two reads of the generation before an answer is given again (`search.py:1041-1042`), nor when it took its instant before one that is stored already (`memory/store/crud.py:937`): the answer from before is given, in the first and the last case for up to 120 s; `ReplaysAreCurrent` shows that nothing else makes it stale, and `NothingLeaks` that deletion and sensitivity count even then |
| `memory/store/crud.py:958`: expiry archives temporary memories without erasing version history | a memory that was superseded or keyed between the selection and the update is archived out of its chain (`ArchiveExpired` with `cut`), with its links left in place |
| `config_store.py:625-627`, model gateway `docs/configuration.md:30`: any later process can repeat a rollback | images are deleted before the journal (`config_store.py:580`); a death in between leaves a journal that no process can recover (`Refuse` in the model) |
| `config_store.py:511-512`: an orphaned before-image holds nothing the live file has not | it outlives the next edit of the secrets, because nothing deletes it |
| `service.py:1268-1270`: room in the ledger is kept for every attempt | connect retries that end in a local failure take nothing of the budget, so more traces are written |
| model gateway `README.md:292`: only a failed connect switches targets | so do 408, 429 and 5xx (`FailsOver`) |
| model gateway `README.md:295`: breakers are checked before each attempt | not before a connect retry |
| `tests/test_knowledge_store.py:647-648`: a committed upload cannot be cancelled | a commit between the read and the delete of `cancel_upload` is deleted |
| `uploads.py:398`: a document that changed since the upload began is not replaced | one that changed, lost its index and changed back is |
| `chat_finalize.py:3-6`: a claimed row is finished only with its lease token | any enqueue, claim or prune fails a row on its last attempt while a task executes it under a valid lease |
| memory gateway `README.md:802`: the last console token cannot be revoked | tokens that a one-time code has not delivered yet count as others (`tokens.py:299`), and expire with their code |
| model gateway `docs/operations.md:171`: summaries add raw events and daily totals | when a prune runs between the two reads, its events are in both; `SummaryMissesNothing` is one-sided because of it |
| `stack_backup.py:609`, `docs/security-audit-2026-08.md:276`: after an interrupted restore the services refuse to start, the interruption fails closed | only the memory gateway does (`main.py:127`); the Model Gateway starts on a `config.json` and a `usage.db` of which one may be restored and the other not, `memgw config`, `secret` and `token` work on `settings.env` and `auth.db` likewise, and the recovery undoes what they wrote into a file that the journal names (`Work` with `f \in Unguarded`); `RestoresAllOrNothing` shows that the memory gateway is kept from all of this |
| `stack_backup.py:619`: every journal can be rolled back | rollback copies pass the validators of archives; an original that these refuse makes this recovery and every later restore fail (`Restorable`) |

## 5. What is proved

Every component is proved about, for every value of its constants; every leaf is
checked by TLAPS. `PROJECT.json` lists the theorems. Each proof has one lemma per
action, or per kind of change that several actions make, and an inductive
invariant. Four modules
hold the proofs of two components each, which share no name and no state.

| Module | About | Proved |
|---|---|---|
| `ChatFinalizeProofs` | `ChatFinalize` | `LeasesTie` (types and the ties of tokens), OneWriter, DoneWasIngested, LiveBound, LeaseRespected, FailedForCause, `RowsTheorem`; `ImplementsContract`: the outbox refines `OutboxContract` |
| `ControlPlaneProofs` | `ControlPlane` | `StoreIsSound` (types and how far each session is), PublishesItsOwnEdit; `ImplementsPair`: the two files refine `ControlPair` |
| `ModelGatewayProofs` | `RouteFailover` | types, NeverRepeatedBlindly, ProviderAnswerKept, TargetRechecked |
| | `UsageLedger` | `LedgerIsSound` (types and what a summary has read), DaysAddUp, SummaryMissesNothing |
| `StorageProofs` | `KnowledgeStore` | types, VectorsMatch, ReadyIsServed, NeverServesWorse |
| | `StackRestore` | `JournalFits` (types and what the journal tells), SecretsNotCopied; `ImplementsAtomicRestore`: a restore refines `AtomicRestore` |
| `MemoryTimelineProofs` | `MemoryTimeline` | types, FactsDontOverlap, LinksArePaired, PurgeReachesAll, ChainsSurvive |
| `MemoryEditsProofs` | `MemoryEdits` | types, OnlyLateVectors, OnlyLateEvidence, OnlyLateCitations, GuardedEditsLoseNoEdit, PurgesWhatWasShown |
| `MemorySearchProofs` | `RecallCache` | `EntriesTell` (types and what a label tells), ReplaysAreCurrent, NothingLeaks |
| | `VectorIndex` | types with the meaning of epochs, IndexOfSnapshot |
| `GatewayProofs` | `ConversationBranches` | types, BranchKeepsItsHistory, OneWorkerPerTurn, OnlyLateBranches |
| | `ConsoleLogin` | MemoryForgets, HeldTokensKept, StraysHaveACause |

**ChatFinalize.** Who may write a row is decided by a token that lives both in
the row and in a task, so the invariant `LeaseInv` says what tokens tie together:
no two rows and no two tasks share a token; a task whose token is in a row
executes that row, on the attempt the row counts; and if it is about to record a
success, the ingest is in `ingested`. With `TypeOK` and the consistency of single
rows and tasks this is `IInv`. The live bound follows from types and the initial
bound: only `Enqueue` makes a row live, and it counts first; every other step
leaves the live rows a subset of what they were. The action properties and the
refinement rest on one lemma, `StepsAreEdges`: whatever a transaction does to the
table, it moves each row along an edge of its life (`Edge`). It needs the live
bound, because within it the cap that prune puts on the queue fails nothing.
`ImplementsContract` then maps each edge to a step of the contract, in which at
most one turn is enqueued or finished, or to a stutter.
*Assumptions:* `TokensAssumption` asks for as many tokens as there are jobs and
tasks, which stands for a uuid4 that never repeats one that somebody still
remembers.

**ControlPlane.** That the pair changes at once is a statement about the files
after a recovery that may never run, so the invariant says what each program
counter knows. Only the holder of the lock is in a session (`OneSession`); an
image is of a file that the transaction changes, and without a journal only a
commit that is preparing one, or has just failed to, has images
(`ImagesBelong`); a recovery has undone one file before it turns to the next and
drops images only when both are undone (`RecoveryOK`); a commit carries its edit
of the pair from the check to the end, its journal can be undone at every write,
and what it has written is on the disk (`CommitOK`). From this follows how each
action moves the pair that a restart would find: creation and publication change
it, and everything else, every death and failed call included, leaves it as it
is. `PublishesItsOwnEdit` and the refinement are read off that case distinction.
*Assumptions:* `ProcsAssumption`, `ContentsAssumption`, `BoundsAssumption`,
`JournalAssumption`: the values that mean "nobody" and "no journal" are no
process and no journal, and what a first start creates is valid.

**RouteFailover.** The invariant `Sound` of a single request says that a trace
after which nothing may be sent is the last one and the request is streaming or
over, and that once a provider has answered, the loop remembers the answer.
Requests share nothing but the breakers, so a step of one leaves the others
sound. `TargetRechecked` is proved from types: a send that begins a target comes
out of the search for the next target, which asks the breakers in that step, for
the first target after the preflight as for any later one. *Assumptions:* `RouteAssumption` (a route is not empty and
lists a deployment once, as resolution does) and `NumbersAssumption`.

**UsageLedger.** `DaysAddUp` is inductive together with the types, but its sums
had to be made ones that can be reasoned about without induction: every figure
counts items of which each belongs to one event (`ItemsOf`), so that the figures
of a union of disjoint sets of events add up (`TotalAdds`), those of a larger set
are no smaller (`TotalGrows`), and those of a set are what its days have
(`SpreadOut`). A summary is four reads with prunes in between. `SummaryIs` says
that what it has read from the events themselves covers a set of them, and that
whatever was there when it began and is not in that set has been rolled up since;
the days, which are read later, therefore have it. An event may be in both, which
is why the property is one-sided. `HasRoom` says that a send still to come has
room under the bound of the model. *Assumptions:* `LedgerAssumption`: the events of
before are finitely many and no requests, days are kept no shorter than events,
bounds are positive.

**KnowledgeStore.** `VectorsMatch` and `ReadyIsServed` are inductive together with
three facts: a version has vectors only while it is indexed, a document serves a
version of its own, and a job works on a version that exists. Two overlapping jobs
cannot mix their vectors because the store accepts only those of the space that
the version names, and counts what is there in the same transaction. Of
`NeverServesWorse` the proof shows more: what a step makes a document serve anew
was indexed in that step. *Assumptions:* `KnowledgeAssumption`, bounds that are
positive.

**StackRestore.** What the memory gateway would find depends on a journal that is
written while files are replaced and read backwards by a rollback, while others
write into the same files between the death of a restore and its recovery. `RestoreInv`
says: the journal names the files in the order of the archive, and each operation
tells rightly whether there is a copy, and the memory gateway is down while it is
pending (`Journalled`); going forward, all files
before the one at hand are those of the archive, and the one at hand is noted
before it is replaced (`Forth`); going back, what is noted and no longer to be
undone is as its copy, unless there were errors, and the process may be one operation
ahead of the journal, of a file that is as its copy until the journal gets it, too
(`Back`). Between the two, when no command runs, nothing is said of the noted files,
so that anyone may write them. The mapping
`Found` then is, while a journal is pending, the copies of the noted files and
the files themselves otherwise (`Kept`); every step but the last of a restore and
the writes into other files leaves it alone. That no second copy of the secrets is left
is part of `Forth` and `Back`: there is none where a restore finishes or a
rollback reports. *Assumptions:* `RestoreAssumption`: an archive has files, each
once and `settings.env` last, and the values that mean "no file" and "of the
archive" are no contents of services.

**MemoryTimeline.** That facts do not overlap is not inductive: what relinking
does depends on links, which may lead to rows that are not live. The invariant
`Chains` says, of rows without a key, that a live row's links lead to live rows
that link back, to an older one and to a younger one, and that rows in the trash
have none (`Paired`); of each key, that there is a closed set of rows of that key
which contains the live ones and all that their links lead to (`Tied`), and that
live rows are disjoint in time (`Apart`). `Tied` is what lets a purge walk past
any number of deleted rows without leaving the key. For `Rebuild`, `Invalidate`,
`Detach` and `Purge` a lemma says what they do to the table, and another that
they keep `Chains`; `FollowBack` shows that whoever the walk past purged rows
ends at is led back by the walk from the other side. TLC agreed with the
invariant on four small instances before it was proved. Beside it stand `TypeOK`,
the order in which identifiers are given, and that evidence is never purged,
which hold even after an expiry that cut a chain. *Assumptions:*
`TimelineAssumption`: bounds are numbers, times lie within them, no key is the
missing one.

**MemoryEdits.** That only late writes break vectors, citations and evidence needs
no more of the past than `TypeInv`, which is `TypeOK` with the bound that no
revision and no instant exceeds the number of writes. The lemma `Fates` says what
a step can do to one memory (nothing, a creation, a change of place, an update, a
merge, an embedding, a purge), so that each property is a case distinction over
fates instead of actions; `DependentsClosed` says that the set a purge deletes is
closed under evidence. `GuardedEdits` and `BatchesAsShown` compare what a request
read with what its write finds. Their invariant `EditInv` says that as long as the
instant of a memory, or its revision, is the one that was read, the rest of what
was read still holds of it too. The bound is what makes this inductive: a write
gives a memory an instant that nobody has read. *Assumptions:* `EditsAssumption`:
two bounds are numbers, and no text is the missing one.

**RecallCache.** An answer is labelled with two numbers, and both can be the same
again after any number of writes, so that equal labels do not mean equal tables.
What they do mean is `Tells`: there is a table that the hits and both numbers of
the entry are of, and as long as a live memory has the newest instant of the
entry, every live memory is the one of that table or newer. When the newest
instant and the number are found again, no memory is newer, so all live ones are
of that table, and as there are as many, they are that table. This needs that no
write to come can have the instant of a label (`Stamps`). `Fits` carries it through a
request: what a label that is being read is of (`LabelFits`), that each hit read so far is
that of the table unless something newer is there (`ReplayFits`), and what has
been seen (`SeenFits`). Two things came to light on the way, and the property and
its history variable were corrected for them: a write between the last two reads
of the generation can go unnoticed, which needs four instants to happen, and the
two clocks of a request may lie on either side of the moment a memory comes into
force. *Assumptions:* `RecallAssumption`: memories are finitely many, times and
bounds are numbers.

**VectorIndex.** That a recall scores its own snapshot is not inductive: a matrix
that another thread stored is taken because its epoch is the same. The invariant
therefore says of everything that carries an epoch (matrices and the snapshots of
recalls) that it is no later than the table, and that two of one epoch and space
are alike. `TriggersSuffice` is what it rests on: a write that does not advance
the epoch leaves the vectors of every space as they were. *Assumptions:*
`IndexAssumption`: two bounds are numbers, and no vector is the missing one.

**ConversationBranches.** The invariant adds to the three properties what a
request that waits for its model knows (`RequestsOK`: the turns it read agree with
the parent it found) and that whoever works does so under a claim or was
overstayed (`ClaimsCover`). That a node agrees with its history is carried through
compaction by lemmas about suffixes of sequences (`AgreeNewest` and the like).
`OnlyLateBranches` needs that the parent of a node is the same sequence one turn
shorter, so that deleting a subtree reaches every node below. *Assumptions:*
`BranchesAssumption`: bounds are positive, a context keeps no more turns than are
retained, no conversation is the missing one.

**ConsoleLogin.** A token on its way is one that is valid and that nobody has
seen. The invariant `LoginInv` says with whom each one is: with one request, in
what it has in hand (`OpOK`), or with one code that was issued for it and is still
open (`CodeOK`), and never with two (`Exclusive`). Hence the revocations that the
program makes without being asked, of a code that expired, was lost or could not
be written, hit only tokens that nobody holds, which is `HeldTokensKept`; and a
token that stays behind valid without being held was dropped by a death, or its
revocation failed, which is `StraysHaveACause`. `MemoryForgets` is part of the
invariant. *Assumptions:* `LoginAssumption`: there is a user, codes and the model's time
last, and the values that mean "no token" and "no code" are neither.

*Only model-checked:* liveness, which TLAPS does not support: `EventuallySettled`,
`CommittedSettles`, `EventuallyStartable` and `EveryAnswerAccounted`.

## 6. Running

    tlc -workers 2 -config ChatFinalize.cfg MCChatFinalize
    tlapm ChatFinalizeProofs.tla
    tlapm ControlPlaneProofs.tla
    tlapm ModelGatewayProofs.tla
    tlapm StorageProofs.tla
    tlapm MemoryTimelineProofs.tla
    tlapm MemoryEditsProofs.tla
    tlapm MemorySearchProofs.tla
    tlapm GatewayProofs.tla

`PROJECT.json` pairs each configuration with its module.
