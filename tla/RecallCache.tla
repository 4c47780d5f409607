---------------------------- MODULE RecallCache -----------------------------
(***************************************************************************)
(* The cache of recall results (L2).  An answer is kept with a generation, *)
(* the instant of the newest live memory and the number of live memories,  *)
(* and is given again as long as the generation is the same and no memory  *)
(* comes into or goes out of force.                                        *)
(*                                                                         *)
(* One key: one user, one query, one limit, one ceiling, one embedding     *)
(* space.  Each statement that a request sends to SQLite is an action of   *)
(* its own, because each has its own connection; writers commit between    *)
(* them.  Ranking is left out: every memory that is near is a hit.         *)
(***************************************************************************)
EXTENDS Naturals, FiniteSets

CONSTANTS
  Ids,         \* memories
  Requests,    \* searches that run at a time, in threads of one process
  Writers,     \* calls that take their instant before SQLite's write lock
  Contents,    \* what a memory may be to this query
  Ttl,         \* _SEARCH_CACHE_TTL
  MaxTime,     \* bound of the model: seconds
  MaxInstant   \* bound of the model: instants that writers have taken

ASSUME RecallAssumption ==
  /\ IsFiniteSet(Ids)
  /\ Contents \subseteq [words: BOOLEAN, vector: BOOLEAN, sensitive: BOOLEAN, from: Nat]
  /\ {Ttl, MaxTime} \subseteq Nat /\ MaxInstant \in Nat \ {0}

VARIABLES
  rows,     \* memories, as far as this query can tell them apart
  entry,    \* the cache entry under the key
  reqs,     \* how far each search has got
  drafts,   \* the instant that a writer has taken, 0 for none
  instant,  \* utc_now_iso(), which never repeats
  now       \* the same clock in seconds, for validity and expiry

vars == <<rows, entry, reqs, drafts, instant, now>>

\* Of a content, "words": the text shares words with the query; "vector": it has
\* a vector in the space of the key (any such vector is close to the query);
\* "sensitive": above the ceiling; "from": valid_from, 0 for none.
Row == [place: {"live", "trash"}, is: Contents, updated: 1..MaxInstant]
NoRow == [place |-> "none"]
Is(place, content, stamp) == [place |-> place, is |-> content, updated |-> stamp]

\* "sure" is a history variable: no write committed between the recall and the
\* reading of the generation that labels it, none has since that had taken its
\* instant before one that was already stored, and, of a replay, none committed
\* between the two reads of the generation that end it.
Entry == [expires: 0..(MaxTime + Ttl), max: 0..MaxInstant, count: 0..Cardinality(Ids),
          hits: SUBSET Ids, close: SUBSET Ids, sure: BOOLEAN]
NoEntry == [expires |-> 0, max |-> 0, count |-> 0, hits |-> {}, close |-> {}, sure |-> FALSE]

\* "seen" is a history variable: what was eligible in the table of each moment, by
\* the clock of any, since a request that looks at the entry began.
Idle == [stage |-> "idle", began |-> 0, entry |-> NoEntry, max |-> 0, count |-> 0,
         todo |-> {}, got |-> {}, hits |-> {}, close |-> {}, sure |-> FALSE, seen |-> {}]

Looking == {"get", "max", "count", "rows", "final"}
Labelling == {"label", "number", "store"}
Tearable == Labelling \cup {"final"}

Req == [stage: Looking \cup Labelling \cup {"idle", "recall", "replayed"}, began: 0..MaxTime,
        entry: Entry, max: 0..MaxInstant, count: 0..Cardinality(Ids), todo: SUBSET Ids,
        got: SUBSET (Ids \X Nat), hits: SUBSET Ids, close: SUBSET Ids, sure: BOOLEAN,
        seen: SUBSET SUBSET (Ids \X Nat \X BOOLEAN)]

-----------------------------------------------------------------------------
(* What a query finds *)

Live(rs) == {i \in Ids : rs[i].place = "live"}
Near(c) == c.words \/ c.vector

\* The ceiling of the key, and memory_matches_temporal_mode.
Allowed(c, t) == ~c.sensitive /\ c.from <= t

Eligible(rs, t) ==
  {<<i, rs[i].updated, Near(rs[i].is)>> : i \in {j \in Live(rs) : Allowed(rs[j].is, t)}}

Largest(S) == IF S = {} THEN 0 ELSE CHOOSE n \in S : \A m \in S : m <= n
Least(S) == CHOOSE n \in S : \A m \in S : n <= m

\* get_memories_max_updated_at; 0 for NULL.
Newest(rs) == Largest({rs[i].updated : i \in Live(rs)})

-----------------------------------------------------------------------------
(* Writers *)

Watch(req, rs, t) ==
  IF req.stage \in Looking
  THEN [req EXCEPT !.seen = @ \cup {Eligible(rs, u) : u \in req.began..t}]
  ELSE req

\* rs is committed with an instant; what that means for who is under way.
Commit(rs, stamp) ==
  LET early == stamp < Newest(rows) IN
  /\ rows' = rs
  /\ entry' = IF early THEN [entry EXCEPT !.sure = FALSE] ELSE entry
  /\ reqs' = [r \in Requests |->
       [Watch(reqs[r], rs, now) EXCEPT
          !.sure = @ /\ ~early /\ reqs[r].stage \notin Tearable,
          !.entry.sure = @ /\ ~early]]
  /\ UNCHANGED now

\* update_memory, archive_memory and restore_memory take their instant under
\* the lock.
Locked(i, place, content) ==
  /\ instant < MaxInstant /\ instant' = instant + 1
  /\ Commit([rows EXCEPT ![i] = Is(place, content, instant')], instant')
  /\ UNCHANGED drafts

Update(i) == rows[i].place = "live" /\ \E c \in Contents : Locked(i, "live", c)
Archive(i) == rows[i].place = "live" /\ Locked(i, "trash", rows[i].is)
Restore(i) == rows[i].place = "trash" /\ Locked(i, "live", rows[i].is)

\* create_memory, update_memory_embedding, an import and archive_expired_memories
\* take it before; so does update_memory_statuses, which nothing calls.
Draft(w) ==
  /\ drafts[w] = 0 /\ instant < MaxInstant
  /\ instant' = instant + 1
  /\ drafts' = [drafts EXCEPT ![w] = instant']
  /\ UNCHANGED <<rows, entry, reqs, now>>

Drafted(w, i, place, content) ==
  /\ drafts[w] # 0
  /\ Commit([rows EXCEPT ![i] = Is(place, content, drafts[w])], drafts[w])
  /\ drafts' = [drafts EXCEPT ![w] = 0]
  /\ UNCHANGED instant

Create(w, i) == rows[i].place = "none" /\ \E c \in Contents : Drafted(w, i, "live", c)

Embed(w, i) ==
  /\ rows[i].place = "live"
  /\ \E c \in Contents : c = [rows[i].is EXCEPT !.vector = c.vector] /\ Drafted(w, i, "live", c)

\* An import overwrites a memory, dropping its vector; the imported one, or the
\* one it overwrites, may be archived.
Import(w, i) ==
  /\ rows[i].place # "none"
  /\ \E place \in {"live", "trash"}, c \in Contents : ~c.vector /\ Drafted(w, i, place, c)

\* archive_expired_memories.
Expire(w, i) == rows[i].place = "live" /\ Drafted(w, i, "trash", rows[i].is)

Tick ==
  /\ now < MaxTime /\ now' = now + 1
  /\ reqs' = [r \in Requests |-> Watch(reqs[r], rows, now')]
  /\ UNCHANGED <<rows, entry, drafts, instant>>

-----------------------------------------------------------------------------
(* A search *)

Goto(r, req) == reqs' = [reqs EXCEPT ![r] = req]
At(r, stage) == reqs[r].stage = stage
Recalls(t) == [Idle EXCEPT !.stage = "recall", !.began = t]

\* _discard_search_cache_entry, and on to a recall.
Miss(r) ==
  /\ entry' = IF entry = reqs[r].entry THEN NoEntry ELSE entry
  /\ Goto(r, Recalls(reqs[r].began))

\* A request takes the time, and looks at the cache in a thread later.
Begin(r) ==
  /\ At(r, "idle")
  /\ Goto(r, [Idle EXCEPT !.stage = "get", !.began = now, !.seen = {Eligible(rows, now)}])
  /\ UNCHANGED <<rows, entry, drafts, instant, now>>

Hit(r) ==
  /\ At(r, "get") /\ entry # NoEntry /\ reqs[r].began < entry.expires
  /\ Goto(r, [reqs[r] EXCEPT !.stage = "max", !.entry = entry, !.todo = entry.hits,
                             !.sure = entry.sure])
  /\ UNCHANGED <<rows, entry, drafts, instant, now>>

NoHit(r) ==
  /\ At(r, "get") /\ (entry = NoEntry \/ reqs[r].began >= entry.expires)
  /\ entry' = NoEntry
  /\ Goto(r, Recalls(reqs[r].began))
  /\ UNCHANGED <<rows, drafts, instant, now>>

ReadMax(r) ==
  /\ At(r, "max")
  /\ Goto(r, [reqs[r] EXCEPT !.stage = "count", !.max = Newest(rows)])
  /\ UNCHANGED <<rows, entry, drafts, instant, now>>

SameGeneration(r) ==
  /\ reqs[r].max # 0 /\ reqs[r].max = reqs[r].entry.max
  /\ Cardinality(Live(rows)) = reqs[r].entry.count

ReadCount(r) ==
  /\ At(r, "count")
  /\ IF SameGeneration(r)
     THEN Goto(r, [reqs[r] EXCEPT !.stage = "rows", !.max = 0]) /\ UNCHANGED entry
     ELSE Miss(r)
  /\ UNCHANGED <<rows, drafts, instant, now>>

\* Slip: the ceiling was looked at when the answer was computed.
ReadableLive(row) == row.place = "live"

Readable(row) == row.place = "live" /\ Allowed(row.is, now)

ReadRow(r, i) ==
  /\ At(r, "rows") /\ i \in reqs[r].todo
  /\ IF Readable(rows[i]) /\ i \in reqs[r].entry.close /\ ~rows[i].is.vector
     THEN Miss(r)
     ELSE /\ Goto(r, [reqs[r] EXCEPT !.todo = @ \ {i},
                !.got = IF Readable(rows[i]) THEN @ \cup {<<i, rows[i].updated>>} ELSE @])
          /\ UNCHANGED entry
  /\ UNCHANGED <<rows, drafts, instant, now>>

ReadFinalMax(r) ==
  /\ At(r, "rows") /\ reqs[r].todo = {}
  /\ Goto(r, [reqs[r] EXCEPT !.stage = "final", !.max = Newest(rows)])
  /\ UNCHANGED <<rows, entry, drafts, instant, now>>

\* The entry may have been replaced or discarded by another request.
Replay(r) ==
  /\ At(r, "final")
  /\ IF SameGeneration(r) /\ entry = reqs[r].entry /\ reqs[r].got # {}
     THEN Goto(r, [Idle EXCEPT !.stage = "replayed", !.got = reqs[r].got,
                               !.sure = reqs[r].sure, !.seen = reqs[r].seen]) /\ UNCHANGED entry
     ELSE Miss(r)
  /\ UNCHANGED <<rows, drafts, instant, now>>

\* After the embedding of the query has been awaited: from one snapshot.
Recall(r) ==
  LET found == {i \in Live(rows) : Allowed(rows[i].is, now) /\ Near(rows[i].is)} IN
  /\ At(r, "recall")
  /\ Goto(r, IF found = {} THEN Idle
             ELSE [reqs[r] EXCEPT !.stage = "label", !.hits = found, !.sure = TRUE,
                                  !.close = {i \in found : rows[i].is.vector}])
  /\ UNCHANGED <<rows, entry, drafts, instant, now>>

LabelMax(r) ==
  /\ At(r, "label")
  /\ Goto(r, [reqs[r] EXCEPT !.stage = "number", !.max = Newest(rows)])
  /\ UNCHANGED <<rows, entry, drafts, instant, now>>

LabelCount(r) ==
  /\ At(r, "number")
  /\ Goto(r, IF reqs[r].max = 0 THEN Idle
             ELSE [reqs[r] EXCEPT !.stage = "store", !.count = Cardinality(Live(rows))])
  /\ UNCHANGED <<rows, entry, drafts, instant, now>>

\* Slip: nothing but the age of an entry ends it.
ExpiryOfAge(t) == t + Ttl

\* The next moment after t at which a memory comes into force.
Expiry(t) ==
  Least({t + Ttl} \cup {f \in {rows[i].is.from : i \in Live(rows)} : f > t})

\* Unless the cache is full of other keys.
Store(r) ==
  /\ At(r, "store")
  /\ \/ entry' = [expires |-> Expiry(reqs[r].began), max |-> reqs[r].max,
                  count |-> reqs[r].count, hits |-> reqs[r].hits,
                  close |-> reqs[r].close, sure |-> reqs[r].sure]
     \/ UNCHANGED entry
  /\ Goto(r, Idle)
  /\ UNCHANGED <<rows, drafts, instant, now>>

\* A search that the model leaves out discards the entry.
Discard ==
  /\ entry # NoEntry /\ entry' = NoEntry
  /\ UNCHANGED <<rows, reqs, drafts, instant, now>>

Answer(r) ==
  /\ At(r, "replayed")
  /\ Goto(r, Idle)
  /\ UNCHANGED <<rows, entry, drafts, instant, now>>

-----------------------------------------------------------------------------
Init ==
  /\ rows \in [Ids -> {NoRow} \cup {Is("live", c, 1) : c \in Contents}]
  /\ entry = NoEntry
  /\ reqs = [r \in Requests |-> Idle]
  /\ drafts = [w \in Writers |-> 0]
  /\ instant = 1
  /\ now = 0

Write ==
  \/ \E i \in Ids : Update(i) \/ Archive(i) \/ Restore(i)
  \/ \E w \in Writers : Draft(w)
  \/ \E w \in Writers, i \in Ids : Create(w, i) \/ Embed(w, i) \/ Import(w, i) \/ Expire(w, i)

Search(r) ==
  \/ Begin(r) \/ Hit(r) \/ NoHit(r) \/ ReadMax(r) \/ ReadCount(r)
  \/ (\E i \in Ids : ReadRow(r, i)) \/ ReadFinalMax(r) \/ Replay(r) \/ Recall(r) \/ LabelMax(r) \/ LabelCount(r)
  \/ Store(r) \/ Answer(r)

Next == Tick \/ Write \/ Discard \/ \E r \in Requests : Search(r)

Spec == Init /\ [][Next]_vars

-----------------------------------------------------------------------------
(* Properties *)

Versions(s) == {<<x[1], x[2]>> : x \in s}
Found(s) == Versions({x \in s : x[3]})

Current(r) == At(r, "replayed") => \E s \in reqs[r].seen : reqs[r].got = Found(s)

\* An answer from the cache is what a recall would have found in the table of one
\* moment, by the clock of one moment, both since the request began: whatever was
\* written, deleted, restored or came into force before, and although each row and
\* each half of the generation is read by itself (search.py:662-1050).  Not so when
\* a write committed between the recall and its label, or between the last two
\* reads of the generation, or had taken its instant before another that was
\* committed.
ReplaysAreCurrent == \A r \in Requests : reqs[r].sure => Current(r)

\* Without exception, every memory in such an answer was, in the version that is
\* given, live, below the ceiling and in force since the request began (README:
\* what is deleted, archived or made sensitive does not leak from the cache).
NothingLeaks ==
  \A r \in Requests : At(r, "replayed") =>
    \A x \in reqs[r].got : \E s \in reqs[r].seen : x \in Versions(s)

\* Entries, drafts and the locals of searches have their types.
TypeOK ==
  /\ rows \in [Ids -> Row \cup {NoRow}]
  /\ entry \in Entry
  /\ reqs \in [Requests -> Req]
  /\ drafts \in [Writers -> 0..MaxInstant]
  /\ instant \in 1..MaxInstant /\ now \in 0..MaxTime
=============================================================================
