--------------------------- MODULE MemoryTimeline ---------------------------
(***************************************************************************)
(* The memories of one user as facts in time: when each holds, which one   *)
(* replaced which, and how the chain of versions of a fact is cut and      *)
(* joined when a row is moved, deleted, restored, merged or purged.        *)
(*                                                                         *)
(* A fact with a key (temporal_subject, temporal_predicate) has its chain  *)
(* kept by key; one without a key is chained only by an automatic          *)
(* supersede.  Every operation runs under SQLite's write lock and is one   *)
(* action, but archive_expired_memories, which selects before it has the   *)
(* lock and is two.  Text, vectors and revisions are in MemoryEdits.       *)
(***************************************************************************)
EXTENDS MemoryPurge, FiniteSets, FiniteSetsExt

CONSTANTS
  MaxTime,   \* bound of the model: instants
  MaxEdits,  \* bound of the model: operations on rows that are there
  Keys,      \* temporal keys
  NoKey,
  Starts,    \* the instants clients write into valid_from
  Ends       \* and into valid_until

ASSUME TimelineAssumption ==
  /\ {MaxId, MaxTime, MaxEdits} \subseteq Nat
  /\ Starts \cup Ends \subseteq 0..MaxTime
  /\ NoKey \notin Keys

VARIABLES
  rows,    \* memories
  now,     \* the clock
  chosen,  \* what archive_expired_memories has selected and not yet written
  edits,   \* operations on rows so far
  cut      \* history: expiry has archived a row that got a key or a chain meanwhile

vars == <<rows, now, chosen, edits, cut>>

Null == 0
Instants == 0..MaxTime
Never == MaxTime + 1   \* a valid_from or valid_until that is NULL

\* "evidence" is evidence_memory_ids.  A live row that an edit gives the status
\* "archived" is left out: it keeps its key, its links and its interval, but the
\* rebuild of a timeline and the queries for facts in force pass over it.
Row == [place: Places,
        status: {"dynamic", "resolved", "pinned"},
        key: Keys \cup {NoKey}, created: Instants,
        from: Instants \cup {Never}, until: Instants \cup {Never},
        sup: Ids \cup {Null}, supBy: Ids \cup {Null}, evidence: SUBSET Ids]

Absent == [place |-> "none", status |-> "dynamic", key |-> NoKey, created |-> 0,
           from |-> Never, until |-> Never, sup |-> Null, supBy |-> Null,
           evidence |-> {}]

TypeOK ==
  /\ rows \in [Ids -> Row]
  /\ now \in Instants
  /\ chosen \subseteq Ids
  /\ edits \in 0..MaxEdits
  /\ cut \in BOOLEAN

Init ==
  /\ rows = [i \in Ids |-> Absent]
  /\ now = 0
  /\ chosen = {}
  /\ edits = 0
  /\ cut = FALSE

-----------------------------------------------------------------------------
(* Intervals *)

\* The effective start: valid_from, or the creation.
Start(r) == IF r.from = Never THEN r.created ELSE r.from

\* Slip: a fact resolved by hand is taken for one that is over.
OfKeyOpen(rs, k) ==
  {i \in Live(rs) : k # NoKey /\ rs[i].key = k /\ rs[i].status # "resolved"}

OfKey(rs, k) == {i \in Live(rs) : k # NoKey /\ rs[i].key = k}

\* Slip: only a row that was replaced is in a chain.
LinkedBack(r) == r.supBy # Null

Linked(r) == r.sup # Null \/ r.supBy # Null

\* is_current_temporal_memory.  An event with a date and no more is never over.
Current(r) ==
  /\ r.from = Never \/ r.from <= now
  /\ r.until = Never => r.supBy = Null
  /\ r.until > now

StatusAt(r, end) ==
  IF r.status = "pinned" THEN "pinned" ELSE IF end <= now THEN "resolved" ELSE "dynamic"

EarliestOf(rs, S) == {i \in S : \A j \in S : Start(rs[i]) <= Start(rs[j])}
LatestOf(rs, S) == {i \in S : \A j \in S : Start(rs[j]) <= Start(rs[i])}

\* One of S, or Null when S is empty: rows equal in what the code sorts by
\* first are told apart by times of update and random identifiers.
OneOf(S) == IF S = {} THEN {Null} ELSE S

-----------------------------------------------------------------------------
(* The chain of a key *)

Before(rs, i, j) ==
  \/ Start(rs[i]) < Start(rs[j])
  \/ Start(rs[i]) = Start(rs[j]) /\ i < j

\* Each row of the key between its neighbours in time.  An end that is the
\* start of the row's old successor was the chain's, not the user's, and is
\* chosen again; a fact resolved by hand, without an end, stays so.
Rebuild(rs, k) ==
  LET S == OfKey(rs, k)
      Prev(i) == {j \in S : Before(rs, j, i)}
      Next(i) == {j \in S : Before(rs, i, j)}
      Pred(i) == {j \in Prev(i) : \A l \in Prev(i) \ {j} : Before(rs, l, j)}
      Succ(i) == {j \in Next(i) : \A l \in Next(i) \ {j} : Before(rs, j, l)}
      Declared(i) ==
        IF rs[i].supBy \in S /\ rs[i].until = Start(rs[rs[i].supBy])
          THEN Never ELSE rs[i].until
      End(i) == Min({Declared(i)} \cup {Start(rs[j]) : j \in Succ(i)})
      ById(P) == CHOOSE j \in OneOf(P) : TRUE
  IN [i \in Ids |->
       IF i \notin S THEN rs[i]
       ELSE [rs[i] EXCEPT
              !.until = End(i), !.sup = ById(Pred(i)), !.supBy = ById(Succ(i)),
              !.status = IF @ = "resolved" /\ End(i) = Never THEN @
                         ELSE StatusAt(rs[i], End(i))]]

\* The facts of n's key that hold when n starts or end then, and those that
\* start later.
Eligible(rs, n) ==
  {i \in OfKey(rs, rs[n].key) \ {n} : Start(rs[i]) <= Start(rs[n]) /\ rs[i].until >= Start(rs[n])}
Later(rs, n) == {i \in OfKey(rs, rs[n].key) \ {n} : Start(rs[i]) > Start(rs[n])}

\* n with p before it, and s after it unless n ends before s starts.
Opened(rs, n, p, s) ==
  IF s = Null \/ Start(rs[s]) >= rs[n].until
  THEN [rs[n] EXCEPT !.sup = p, !.supBy = Null]
  ELSE [rs[n] EXCEPT !.sup = p, !.supBy = s, !.until = Start(rs[s]),
          !.status = IF @ # "pinned" /\ Start(rs[s]) <= now THEN "resolved" ELSE @]

\* A row that ends where n starts.
Closed(rs, n, i) ==
  [rs[i] EXCEPT !.until = Start(rs[n]), !.supBy = n,
     !.status = IF @ # "pinned" /\ Start(rs[n]) <= now THEN "resolved" ELSE @]

Between(rs, n, p, s) ==
  [i \in Ids |->
     IF i = n THEN Opened(rs, n, p, s)
     ELSE IF i \in Eligible(rs, n) THEN Closed(rs, n, i)
     ELSE IF i = s /\ Opened(rs, n, p, s).supBy = s THEN [rs[i] EXCEPT !.sup = n]
     ELSE rs[i]]

\* A new or moved fact closes every fact of its key that holds when it starts
\* and ends where the next one starts.
Invalidate(rs, n) ==
  IF Eligible(rs, n) \cup Later(rs, n) = {} THEN {rs}
  ELSE {Between(rs, n, p, s) : p \in OneOf(LatestOf(rs, Eligible(rs, n))),
                               s \in OneOf(EarliestOf(rs, Later(rs, n)))}

\* The neighbours that row m has by its links in mem, or by theirs.
Preds(rs, m, mem) ==
  IF mem.sup \in Live(rs) THEN {mem.sup}
  ELSE OneOf(LatestOf(rs, {i \in Live(rs) : rs[i].supBy = m}))
Succs(rs, m, mem) ==
  IF mem.supBy \in Live(rs) THEN {mem.supBy}
  ELSE OneOf(EarliestOf(rs, {i \in Live(rs) : rs[i].sup = m}))

\* p with s after it: an end that mem gave it moves to the start of s.
Bridged(rs, mem, p, s) ==
  LET end == IF rs[p].until # Start(mem) THEN rs[p].until
             ELSE IF s = Null THEN Never ELSE Start(rs[s])
  IN [rs[p] EXCEPT !.until = end, !.supBy = s,
        !.status = IF @ = "resolved" /\ rs[p].until = Never THEN @ ELSE StatusAt(rs[p], end)]

Joined(rs, mem, p, s) ==
  [i \in Ids |->
     LET r == IF i = p THEN Bridged(rs, mem, p, s) ELSE rs[i]
     IN IF i = s THEN [r EXCEPT !.sup = p] ELSE r]

\* Takes row m out of the place mem in its chain and joins its neighbours.
Detach(rs, m, mem) ==
  {Joined(rs, mem, p, s) : p \in Preds(rs, m, mem), s \in Succs(rs, m, mem)}

\* Whether the end of r is the start of the row that replaced it.
Synthesized(rs, r) == r.supBy # Null /\ r.until = Start(rs[r.supBy])

-----------------------------------------------------------------------------
(* Operations *)

Edit == edits < MaxEdits /\ edits' = edits + 1

New == {i \in Ids : rows[i].place = "none" /\ \A j \in Ids : j < i => rows[j].place # "none"}

\* The update keeps one start before the other.
Interval(from, until) == from = Never \/ until = Never \/ from <= until

\* Slip: a fact that was replaced is offered again.
SupersedableAgain(n, rs) ==
  {i \in Live(rs) \ {n} : rs[i].key = NoKey /\ Start(rs[i]) <= Start(rs[n])}

\* What resolver offers create_memory to supersede, read under its lock.
Supersedable(n, rs) ==
  {i \in Live(rs) \ {n} :
     /\ rs[i].key = NoKey /\ rs[i].status = "dynamic" /\ rs[i].supBy = Null
     /\ Current(rs[i]) /\ Start(rs[i]) <= Start(rs[n])}

AutoSupersede(rs, n, t) ==
  [rs EXCEPT ![n].sup = t, ![t].supBy = n, ![t].status = "resolved",
             ![t].until = Start(rs[n])]

\* A fact is saved, with a key or without one; one without a key that starts
\* by now may say that another no longer holds.  Each creation has an instant
\* of its own.
create_memory ==
  /\ now < MaxTime
  /\ \E n \in New, k \in Keys \cup {NoKey},
        from \in Starts \cup {Never}, until \in Ends \cup {Never} :
       /\ Interval(from, until)
       /\ LET r == [Absent EXCEPT !.place = "live", !.key = k, !.created = now,
                      !.from = from, !.until = until]
              rs == [rows EXCEPT ![n] = r]
          IN \/ \E rs2 \in Invalidate(rs, n) : rows' = rs2
             \/ /\ k = NoKey /\ (from = Never \/ from <= now)
                /\ \E t \in Supersedable(n, rs) : rows' = AutoSupersede(rs, n, t)
  /\ now' = now + 1
  /\ UNCHANGED <<chosen, edits, cut>>

\* An edit of the key or of the interval moves the fact.  Its old neighbours
\* are joined; an end that came from its successor stays behind, and with it
\* the status it had from that end, unless the edit sets an end.
Move(m, k, from, until, setsEnd) ==
  LET old == rows[m]
      leaves == ~setsEnd /\ old.supBy # Null /\ (from # old.from \/ k # old.key)
      end == IF leaves THEN Never ELSE IF setsEnd THEN until ELSE old.until
      moved == [old EXCEPT !.key = k, !.from = from, !.until = end,
                  !.status = IF leaves /\ @ = "resolved" THEN "dynamic" ELSE @,
                  !.sup = Null, !.supBy = Null]
      Placed(rs) == IF k = NoKey THEN {rs} ELSE Invalidate(rs, m)
      Rebuilt(rs) == IF old.key = k THEN Rebuild(rs, k) ELSE Rebuild(Rebuild(rs, old.key), k)
  IN /\ Interval(from, end)
     /\ <<k, from, end>> # <<old.key, old.from, old.until>>
     /\ \E rs \in Detach(rows, m, old) : \E rs2 \in Placed([rs EXCEPT ![m] = moved]) :
          rows' = Rebuilt(rs2)

\* One edit moves a fact or gives it another status.
update_memory ==
  /\ Edit
  /\ \E m \in Live(rows) :
       \/ \E k \in Keys \cup {NoKey}, from \in Starts \cup {Never}, setsEnd \in BOOLEAN :
            \E until \in IF setsEnd THEN Ends \cup {Never} ELSE {Never} :
              Move(m, k, from, until, setsEnd)
       \/ \E status \in {"dynamic", "resolved", "pinned"} \ {rows[m].status} :
            rows' = [rows EXCEPT ![m].status = status]
  /\ UNCHANGED <<now, chosen, cut>>

\* A deleted row of an unkeyed chain stands alone in the trash.
Unlink(rs, m, mem) ==
  {LET reopened == Synthesized(rows, mem)
   IN [rs2 EXCEPT
        ![m].sup = Null, ![m].supBy = Null,
        ![m].until = IF reopened THEN Never ELSE @,
        ![m].status = IF reopened /\ @ # "pinned" THEN "dynamic" ELSE @]
   : rs2 \in Detach(rs, m, mem)}

archive_memory ==
  /\ Edit
  /\ \E m \in Live(rows) :
       LET mem == rows[m]
           rs == [rows EXCEPT ![m].place = "trash"]
       IN IF mem.key # NoKey THEN rows' = Rebuild(rs, mem.key)
          ELSE IF Linked(mem) THEN \E rs2 \in Unlink(rs, m, mem) : rows' = rs2
          ELSE rows' = rs
  /\ UNCHANGED <<now, chosen, cut>>

restore_memory ==
  /\ Edit
  /\ \E m \in Trash(rows) :
       LET keyed == rows[m].key # NoKey
           rs == [rows EXCEPT ![m].place = "live",
                    ![m].status = IF keyed /\ @ # "pinned" THEN "dynamic" ELSE @]
       IN rows' = IF keyed THEN Rebuild(rs, rows[m].key) ELSE rs
  /\ UNCHANGED <<now, chosen, cut>>

\* Undoes a supersede between facts without a key; both hold again.
Reopen(m) ==
  LET r == rows[m]
      s == r.supBy
      opened == [r EXCEPT !.supBy = Null,
                   !.until = IF Synthesized(rows, r) THEN Never ELSE @,
                   !.status = IF @ = "pinned" THEN @ ELSE "dynamic"]
  IN [i \in Ids |->
       IF i = m THEN opened
       ELSE IF i = s /\ rows[i].place = "live" /\ rows[i].sup = m
         THEN [rows[i] EXCEPT !.sup = Null] ELSE rows[i]]

\* A fact that no longer holds holds again: an unkeyed one that was superseded
\* in its place, any other as a new row that starts now.
restore_temporal_memory ==
  /\ Edit
  /\ \E m \in Live(rows) :
       LET r == rows[m]
       IN /\ ~(r.status \in {"dynamic", "pinned"} /\ r.supBy = Null
               /\ Start(r) <= now /\ r.until > now)
          /\ \/ /\ r.key = NoKey /\ r.supBy # Null
                /\ rows' = Reopen(m)
                /\ UNCHANGED now
             \/ /\ r.key # NoKey \/ r.supBy = Null
                /\ now < MaxTime /\ now' = now + 1
                /\ \E n \in New :
                     LET copy == [r EXCEPT !.created = now, !.from = now, !.until = Never,
                                    !.status = IF @ = "pinned" THEN @ ELSE "dynamic",
                                    !.sup = Null, !.supBy = Null]
                     IN \E rs \in Invalidate([rows EXCEPT ![n] = copy], n) : rows' = rs
  /\ UNCHANGED <<chosen, cut>>

Signature(r) == <<r.key, r.from, r.until, r.sup, r.supBy>>
Shared(S, default) == IF Cardinality(S) = 1 THEN CHOOSE x \in S : TRUE ELSE default

\* Several memories become one; versions of a fact in time are never mixed, and
\* the merged row is left where it was in its chain.
merge_memories ==
  /\ Edit
  /\ \E S \in {T \in SUBSET Live(rows) : Cardinality(T) > 1} : \E t \in S :
       /\ (\E i \in S : rows[i].key # NoKey \/ Linked(rows[i]))
            => \A i \in S : Signature(rows[i]) = Signature(rows[t])
       /\ rows' = [i \in Ids |->
            IF i = t THEN [rows[t] EXCEPT
                             !.evidence = S \cup UNION {rows[j].evidence : j \in S},
                             !.from = Shared({rows[j].from : j \in S}, Never),
                             !.until = Shared({rows[j].until : j \in S}, Never)]
            ELSE IF i \in S THEN [rows[i] EXCEPT !.place = "trash"]
            ELSE rows[i]]
  /\ UNCHANGED <<now, chosen, cut>>

-----------------------------------------------------------------------------
(* Deletion for good and expiry *)

\* The first row that a link to "at" leads to past the purged ones, unless that
\* is row i itself; Null when the links end, or go round among the purged.
Follow(rs, gone, i, at, link) ==
  LET Passes(C) == \A c \in C \cap gone : link[c] \in C
      past == {j \in Kept(rs) \ (gone \cup {i}) :
                 \A C \in SUBSET (Ids \cup {Null}) : at \in C /\ Passes(C) => j \in C}
  IN CHOOSE j \in OneOf(past) : TRUE

Purge(rs, S) ==
  LET gone == Dependents(rs, S)
      sup == [i \in Ids |-> rs[i].sup]
      supBy == [i \in Ids |-> rs[i].supBy]
      Past(i, link) == IF link[i] \in gone THEN Follow(rs, gone, i, link[i], link) ELSE link[i]
  IN [i \in Ids |->
       IF i \in gone THEN [Absent EXCEPT !.place = "purged"]
       ELSE [rs[i] EXCEPT !.sup = Past(i, sup), !.supBy = Past(i, supBy)]]

\* purge_archived_memory of one row, or a batch of them.
purge_archived_memory ==
  /\ Edit
  /\ \E S \in SUBSET Trash(rows) :
       S # {} /\ rows' = Purge(rows, S)
  /\ UNCHANGED <<now, chosen, cut>>

\* archive_expired_memories selects the unchained rows that are over ...
SelectExpired ==
  /\ Edit
  /\ chosen = {}
  /\ chosen' = {i \in Live(rows) : /\ rows[i].key = NoKey /\ ~Linked(rows[i])
                                   /\ rows[i].until < now}
  /\ chosen' # {}
  /\ UNCHANGED <<rows, now, cut>>

\* ... and then, with the lock, moves those still live to the trash.
ArchiveExpired ==
  LET archived == chosen \cap Live(rows)
  IN /\ chosen # {}
     /\ rows' = [i \in Ids |-> IF i \in archived THEN [rows[i] EXCEPT !.place = "trash"]
                               ELSE rows[i]]
     /\ cut' = (cut \/ \E i \in archived : rows[i].key # NoKey \/ Linked(rows[i]))
     /\ chosen' = {}
     /\ UNCHANGED <<now, edits>>

Tick == now < MaxTime /\ now' = now + 1 /\ UNCHANGED <<rows, chosen, edits, cut>>

Next ==
  \/ create_memory
  \/ update_memory
  \/ archive_memory
  \/ restore_memory
  \/ restore_temporal_memory
  \/ merge_memories
  \/ purge_archived_memory
  \/ SelectExpired
  \/ ArchiveExpired
  \/ Tick

Spec == Init /\ [][Next]_vars

-----------------------------------------------------------------------------
(* What must hold *)

Overlap(a, b) == Start(a) < b.until /\ Start(b) < a.until
Timeless(r) == r.until <= Start(r)

\* Two live facts of one key never hold at the same time, whatever edits,
\* deletions, restores and purges came between (temporal.py), until expiry cuts a
\* chain: a row left half linked may later give a fact an end that is not its own.
FactsDontOverlap ==
  ~cut => \A i, j \in Live(rows) :
            /\ i # j /\ rows[i].key = rows[j].key /\ rows[i].key # NoKey
            => ~Overlap(rows[i], rows[j])

\* The links of a live row lead to live rows of its own chain, never into the
\* trash, to a purged row or across keys (_rebuild_temporal_key, _detach).
NoDanglingLinks ==
  \A i \in Live(rows) : \A j \in {rows[i].sup, rows[i].supBy} \ {Null} :
    j \in Live(rows) /\ rows[j].key = rows[i].key

\* Only expiry, which acts on what it read earlier, and a merge of versions, one of
\* which holds at no time, can leave a link that dangles (_detach, _rebuild).
ChainsSurvive ==
  [][NoDanglingLinks /\ ~cut' =>
       \/ NoDanglingLinks'
       \/ merge_memories /\ \E i \in Live(rows) : rows[i].key # NoKey /\ Timeless(rows[i])]_vars

\* Without a key, one row replaced another exactly if that one was replaced by
\* it: cutting and joining keeps both ends of every link (_unlink_keyless).
LinksArePaired ==
  ~cut => \A i, j \in Live(rows) :
            rows[i].key = NoKey => (rows[i].supBy = j <=> rows[j].sup = i /\ rows[j].key = NoKey)

\* No row that is kept rests on evidence that was purged.
PurgeReachesAll ==
  \A i \in Kept(rows) : \A j \in rows[i].evidence : rows[j].place # "purged"
=============================================================================
