------------------------- MODULE MemorySearchProofs -------------------------
(***************************************************************************)
(* The two caches of a memory search: what the cache of recall results     *)
(* gives again, for any number of memories, searches, writers and          *)
(* instants, and, at the end, what the cached matrices of VectorIndex      *)
(* score, for any number of spaces, threads and writes.                    *)
(***************************************************************************)
EXTENDS RecallCache, VectorIndex, FiniteSetTheorems, TLAPS

Tables == [Ids -> Row \cup {NoRow}]

\* No writer to come has the instant m.
Taken(m) == m <= instant /\ \A w \in Writers : drafts[w] # m

\* A live memory has the instant m.
Stands(m) == \E i \in Live(rows) : rows[i].updated = m

\* Writers hold instants of their own.
Stamps ==
  /\ \A w \in Writers : drafts[w] <= instant
  /\ \A v, w \in Writers : drafts[v] = drafts[w] /\ drafts[w] # 0 => v = w
  /\ \A i \in Live(rows) : Taken(rows[i].updated)

Finds(rs, t) == {i \in Live(rs) : Allowed(rs[i].is, t) /\ Near(rs[i].is)}

\* An entry has the hits and the generation of one table; no memory of it comes
\* into force before the entry expires; and as long as a memory has the newest
\* instant of the entry, a live one that is not of that table is newer.
Tells(e) ==
  /\ e.max # 0 /\ Taken(e.max)
  /\ \E rs \in Tables, t \in 0..now :
       /\ e.hits = Finds(rs, t) /\ e.count = Cardinality(Live(rs))
       /\ \A i \in Live(rs) : rs[i].is.from <= t \/ rs[i].is.from >= e.expires
       /\ Stands(e.max) =>
            \A i \in Live(rows) : rows[i] = rs[i] \/ rows[i].updated > e.max

\* A recall that is being labelled is of the present table.
LabelFits(q) ==
  q.stage \in Labelling /\ q.sure =>
    /\ \E t \in q.began..now : q.hits = Finds(rows, t)
    /\ q.stage \in {"number", "store"} => q.max = Newest(rows)
    /\ q.stage = "store" => q.max # 0 /\ q.count = Cardinality(Live(rows))

Replaying == {"max", "count", "rows", "final"}

\* As long as a memory has the newest instant of the entry, each hit that has been
\* read, and is as old as the entry, is the one that was read.
ReplayFits(q) ==
  q.stage \in Replaying =>
    /\ q.began < q.entry.expires
    /\ q.sure => q.entry.sure
    /\ q.todo \subseteq q.entry.hits
    /\ \A x \in q.got : x[1] \in q.entry.hits \ q.todo
    /\ q.sure /\ Stands(q.entry.max) =>
         \A i \in (q.entry.hits \ q.todo) \cap Live(rows) :
           rows[i].updated <= q.entry.max =>
             \A u \in Nat : <<i, u>> \in q.got <=> u = rows[i].updated
    /\ q.stage = "final" => q.todo = {} /\ (q.sure => q.max = Newest(rows))

\* What is eligible now has been seen, and whatever was read had been.
SeenFits(q) ==
  /\ q.stage \in Looking => \A t \in q.began..now : Eligible(rows, t) \in q.seen
  /\ \A x \in q.got : \E s \in q.seen : x \in Versions(s)
  /\ q.stage = "get" => q.got = {}

Fits(q) ==
  /\ q.began <= now
  /\ q.entry.sure => Tells(q.entry)
  /\ LabelFits(q) /\ ReplayFits(q) /\ SeenFits(q)
  /\ q.stage = "replayed" /\ q.sure => \E s \in q.seen : q.got = Found(s)

IInv ==
  /\ TypeOK /\ Stamps
  /\ entry.sure => Tells(entry)
  /\ \A r \in Requests : Fits(reqs[r])

-----------------------------------------------------------------------------
(* Tables *)

LEMMA RowFacts ==
  ASSUME NEW rs \in Tables, NEW i \in Live(rs)
  PROVE  /\ i \in Ids /\ rs[i] \in Row /\ rs[i].place = "live"
         /\ rs[i].is \in [words: BOOLEAN, vector: BOOLEAN, sensitive: BOOLEAN, from: Nat]
         /\ rs[i].updated \in 1..MaxInstant
<1>1. i \in Ids /\ rs[i].place = "live"
  BY DEF Live
<1>2. rs[i] \in Row
  BY <1>1 DEF Tables, NoRow
<1> QED BY <1>1, <1>2, RecallAssumption DEF Row

LEMMA LiveFacts ==
  ASSUME NEW rs \in Tables
  PROVE  /\ IsFiniteSet(Live(rs)) /\ Live(rs) \subseteq Ids
         /\ Cardinality(Live(rs)) \in 0..Cardinality(Ids)
<1>1. Live(rs) \subseteq Ids /\ IsFiniteSet(Ids)
  BY RecallAssumption DEF Live
<1>2. IsFiniteSet(Live(rs)) /\ Cardinality(Live(rs)) <= Cardinality(Ids)
  BY <1>1, FS_Subset
<1>3. Cardinality(Live(rs)) \in Nat /\ Cardinality(Ids) \in Nat
  BY <1>1, <1>2, FS_CardinalityType
<1> QED BY <1>1, <1>2, <1>3

IsLargest(m, S) == m \in S /\ \A k \in S : k <= m

\* Numbers below a bound have a largest: where the table is asked for its newest.
LEMMA LargestExists ==
  ASSUME NEW b \in Nat, NEW S \in SUBSET (0..b), S # {}
  PROVE  \E m \in S : IsLargest(m, S)
<1> DEFINE Above == {k..b : k \in S}
<1>1. Above \subseteq FiniteSubsetsOf(Nat) /\ Above # {}
  <2>1. \A k \in S : k..b \in SUBSET Nat /\ IsFiniteSet(k..b)
    BY FS_Interval
  <2> QED BY <2>1 DEF FiniteSubsetsOf
<1>2. PICK B \in Above : \A C \in Above : ~(<<C, B>> \in StrictSubsetOrdering(Nat))
  <2>1. IsWellFoundedOn(StrictSubsetOrdering(Nat), FiniteSubsetsOf(Nat))
    BY FS_StrictSubsetOrderingWellFounded
  <2> HIDE DEF Above
  <2> QED BY <1>1, <2>1, WFMin
<1>3. PICK m \in S : B = m..b
  BY <1>2
<1>4. ASSUME NEW k \in S PROVE k <= m
  <2>1. SUFFICES ASSUME k > m PROVE FALSE
    OBVIOUS
  <2>2. k..b \subseteq m..b /\ m \in m..b /\ m \notin k..b
    BY <2>1
  <2>3. <<k..b, B>> \in StrictSubsetOrdering(Nat)
    BY <1>3, <2>2 DEF StrictSubsetOrdering
  <2> QED BY <1>2, <2>3
<1> QED BY <1>3, <1>4 DEF IsLargest

LEMMA NewestFacts ==
  ASSUME NEW rs \in Tables
  PROVE  /\ Newest(rs) \in 0..MaxInstant
         /\ \A i \in Live(rs) : rs[i].updated <= Newest(rs)
         /\ Newest(rs) # 0 => \E i \in Live(rs) : rs[i].updated = Newest(rs)
<1> DEFINE S == {rs[i].updated : i \in Live(rs)}
<1>1. S \in SUBSET (0..MaxInstant) /\ MaxInstant \in Nat
  BY RowFacts, RecallAssumption
<1>2. CASE S = {}
  <2>1. Newest(rs) = 0  BY <1>2 DEF Newest, Largest
  <2> QED BY <1>1, <1>2, <2>1
<1>3. CASE S # {}
  <2>1. \E m \in S : IsLargest(m, S)
    BY <1>1, <1>3, LargestExists
  <2>2. Newest(rs) = CHOOSE n \in S : \A m \in S : m <= n
    BY <1>3 DEF Newest, Largest
  <2> HIDE DEF S
  <2>3. Newest(rs) \in S /\ \A k \in S : k <= Newest(rs)
    BY <2>1, <2>2 DEF IsLargest
  <2> USE DEF S
  <2> QED BY <1>1, <2>3
<1> QED BY <1>2, <1>3

\* What a recall finds, and what it would have found, are told alike.
LEMMA FoundEligible ==
  ASSUME NEW rs \in Tables, NEW t \in Nat
  PROVE  /\ Eligible(rs, t) \in SUBSET (Ids \X Nat \X BOOLEAN)
         /\ Found(Eligible(rs, t)) = {<<i, rs[i].updated>> : i \in Finds(rs, t)}
         /\ \A i \in Live(rs) : Allowed(rs[i].is, t) =>
              <<i, rs[i].updated>> \in Versions(Eligible(rs, t))
<1> DEFINE Told(i) == <<i, rs[i].updated, Near(rs[i].is)>>
           In == {j \in Live(rs) : Allowed(rs[j].is, t)}
           E == {Told(i) : i \in In}
<1>1. Eligible(rs, t) = E
  BY DEF Eligible
<1>2. \A i \in In : i \in Ids /\ rs[i].updated \in Nat /\ Near(rs[i].is) \in BOOLEAN
  BY RowFacts DEF Near
<1>3. E \in SUBSET (Ids \X Nat \X BOOLEAN)
  BY <1>2
<1>4. Found(E) = {<<i, rs[i].updated>> : i \in Finds(rs, t)}
  <2>1. {x \in E : x[3]} = {Told(i) : i \in Finds(rs, t)}
    <3>1. ASSUME NEW x \in E, x[3] PROVE x \in {Told(i) : i \in Finds(rs, t)}
      BY <3>1 DEF Finds
    <3>2. ASSUME NEW i \in Finds(rs, t) PROVE Told(i) \in E /\ Told(i)[3]
      BY DEF Finds
    <3> QED BY <3>1, <3>2
  <2>2. Found(E) = {<<x[1], x[2]>> : x \in {Told(i) : i \in Finds(rs, t)}}
    BY <2>1 DEF Found, Versions
  <2>3. \A i : Told(i)[1] = i /\ Told(i)[2] = rs[i].updated
    OBVIOUS
  <2> HIDE DEF Told
  <2> QED BY <2>2, <2>3
<1>5. ASSUME NEW i \in Live(rs), Allowed(rs[i].is, t)
      PROVE  <<i, rs[i].updated>> \in Versions(E)
  <2>1. Told(i) \in E /\ <<Told(i)[1], Told(i)[2]>> = <<i, rs[i].updated>>
    BY <1>5
  <2> QED BY <2>1 DEF Versions
<1> QED BY <1>1, <1>3, <1>4, <1>5

-----------------------------------------------------------------------------
(* Writers *)

\* What is watched for a request is added to what it has seen.
LEMMA WatchFacts ==
  ASSUME NEW q \in Req, NEW rs \in Tables, NEW t \in 0..MaxTime
  PROVE  /\ Watch(q, rs, t) \in Req
         /\ Watch(q, rs, t) = [q EXCEPT !.seen = Watch(q, rs, t).seen]
         /\ q.seen \subseteq Watch(q, rs, t).seen
         /\ q.stage \in Looking =>
              \A u \in q.began..t : Eligible(rs, u) \in Watch(q, rs, t).seen
<1>1. CASE q.stage \in Looking
  <2> DEFINE more == {Eligible(rs, u) : u \in q.began..t}
  <2>1. Watch(q, rs, t) = [q EXCEPT !.seen = q.seen \cup more]
    BY <1>1 DEF Watch
  <2>2. q.began \in Nat /\ MaxTime \in Nat /\ q.began..t \subseteq Nat
    BY RecallAssumption DEF Req
  <2>3. \A u \in Nat : Eligible(rs, u) \in SUBSET (Ids \X Nat \X BOOLEAN)
    BY FoundEligible
  <2>4. more \in SUBSET SUBSET (Ids \X Nat \X BOOLEAN)
    BY <2>2, <2>3
  <2>5. \A u \in q.began..t : Eligible(rs, u) \in more
    OBVIOUS
  <2> HIDE DEF more
  <2> QED BY <2>1, <2>4, <2>5 DEF Req
<1>2. CASE q.stage \notin Looking
  <2>1. Watch(q, rs, t) = q  BY <1>2 DEF Watch
  <2> QED BY <1>2, <2>1 DEF Req
<1> QED BY <1>1, <1>2

\* A request when rs has been committed.
After(q, rs, early) ==
  [Watch(q, rs, now) EXCEPT
     !.sure = @ /\ ~early /\ q.stage \notin Tearable,
     !.entry.sure = @ /\ ~early]

\* ... has seen more, and may be less sure.
Carries(q, new, rs, early) ==
  /\ new \in Req
  /\ new.stage = q.stage /\ new.began = q.began /\ new.max = q.max
  /\ new.todo = q.todo /\ new.got = q.got /\ new.hits = q.hits
  /\ new.entry.expires = q.entry.expires /\ new.entry.max = q.entry.max
  /\ new.entry.count = q.entry.count /\ new.entry.hits = q.entry.hits
  /\ new.entry.sure <=> q.entry.sure /\ ~early
  /\ new.sure <=> q.sure /\ ~early /\ q.stage \notin Tearable
  /\ q.seen \subseteq new.seen
  /\ q.stage \in Looking => \A t \in q.began..now : Eligible(rs, t) \in new.seen

LEMMA AfterFacts ==
  ASSUME TypeOK, NEW q \in Req, NEW rs \in Tables, NEW early \in BOOLEAN
  PROVE  Carries(q, After(q, rs, early), rs, early)
<1> DEFINE w == Watch(q, rs, now)
           e == [q.entry EXCEPT !.sure = @ /\ ~early]
<1>1. /\ w \in Req /\ w = [q EXCEPT !.seen = w.seen] /\ q.seen \subseteq w.seen
      /\ q.stage \in Looking => \A t \in q.began..now : Eligible(rs, t) \in w.seen
  BY WatchFacts DEF TypeOK
<1>2. q.entry \in Entry /\ q.sure \in BOOLEAN /\ q.entry.sure \in BOOLEAN
  BY DEF Req, Entry
<1>3. e \in Entry
  BY <1>2 DEF Entry
<1>4. w.entry = q.entry /\ w.sure = q.sure
  BY <1>1 DEF Req
<1>5. After(q, rs, early) =
        [w EXCEPT !.sure = q.sure /\ ~early /\ q.stage \notin Tearable, !.entry = e]
  BY <1>1, <1>4 DEF After, Req
<1> HIDE DEF w
<1> DEFINE new == After(q, rs, early)
<1>6. new \in Req
  BY <1>1, <1>2, <1>3, <1>5 DEF Req
<1>7. /\ w.stage = q.stage /\ w.began = q.began /\ w.max = q.max
      /\ w.todo = q.todo /\ w.got = q.got /\ w.hits = q.hits
  BY <1>1 DEF Req
<1>8. /\ new.stage = w.stage /\ new.began = w.began /\ new.max = w.max
      /\ new.todo = w.todo /\ new.got = w.got /\ new.hits = w.hits /\ new.seen = w.seen
      /\ new.entry = e
      /\ new.sure = (q.sure /\ ~early /\ q.stage \notin Tearable)
  BY <1>1, <1>5 DEF Req
<1>9. /\ e.expires = q.entry.expires /\ e.max = q.entry.max
      /\ e.count = q.entry.count /\ e.hits = q.entry.hits
      /\ e.sure = (q.entry.sure /\ ~early)
  BY <1>2 DEF Entry
<1> HIDE DEF e, new
<1>10. Carries(q, new, rs, early)
  BY <1>1, <1>2, <1>6, <1>7, <1>8, <1>9 DEF Carries
<1> QED BY <1>10 DEF new

\* A commit with an instant that nobody had, whether it was taken in order (then
\* it is newer than everything that stands) or not (then nothing is sure any more).
LEMMA CommitKeeps ==
  ASSUME IInv, NEW i \in Ids, NEW place \in {"live", "trash"}, NEW c \in Contents,
         NEW stamp \in 1..MaxInstant, ~Taken(stamp),
         NEW rs, rs = [rows EXCEPT ![i] = Is(place, c, stamp)], Commit(rs, stamp),
         instant' \in 1..MaxInstant, instant <= instant', stamp <= instant',
         drafts' \in [Writers -> 0..MaxInstant],
         \A w \in Writers : drafts'[w] \in {0, drafts[w]} /\ drafts'[w] # stamp
  PROVE  IInv'
<1>early. PICK early \in BOOLEAN : early <=> stamp < Newest(rows)
  OBVIOUS
<1>0. TypeOK /\ Stamps /\ instant \in 1..MaxInstant /\ MaxInstant \in Nat /\ now \in 0..MaxTime
  BY RecallAssumption DEF IInv, TypeOK
<1>1. rows \in Tables /\ rs \in Tables
  BY <1>0 DEF TypeOK, Tables, Row, Is
<1>2. /\ rows' = rs /\ now' = now
      /\ entry' = IF early THEN [entry EXCEPT !.sure = FALSE] ELSE entry
      /\ reqs' = [r \in Requests |-> After(reqs[r], rs, early)]
  BY <1>early DEF Commit, After
<1>3. /\ rs[i] = Is(place, c, stamp) /\ rs[i].updated = stamp
      /\ \A j \in Ids \ {i} : rs[j] = rows[j]
      /\ \A j \in Live(rs) \ {i} : j \in Live(rows) /\ rs[j] = rows[j]
  BY <1>1 DEF Tables, Live, Is
<1>4. \A m \in Nat \ {0} : (Taken(m) => Taken(m)') /\ Taken(stamp)'
  BY <1>0 DEF Taken, TypeOK
<1>5. Stamps'
  <2>1. ASSUME NEW j \in Live(rs) PROVE Taken(rs[j].updated)'
    <3>1. CASE j = i  BY <1>3, <1>4, <3>1
    <3>2. CASE j # i
      <4>1. j \in Live(rows) /\ rs[j] = rows[j]  BY <1>3, <3>2
      <4>2. Taken(rows[j].updated) /\ rows[j].updated \in Nat \ {0}
        BY <1>0, <1>1, <4>1, RowFacts DEF Stamps
      <4> QED BY <1>4, <4>1, <4>2
    <3> QED BY <3>1, <3>2
  <2>2. /\ \A w \in Writers : drafts'[w] <= instant'
        /\ \A v, w \in Writers : drafts'[v] = drafts'[w] /\ drafts'[w] # 0 => v = w
    BY <1>0 DEF Stamps, TypeOK
  <2> QED BY <1>2, <2>1, <2>2 DEF Stamps
<1>6. ASSUME NEW m \in Nat, Taken(m), Stands(m)' PROVE Stands(m)
  <2>1. PICK j \in Live(rs) : rs[j].updated = m
    BY <1>2, <1>6 DEF Stands
  <2>2. j # i  BY <1>3, <1>6, <2>1
  <2> QED BY <1>3, <2>1, <2>2 DEF Stands
<1>7. ASSUME ~early, NEW m \in Nat, Stands(m) PROVE stamp > m
  <2>1. PICK j \in Live(rows) : rows[j].updated = m
    BY <1>7 DEF Stands
  <2>2. m <= Newest(rows) /\ Newest(rows) \in Nat
    BY <1>0, <1>1, <2>1, NewestFacts
  <2>3. m # stamp
    BY <1>0, <2>1 DEF Stamps
  <2> QED BY <1>early, <1>0, <1>7, <2>2, <2>3
<1>8. ASSUME ~early, NEW e, e.max \in Nat, Tells(e) PROVE Tells(e)'
  <2>1. PICK old \in Tables, t \in 0..now :
          /\ e.hits = Finds(old, t) /\ e.count = Cardinality(Live(old))
          /\ \A j \in Live(old) : old[j].is.from <= t \/ old[j].is.from >= e.expires
          /\ Stands(e.max) => \A j \in Live(rows) : rows[j] = old[j] \/ rows[j].updated > e.max
    BY <1>8 DEF Tells
  <2>2. e.max # 0 /\ Taken(e.max) /\ Taken(e.max)'
    BY <1>4, <1>8 DEF Tells
  <2>3. ASSUME Stands(e.max)', NEW j \in Live(rs)
        PROVE  rs[j] = old[j] \/ rs[j].updated > e.max
    <3>1. Stands(e.max) /\ stamp > e.max
      BY <1>6, <1>7, <1>8, <2>2, <2>3
    <3> QED BY <1>3, <2>1, <3>1
  <2> QED BY <1>2, <2>1, <2>2, <2>3 DEF Tells
<1>9. entry' \in Entry /\ (entry'.sure => Tells(entry)')
  <2>1. entry \in Entry /\ entry.max \in Nat  BY <1>0 DEF TypeOK, Entry
  <2>2. CASE early
    BY <1>2, <2>1, <2>2 DEF Entry
  <2>3. CASE ~early
    <3>1. entry' = entry  BY <1>2, <2>3
    <3> QED BY <1>8, <2>1, <2>3, <3>1 DEF IInv
  <2> QED BY <2>2, <2>3
<1>10. ASSUME NEW r \in Requests PROVE reqs'[r] \in Req /\ Fits(reqs[r])'
  <2>2. PICK q \in Req : q = reqs[r] /\ Fits(q)  BY <1>0 DEF TypeOK, IInv
  <2>0. PICK new : new = After(q, rs, early)  OBVIOUS
  <2>1. reqs'[r] = new  BY <1>2, <2>0, <2>2
  <2>3. /\ new \in Req
        /\ new.stage = q.stage /\ new.began = q.began /\ new.max = q.max
        /\ new.todo = q.todo /\ new.got = q.got /\ new.hits = q.hits
        /\ new.entry.expires = q.entry.expires /\ new.entry.max = q.entry.max
        /\ new.entry.count = q.entry.count /\ new.entry.hits = q.entry.hits
        /\ (new.entry.sure <=> q.entry.sure /\ ~early)
        /\ (new.sure <=> q.sure /\ ~early /\ q.stage \notin Tearable)
        /\ q.seen \subseteq new.seen
        /\ (q.stage \in Looking => \A t \in q.began..now : Eligible(rs, t) \in new.seen)
    <3>1. Carries(q, new, rs, early)  BY <1>0, <1>1, <2>0, AfterFacts
    <3> QED BY <3>1 DEF Carries
  <2>4. new.entry.sure => Tells(new.entry)'
    <3>1. SUFFICES ASSUME new.entry.sure PROVE Tells(new.entry)'
      OBVIOUS
    <3>2. ~early /\ Tells(q.entry)  BY <2>2, <2>3, <3>1 DEF Fits
    <3>3. Tells(new.entry)  BY <2>3, <3>2 DEF Tells
    <3>4. new.entry.max \in Nat  BY <2>3 DEF Req, Entry
    <3> QED BY <1>8, <3>2, <3>3, <3>4
  <2>5. LabelFits(new)'
    BY <2>3 DEF LabelFits, Tearable
  <2>6. ReplayFits(new)'
    <3>1. SUFFICES ASSUME new.stage \in Replaying PROVE ReplayFits(new)'
      BY DEF ReplayFits
    <3>2. ReplayFits(q) /\ q.stage \in Replaying  BY <2>2, <2>3, <3>1 DEF Fits
    <3>3. new.sure => q.sure /\ ~early /\ q.stage # "final"
      BY <2>3 DEF Tearable
    <3>4. new.sure => new.entry.sure
      BY <2>3, <3>2, <3>3 DEF ReplayFits
    <3>5. ASSUME new.sure, Stands(new.entry.max)',
                 NEW j \in (new.entry.hits \ new.todo) \cap Live(rs),
                 rs[j].updated <= new.entry.max,
                 NEW u \in Nat
          PROVE  <<j, u>> \in new.got <=> u = rs[j].updated
      <4>1. q.entry.sure /\ Tells(q.entry) /\ q.entry.max \in Nat
        BY <2>2, <2>3, <3>4, <3>5 DEF Fits, Req, Entry
      <4>2. Stands(q.entry.max) /\ stamp > q.entry.max
        BY <1>6, <1>7, <2>3, <3>3, <3>5, <4>1 DEF Tells
      <4>3. j # i  BY <1>3, <2>3, <3>5, <4>1, <4>2, <1>0
      <4>4. j \in Live(rows) /\ rs[j] = rows[j]  BY <1>3, <3>5, <4>3
      <4> QED BY <2>3, <3>2, <3>3, <3>5, <4>2, <4>4 DEF ReplayFits
    <3>6. new.stage = "final" => new.todo = {} /\ ~new.sure
      BY <2>3, <3>2, <3>3 DEF ReplayFits
    <3>7. /\ new.began < new.entry.expires /\ new.todo \subseteq new.entry.hits
          /\ \A x \in new.got : x[1] \in new.entry.hits \ new.todo
      BY <2>3, <3>2 DEF ReplayFits
    <3>8. rows' = rs  BY <1>2
    <3> QED BY <3>4, <3>5, <3>6, <3>7, <3>8 DEF ReplayFits
  <2>7. SeenFits(new)'
    BY <1>2, <2>2, <2>3 DEF SeenFits, Fits
  <2>8. new.stage = "replayed" /\ new.sure => \E s \in new.seen : new.got = Found(s)
    BY <2>2, <2>3 DEF Fits
  <2>9. new.began <= now'
    BY <1>2, <2>2, <2>3 DEF Fits
  <2> QED BY <2>1, <2>3, <2>4, <2>5, <2>6, <2>7, <2>8, <2>9 DEF Fits
<1>11. TypeOK'
  BY <1>0, <1>1, <1>2, <1>9, <1>10 DEF TypeOK, Tables
<1> QED BY <1>5, <1>9, <1>10, <1>11 DEF IInv

LEMMA LockedKeeps ==
  ASSUME IInv, NEW i \in Ids, NEW place \in {"live", "trash"}, NEW c \in Contents,
         Locked(i, place, c)
  PROVE  IInv'
<1>1. TypeOK /\ Stamps /\ MaxInstant \in Nat
  BY RecallAssumption DEF IInv
<1>2. /\ instant' = instant + 1 /\ instant' \in 1..MaxInstant /\ drafts' = drafts
      /\ Commit([rows EXCEPT ![i] = Is(place, c, instant')], instant')
  BY <1>1 DEF Locked, TypeOK
<1>3. PICK stamp \in 1..MaxInstant : stamp = instant'
  BY <1>2
<1>4. PICK rs : rs = [rows EXCEPT ![i] = Is(place, c, stamp)]
  OBVIOUS
<1>5. Commit(rs, stamp)
  BY <1>2, <1>3, <1>4
<1>6. ~Taken(stamp) /\ instant <= instant' /\ stamp <= instant'
  BY <1>1, <1>2, <1>3 DEF Taken, TypeOK
<1>7. drafts' \in [Writers -> 0..MaxInstant]
      /\ \A w \in Writers : drafts'[w] \in {0, drafts[w]} /\ drafts'[w] # stamp
  BY <1>1, <1>2, <1>3 DEF TypeOK, Stamps
<1> QED BY <1>2, <1>4, <1>5, <1>6, <1>7, CommitKeeps

LEMMA DraftedKeeps ==
  ASSUME IInv, NEW w \in Writers, NEW i \in Ids, NEW place \in {"live", "trash"},
         NEW c \in Contents, Drafted(w, i, place, c)
  PROVE  IInv'
<1>1. TypeOK /\ Stamps /\ MaxInstant \in Nat
  BY RecallAssumption DEF IInv
<1>2. PICK stamp \in 1..MaxInstant : stamp = drafts[w]
  BY <1>1 DEF TypeOK, Drafted
<1>3. PICK rs : rs = [rows EXCEPT ![i] = Is(place, c, stamp)]
  OBVIOUS
<1>4. Commit(rs, stamp) /\ instant' = instant /\ drafts' = [drafts EXCEPT ![w] = 0]
  BY <1>2, <1>3 DEF Drafted
<1>5. ~Taken(stamp) /\ stamp <= instant' /\ instant' \in 1..MaxInstant /\ instant <= instant'
  BY <1>1, <1>2, <1>4 DEF Taken, Stamps, TypeOK
<1>6. drafts' \in [Writers -> 0..MaxInstant]
      /\ \A v \in Writers : drafts'[v] \in {0, drafts[v]} /\ drafts'[v] # stamp
  BY <1>1, <1>2, <1>4 DEF TypeOK, Stamps
<1> QED BY <1>3, <1>4, <1>5, <1>6, CommitKeeps

\* Each write of a memory is one of the two.
LEMMA WriteKeeps ==
  ASSUME IInv, NEW i \in Ids
  PROVE  /\ Update(i) \/ Archive(i) \/ Restore(i) => IInv'
         /\ \A w \in Writers :
              Create(w, i) \/ Embed(w, i) \/ Import(w, i) \/ Expire(w, i) => IInv'
<1>1. rows[i].place \in {"live", "trash"} => rows[i].is \in Contents
  BY DEF IInv, TypeOK, Row, NoRow
<1>2. Update(i) => IInv'
  BY LockedKeeps DEF Update
<1>3. Archive(i) \/ Restore(i) => IInv'
  BY <1>1, LockedKeeps DEF Archive, Restore
<1>4. ASSUME NEW w \in Writers PROVE Create(w, i) \/ Embed(w, i) \/ Import(w, i) => IInv'
  BY DraftedKeeps DEF Create, Embed, Import
<1>5. ASSUME NEW w \in Writers PROVE Expire(w, i) => IInv'
  BY <1>1, DraftedKeeps DEF Expire
<1> QED BY <1>2, <1>3, <1>4, <1>5

\* While no memory is written, what an entry tells stays true.
LEMMA TellsKeeps ==
  ASSUME UNCHANGED rows, now' >= now, now \in Nat, now' \in Nat,
         \A m \in Nat : Taken(m) => Taken(m)',
         NEW e \in Entry, Tells(e)
  PROVE  Tells(e)'
<1>1. e.max \in Nat
  BY DEF Entry
<1>2. PICK old \in Tables, t \in 0..now :
        /\ e.hits = Finds(old, t) /\ e.count = Cardinality(Live(old))
        /\ \A j \in Live(old) : old[j].is.from <= t \/ old[j].is.from >= e.expires
        /\ Stands(e.max) => \A j \in Live(rows) : rows[j] = old[j] \/ rows[j].updated > e.max
  BY DEF Tells
<1>3. e.max # 0 /\ Taken(e.max)' /\ t \in 0..now'
  BY <1>1 DEF Tells
<1>4. Stands(e.max)' => Stands(e.max)
  BY DEF Stands
<1> QED BY <1>2, <1>3, <1>4 DEF Tells

LEMMA DraftKeeps ==
  ASSUME IInv, NEW w \in Writers, Draft(w)
  PROVE  IInv'
<1>1. /\ UNCHANGED <<rows, entry, reqs, now>> /\ drafts[w] = 0 /\ instant < MaxInstant
      /\ instant' = instant + 1 /\ drafts' = [drafts EXCEPT ![w] = instant']
  BY DEF Draft
<1>2. TypeOK /\ Stamps /\ MaxInstant \in Nat
  BY RecallAssumption DEF IInv
<1>3. TypeOK'
  BY <1>1, <1>2 DEF TypeOK
<1>4. \A m \in Nat : Taken(m) => Taken(m)'
  BY <1>1, <1>2 DEF Taken, TypeOK
<1>5. Stamps'
  <2>1. \A i \in Live(rows) : rows[i].updated \in Nat /\ Taken(rows[i].updated)
    BY <1>2, RowFacts DEF Stamps, TypeOK, Tables
  <2>2. /\ \A v \in Writers : drafts'[v] <= instant'
        /\ \A u, v \in Writers : drafts'[u] = drafts'[v] /\ drafts'[v] # 0 => u = v
    BY <1>1, <1>2 DEF Stamps, TypeOK
  <2> QED BY <1>1, <1>4, <2>1, <2>2 DEF Stamps
<1>6. \A e \in Entry : Tells(e) => Tells(e)'
  <2>1. now \in Nat /\ now' \in Nat /\ now' >= now  BY <1>1, <1>2 DEF TypeOK
  <2> QED BY <1>1, <1>4, <2>1, TellsKeeps
<1>7. ASSUME NEW q \in Req, Fits(q) PROVE Fits(q)'
  <2>1. q.entry \in Entry  BY DEF Req
  <2>2. LabelFits(q)'  BY <1>1, <1>7 DEF Fits, LabelFits
  <2>3. ReplayFits(q)'  BY <1>1, <1>7 DEF Fits, ReplayFits, Stands
  <2>4. SeenFits(q)'  BY <1>1, <1>7 DEF Fits, SeenFits
  <2> QED BY <1>1, <1>6, <1>7, <2>1, <2>2, <2>3, <2>4 DEF Fits
<1> QED BY <1>1, <1>2, <1>3, <1>5, <1>6, <1>7 DEF IInv, TypeOK

LEMMA TickKeeps ==
  ASSUME IInv, Tick
  PROVE  IInv'
<1>1. /\ UNCHANGED <<rows, entry, drafts, instant>> /\ now < MaxTime /\ now' = now + 1
      /\ reqs' = [r \in Requests |-> Watch(reqs[r], rows, now')]
  BY DEF Tick
<1>2. TypeOK /\ Stamps /\ MaxTime \in Nat /\ rows \in Tables
  BY RecallAssumption DEF IInv, TypeOK, Tables
<1>3. PICK t \in 0..MaxTime : t = now'
  BY <1>1, <1>2 DEF TypeOK
<1>4. Stamps' /\ \A m \in Nat : Taken(m) => Taken(m)'
  BY <1>1, <1>2 DEF Stamps, Taken
<1>5. \A e \in Entry : Tells(e) => Tells(e)'
  <2>1. now \in Nat /\ now' \in Nat /\ now' >= now  BY <1>1, <1>2 DEF TypeOK
  <2> QED BY <1>1, <1>4, <2>1, TellsKeeps
<1>6. ASSUME NEW r \in Requests PROVE reqs'[r] \in Req /\ Fits(reqs[r])'
  <2>1. PICK q \in Req : q = reqs[r] /\ Fits(q)
    BY <1>2 DEF IInv, TypeOK
  <2>2. PICK new : new = Watch(q, rows, t)
    OBVIOUS
  <2>3. reqs'[r] = new
    BY <1>1, <1>3, <2>1, <2>2
  <2>4. /\ new \in Req /\ new = [q EXCEPT !.seen = new.seen] /\ q.seen \subseteq new.seen
        /\ q.stage \in Looking => \A u \in q.began..t : Eligible(rows, u) \in new.seen
    BY <1>2, <2>2, WatchFacts
  <2>5. /\ new.stage = q.stage /\ new.began = q.began /\ new.entry = q.entry
        /\ new.max = q.max /\ new.count = q.count /\ new.todo = q.todo /\ new.got = q.got
        /\ new.hits = q.hits /\ new.sure = q.sure
    BY <2>1, <2>4 DEF Req
  <2>6. q.entry \in Entry /\ q.began \in Nat /\ q.began <= now /\ now \in Nat
    BY <1>2, <2>1 DEF Req, Fits, TypeOK
  <2>7. LabelFits(new)'
    BY <1>1, <1>2, <2>1, <2>5, <2>6 DEF Fits, LabelFits
  <2>8. ReplayFits(new)'
    BY <1>1, <2>1, <2>5 DEF Fits, ReplayFits, Stands
  <2>9. SeenFits(new)'
    BY <1>1, <1>3, <2>1, <2>4, <2>5 DEF Fits, SeenFits
  <2>10. new.stage = "replayed" /\ new.sure => \E s \in new.seen : new.got = Found(s)
    BY <2>1, <2>4, <2>5 DEF Fits
  <2>11. new.entry.sure => Tells(new.entry)'
    BY <1>5, <2>1, <2>5, <2>6 DEF Fits
  <2>12. new.began <= now'
    BY <1>1, <2>5, <2>6
  <2> QED BY <2>3, <2>4, <2>7, <2>8, <2>9, <2>10, <2>11, <2>12 DEF Fits
<1>7. TypeOK'
  BY <1>1, <1>2, <1>6 DEF TypeOK
<1> QED BY <1>1, <1>2, <1>4, <1>5, <1>6, <1>7 DEF IInv, TypeOK

-----------------------------------------------------------------------------
(* Searches *)

\* A step of a search writes no memory and takes no instant.
LEMMA SearchKeeps ==
  ASSUME IInv, NEW r \in Requests, NEW new \in Req, Goto(r, new), Fits(new),
         UNCHANGED <<rows, drafts, instant, now>>,
         NEW e \in Entry, entry' = e, e.sure => Tells(e)
  PROVE  IInv'
<1>1. TypeOK /\ Stamps /\ reqs \in [Requests -> Req] /\ reqs' = [reqs EXCEPT ![r] = new]
  BY DEF IInv, TypeOK, Goto
<1>2. \A m \in Nat : Taken(m) => Taken(m)'
  BY DEF Taken
<1>3. ASSUME NEW f \in Entry, Tells(f) PROVE Tells(f)'
  <2>1. now \in Nat /\ now' \in Nat /\ now' >= now  BY <1>1 DEF TypeOK
  <2> QED BY <1>2, <1>3, <2>1, TellsKeeps
<1>4. ASSUME NEW q \in Req, Fits(q) PROVE Fits(q)'
  <2>1. q.entry \in Entry  BY DEF Req
  <2>2. LabelFits(q)'  BY <1>4 DEF Fits, LabelFits
  <2>3. ReplayFits(q)'  BY <1>4 DEF Fits, ReplayFits, Stands
  <2>4. SeenFits(q)'  BY <1>4 DEF Fits, SeenFits
  <2> QED BY <1>3, <1>4, <2>1, <2>2, <2>3, <2>4 DEF Fits
<1>5. TypeOK' /\ Stamps'
  BY <1>1 DEF TypeOK, Stamps, Taken
<1>6. \A q \in Requests : Fits(reqs[q])'
  <2>1. \A q \in Requests : reqs'[q] \in Req /\ Fits(reqs'[q])
    BY <1>1 DEF IInv
  <2>2. \A q \in Requests : \E a \in Req : a = reqs'[q] /\ Fits(a)'
    BY <1>4, <2>1
  <2> QED BY <2>2
<1> QED BY <1>3, <1>5, <1>6 DEF IInv

LEMMA IdleFits ==
  ASSUME TypeOK
  PROVE  /\ NoEntry \in Entry /\ ~NoEntry.sure
         /\ Idle \in Req /\ Fits(Idle)
         /\ \A t \in 0..MaxTime : Recalls(t) \in Req /\ (t <= now => Fits(Recalls(t)))
<1>1. Cardinality(Ids) \in Nat /\ {Ttl, MaxTime, MaxInstant, now} \subseteq Nat
  BY RecallAssumption, FS_CardinalityType DEF TypeOK
<1>2. NoEntry \in Entry /\ ~NoEntry.sure
  BY <1>1 DEF NoEntry, Entry
<1>3. Idle \in Req
  BY <1>1, <1>2 DEF Idle, Req
<1>4. /\ Idle.stage = "idle" /\ Idle.began = 0 /\ Idle.entry = NoEntry /\ Idle.got = {}
      /\ 0 <= now
  BY <1>1 DEF Idle
<1>5. Fits(Idle)
  BY <1>2, <1>4 DEF Fits, LabelFits, ReplayFits, SeenFits, Labelling, Replaying, Looking
<1>6. ASSUME NEW t \in 0..MaxTime PROVE Recalls(t) \in Req /\ (t <= now => Fits(Recalls(t)))
  <2>1. Recalls(t) \in Req
    BY <1>3 DEF Recalls, Req
  <2>2. /\ Recalls(t).stage = "recall" /\ Recalls(t).began = t
        /\ Recalls(t).entry = NoEntry /\ Recalls(t).got = {}
    BY <1>3, <1>4 DEF Recalls, Req
  <2> QED BY <1>2, <2>1, <2>2
          DEF Fits, LabelFits, ReplayFits, SeenFits, Labelling, Replaying, Looking
<1> QED BY <1>2, <1>3, <1>5, <1>6

LEMMA MissKeeps ==
  ASSUME IInv, NEW r \in Requests, Miss(r), UNCHANGED <<rows, drafts, instant, now>>
  PROVE  IInv'
<1>1. TypeOK /\ reqs[r] \in Req /\ reqs[r].began \in 0..MaxTime /\ reqs[r].began <= now
  BY DEF IInv, TypeOK, Req, Fits
<1>2. PICK new \in Req : new = Recalls(reqs[r].began) /\ Fits(new)
  BY <1>1, IdleFits
<1>3. PICK e \in {entry, NoEntry} : entry' = e
  BY DEF Miss
<1>4. e \in Entry /\ (e.sure => Tells(e))
  BY <1>1, IdleFits DEF IInv, TypeOK
<1> QED BY <1>2, <1>3, <1>4, SearchKeeps DEF Miss

\* A step that leaves the entry alone.
LEMMA GoingOn ==
  ASSUME IInv, NEW r \in Requests, NEW new \in Req, Goto(r, new), Fits(new),
         UNCHANGED <<rows, entry, drafts, instant, now>>
  PROVE  IInv'
<1>1. PICK e \in Entry : e = entry /\ (e.sure => Tells(e))
  BY DEF IInv, TypeOK
<1> QED BY <1>1, SearchKeeps

LEMMA BeginKeeps ==
  ASSUME IInv, NEW r \in Requests, Begin(r)
  PROVE  IInv'
<1>1. TypeOK /\ rows \in Tables /\ now \in 0..MaxTime /\ now \in Nat
  BY RecallAssumption DEF IInv, TypeOK, Tables
<1> DEFINE view == Eligible(rows, now)
<1>2. PICK new : new = [Idle EXCEPT !.stage = "get", !.began = now, !.seen = {view}]
  OBVIOUS
<1>3. view \in SUBSET (Ids \X Nat \X BOOLEAN)
  BY <1>1, FoundEligible
<1>4. /\ new \in Req /\ new.stage = "get" /\ new.began = now /\ new.entry = NoEntry
      /\ new.got = {} /\ new.seen = {view}
  <2> HIDE DEF view
  <2>1. Idle \in Req /\ Idle.entry = NoEntry /\ Idle.got = {}
    BY <1>1, IdleFits DEF Idle
  <2> QED BY <1>1, <1>2, <1>3, <2>1 DEF Req, Looking
<1>5. Fits(new)
  <2>1. \A t \in now..now : Eligible(rows, t) = view
    BY <1>1
  <2> HIDE DEF view
  <2> QED BY <1>1, <1>4, <2>1, IdleFits
          DEF Fits, LabelFits, ReplayFits, SeenFits, Labelling, Replaying, Looking
<1> QED BY <1>2, <1>4, <1>5, GoingOn DEF Begin

LEMMA HitKeeps ==
  ASSUME IInv, NEW r \in Requests, Hit(r)
  PROVE  IInv'
<1>1. PICK q \in Req : q = reqs[r] /\ Fits(q) /\ q.stage = "get"
  BY DEF IInv, TypeOK, Hit, At
<1>2. PICK e \in Entry : e = entry /\ (e.sure => Tells(e)) /\ q.began < e.expires
  BY <1>1 DEF IInv, TypeOK, Hit
<1>3. PICK new : new = [q EXCEPT !.stage = "max", !.entry = e, !.todo = e.hits, !.sure = e.sure]
  OBVIOUS
<1>4. /\ new \in Req /\ new.stage = "max" /\ new.began = q.began /\ new.entry = e
      /\ new.todo = e.hits /\ new.got = q.got /\ new.sure = e.sure /\ new.seen = q.seen
  BY <1>3 DEF Req, Entry, Looking
<1>5. q.got = {} /\ SeenFits(q) /\ q.began <= now
  BY <1>1 DEF Fits, SeenFits
<1>6. SeenFits(new)
  BY <1>1, <1>4, <1>5 DEF SeenFits, Looking
<1>7. ReplayFits(new)
  BY <1>2, <1>4, <1>5 DEF ReplayFits
<1>8. Fits(new)
  BY <1>2, <1>4, <1>5, <1>6, <1>7 DEF Fits, LabelFits, Labelling
<1> QED BY <1>1, <1>2, <1>3, <1>4, <1>8, GoingOn DEF Hit

LEMMA NoHitKeeps ==
  ASSUME IInv, NEW r \in Requests, NoHit(r)
  PROVE  IInv'
<1>1. TypeOK /\ reqs[r] \in Req /\ reqs[r].began \in 0..MaxTime /\ reqs[r].began <= now
  BY DEF IInv, TypeOK, Req, Fits
<1>2. PICK new \in Req : new = Recalls(reqs[r].began) /\ Fits(new)
  BY <1>1, IdleFits
<1>3. PICK e \in Entry : e = NoEntry /\ ~e.sure
  BY <1>1, IdleFits
<1> QED BY <1>2, <1>3, SearchKeeps DEF NoHit

LEMMA ReadMaxKeeps ==
  ASSUME IInv, NEW r \in Requests, ReadMax(r)
  PROVE  IInv'
<1>1. PICK q \in Req : q = reqs[r] /\ Fits(q) /\ q.stage = "max"
  BY DEF IInv, TypeOK, ReadMax, At
<1>2. PICK m \in 0..MaxInstant : m = Newest(rows)
  BY NewestFacts DEF IInv, TypeOK, Tables
<1>3. PICK new : new = [q EXCEPT !.stage = "count", !.max = m]
  OBVIOUS
<1>4. /\ new \in Req /\ new.stage = "count" /\ new.began = q.began /\ new.entry = q.entry
      /\ new.todo = q.todo /\ new.got = q.got /\ new.sure = q.sure /\ new.seen = q.seen
  BY <1>3 DEF Req, Looking
<1>5. Fits(new)
  BY <1>1, <1>4 DEF Fits, LabelFits, ReplayFits, SeenFits, Labelling, Replaying, Looking
<1> QED BY <1>1, <1>2, <1>3, <1>4, <1>5, GoingOn DEF ReadMax

LEMMA ReadCountKeeps ==
  ASSUME IInv, NEW r \in Requests, ReadCount(r)
  PROVE  IInv'
<1>1. PICK q \in Req : q = reqs[r] /\ Fits(q) /\ q.stage = "count"
  BY DEF IInv, TypeOK, ReadCount, At
<1>2. CASE ~SameGeneration(r)
  BY <1>2, MissKeeps DEF ReadCount
<1>3. CASE SameGeneration(r)
  <2>1. PICK new : new = [q EXCEPT !.stage = "rows", !.max = 0]
    OBVIOUS
  <2>2. 0 \in 0..MaxInstant
    BY RecallAssumption
  <2>3. /\ new \in Req /\ new.stage = "rows" /\ new.began = q.began /\ new.entry = q.entry
        /\ new.todo = q.todo /\ new.got = q.got /\ new.sure = q.sure /\ new.seen = q.seen
    BY <2>1, <2>2 DEF Req, Looking
  <2>4. Fits(new)
    BY <1>1, <2>3 DEF Fits, LabelFits, ReplayFits, SeenFits, Labelling, Replaying, Looking
  <2> QED BY <1>1, <1>3, <2>1, <2>3, <2>4, GoingOn DEF ReadCount
<1> QED BY <1>2, <1>3

\* A hit that is read while it is as old as the entry is readable, as it was when
\* the entry was computed.
LEMMA ReadRowKeeps ==
  ASSUME IInv, NEW r \in Requests, NEW i \in Ids, ReadRow(r, i)
  PROVE  IInv'
<1>1. PICK q \in Req : q = reqs[r] /\ Fits(q) /\ q.stage = "rows" /\ i \in q.todo
  BY DEF IInv, TypeOK, ReadRow, At
<1>2. CASE Readable(rows[i]) /\ i \in q.entry.close /\ ~rows[i].is.vector
  BY <1>1, <1>2, MissKeeps DEF ReadRow
<1>3. CASE ~(Readable(rows[i]) /\ i \in q.entry.close /\ ~rows[i].is.vector)
  <2> DEFINE more == IF Readable(rows[i]) THEN {<<i, rows[i].updated>>} ELSE {}
  <2>1. PICK new : new = [q EXCEPT !.todo = q.todo \ {i}, !.got = q.got \cup more]
    OBVIOUS
  <2>2. Goto(r, new) /\ UNCHANGED <<rows, entry, drafts, instant, now>>
    <3>1. new = [q EXCEPT !.todo = @ \ {i},
                   !.got = IF Readable(rows[i]) THEN @ \cup {<<i, rows[i].updated>>} ELSE @]
      BY <2>1 DEF Req
    <3> QED BY <1>1, <1>3, <3>1 DEF ReadRow
  <2>3. TypeOK /\ rows \in Tables /\ now \in Nat
    BY RecallAssumption DEF IInv, TypeOK, Tables
  <2>4. Readable(rows[i]) =>
          i \in Live(rows) /\ Allowed(rows[i].is, now) /\ rows[i].updated \in Nat
    BY <2>3, RowFacts DEF Readable, Live
  <2>5. more \in SUBSET (Ids \X Nat)
    BY <2>4
  <2>6. /\ new \in Req /\ new.stage = "rows" /\ new.began = q.began /\ new.entry = q.entry
        /\ new.todo = q.todo \ {i} /\ new.got = q.got \cup more
        /\ new.sure = q.sure /\ new.seen = q.seen
    <3> HIDE DEF more
    <3> QED BY <1>1, <2>1, <2>5 DEF Req
  <2>7. ReplayFits(q) /\ q.stage \in Replaying
    BY <1>1 DEF Fits, Replaying
  <2>8. \A x \in more : x = <<i, rows[i].updated>> /\ Readable(rows[i])
    OBVIOUS
  <2>9. ReplayFits(new)
    <3>1. ASSUME new.sure, Stands(new.entry.max),
                 NEW j \in (new.entry.hits \ new.todo) \cap Live(rows),
                 rows[j].updated <= new.entry.max, NEW u \in Nat
          PROVE  <<j, u>> \in new.got <=> u = rows[j].updated
      <4>1. CASE j # i
        <5>1. <<j, u>> \in new.got <=> <<j, u>> \in q.got
          BY <2>6, <2>8, <4>1
        <5> QED BY <2>6, <2>7, <3>1, <4>1, <5>1 DEF ReplayFits
      <4>2. CASE j = i
        <5>1. Tells(q.entry) /\ q.entry \in Entry
          BY <1>1, <2>6, <2>7, <3>1 DEF ReplayFits, Fits, Req
        <5>2. PICK old \in Tables, t \in 0..now :
                /\ q.entry.hits = Finds(old, t)
                /\ \A k \in Live(rows) : rows[k] = old[k] \/ rows[k].updated > q.entry.max
          BY <2>6, <3>1, <5>1 DEF Tells
        <5>3. rows[i].updated \in Nat /\ q.entry.max \in Nat
          BY <2>3, <3>1, <4>2, <5>1, RowFacts DEF Entry
        <5>4. rows[i] = old[i] /\ i \in Finds(old, t)
          BY <2>6, <3>1, <4>2, <5>2, <5>3
        <5>5. Allowed(rows[i].is, t) /\ rows[i].place = "live" /\ rows[i].is.from \in Nat
          BY <2>3, <3>1, <4>2, <5>4, RowFacts DEF Finds
        <5>6. Readable(rows[i])
          BY <2>3, <5>5 DEF Readable, Allowed
        <5>7. \A x \in q.got : x[1] # i
          BY <1>1, <2>7 DEF ReplayFits
        <5>8. <<i, u>> \notin q.got
          BY <5>7
        <5> QED BY <2>6, <4>2, <5>6, <5>8
      <4> QED BY <4>1, <4>2
    <3>2. \A x \in new.got : x[1] \in new.entry.hits \ new.todo
      <4>1. i \in q.entry.hits  BY <1>1, <2>7 DEF ReplayFits
      <4>2. \A x \in more : x[1] = i  BY <2>8
      <4>3. \A x \in q.got : x[1] \in q.entry.hits \ q.todo  BY <2>7 DEF ReplayFits
      <4> HIDE DEF more
      <4> QED BY <2>6, <4>1, <4>2, <4>3
    <3> HIDE DEF more
    <3> QED BY <2>6, <2>7, <3>1, <3>2 DEF ReplayFits
  <2>10. SeenFits(new)
    <3>1. SeenFits(q) /\ q.began \in 0..MaxTime /\ q.began <= now
      BY <1>1 DEF Fits, Req
    <3>2. Eligible(rows, now) \in q.seen
      <4>1. now \in q.began..now  BY <2>3, <3>1, RecallAssumption
      <4> QED BY <1>1, <3>1, <4>1 DEF SeenFits, Looking
    <3>3. \A x \in more : x \in Versions(Eligible(rows, now))
      BY <2>3, <2>4, <2>8, FoundEligible
    <3> HIDE DEF more
    <3> QED BY <1>1, <2>6, <3>1, <3>2, <3>3 DEF SeenFits
  <2>11. Fits(new)
    BY <1>1, <2>6, <2>9, <2>10 DEF Fits, LabelFits, Labelling
  <2> QED BY <2>2, <2>6, <2>11, GoingOn
<1> QED BY <1>2, <1>3

LEMMA ReadFinalMaxKeeps ==
  ASSUME IInv, NEW r \in Requests, ReadFinalMax(r)
  PROVE  IInv'
<1>1. PICK q \in Req : q = reqs[r] /\ Fits(q) /\ q.stage = "rows" /\ q.todo = {}
  BY DEF IInv, TypeOK, ReadFinalMax, At
<1>2. PICK m \in 0..MaxInstant : m = Newest(rows)
  BY NewestFacts DEF IInv, TypeOK, Tables
<1>3. PICK new : new = [q EXCEPT !.stage = "final", !.max = m]
  OBVIOUS
<1>4. /\ new \in Req /\ new.stage = "final" /\ new.began = q.began /\ new.entry = q.entry
      /\ new.todo = q.todo /\ new.got = q.got /\ new.sure = q.sure /\ new.seen = q.seen
      /\ new.max = m
  BY <1>3 DEF Req, Looking
<1>5. Fits(new)
  BY <1>1, <1>2, <1>4
     DEF Fits, LabelFits, ReplayFits, SeenFits, Labelling, Replaying, Looking
<1> QED BY <1>1, <1>2, <1>3, <1>4, <1>5, GoingOn DEF ReadFinalMax

\* If nothing is torn, the table is the entry's when the replay ends: the newest
\* instant stands, so that no live memory is another than the entry's or newer,
\* and there are as many.
LEMMA SameTable ==
  ASSUME IInv, NEW q \in Req, Tells(q.entry), q.max = Newest(rows), q.max = q.entry.max,
         Cardinality(Live(rows)) = q.entry.count
  PROVE  \E t \in 0..now :
           /\ q.entry.hits = Finds(rows, t) /\ Stands(q.entry.max)
           /\ \A i \in Live(rows) :
                /\ rows[i].is.from <= t \/ rows[i].is.from >= q.entry.expires
                /\ rows[i].updated <= q.entry.max
<1>1. rows \in Tables /\ q.entry.max # 0
  BY DEF IInv, TypeOK, Tables, Tells
<1>2. /\ \A i \in Live(rows) : rows[i].updated <= q.entry.max /\ rows[i].updated \in Nat
      /\ Stands(q.entry.max) /\ q.entry.max \in Nat
  <2>1. \A i \in Live(rows) : rows[i].updated \in 1..MaxInstant
    BY <1>1, RowFacts
  <2>2. q.entry.max \in Nat  BY DEF Req, Entry
  <2>3. \A i \in Live(rows) : rows[i].updated <= q.entry.max
    BY <1>1, NewestFacts
  <2>4. \E i \in Live(rows) : rows[i].updated = q.entry.max
    BY <1>1, NewestFacts
  <2> QED BY <2>1, <2>2, <2>3, <2>4 DEF Stands
<1>3. PICK old \in Tables, t \in 0..now :
        /\ q.entry.hits = Finds(old, t) /\ q.entry.count = Cardinality(Live(old))
        /\ \A j \in Live(old) : old[j].is.from <= t \/ old[j].is.from >= q.entry.expires
        /\ \A j \in Live(rows) : rows[j] = old[j] \/ rows[j].updated > q.entry.max
  BY <1>2 DEF Tells
<1>4. \A j \in Live(rows) : rows[j] = old[j]
  BY <1>2, <1>3
<1>5. Live(rows) = Live(old)
  <2>1. Live(rows) \subseteq Live(old)
    BY <1>4 DEF Live
  <2>2. IsFiniteSet(Live(old))
    BY LiveFacts
  <2> QED BY <1>3, <2>1, <2>2, FS_Subset
<1>6. Finds(old, t) = Finds(rows, t)
  BY <1>4, <1>5 DEF Finds
<1> QED BY <1>2, <1>3, <1>4, <1>5, <1>6

LEMMA ReplayKeeps ==
  ASSUME IInv, NEW r \in Requests, Replay(r)
  PROVE  IInv'
<1>1. PICK q \in Req : q = reqs[r] /\ Fits(q) /\ q.stage = "final"
  BY DEF IInv, TypeOK, Replay, At
<1>2. CASE ~(SameGeneration(r) /\ entry = q.entry /\ q.got # {})
  BY <1>1, <1>2, MissKeeps DEF Replay
<1>3. CASE SameGeneration(r) /\ entry = q.entry /\ q.got # {}
  <2>1. PICK new : new = [Idle EXCEPT !.stage = "replayed", !.got = q.got,
                                      !.sure = q.sure, !.seen = q.seen]
    OBVIOUS
  <2>2. TypeOK /\ Idle \in Req /\ rows \in Tables /\ now \in Nat
    BY IdleFits, RecallAssumption DEF IInv, TypeOK, Tables
  <2>3. /\ new \in Req /\ new.stage = "replayed" /\ new.began = 0 /\ new.entry = NoEntry
        /\ new.got = q.got /\ new.sure = q.sure /\ new.seen = q.seen
    BY <2>1, <2>2 DEF Req, Idle
  <2>4. SeenFits(q) /\ ReplayFits(q) /\ q.began \in 0..MaxTime /\ q.began <= now
    BY <1>1 DEF Fits, Req
  <2>5. ASSUME q.sure PROVE \E s \in q.seen : q.got = Found(s)
    <3>1. q.todo = {} /\ q.max = Newest(rows) /\ q.entry.sure
          /\ q.began < q.entry.expires
      BY <1>1, <2>4, <2>5 DEF ReplayFits, Replaying
    <3>2. PICK t \in 0..now :
           /\ q.entry.hits = Finds(rows, t) /\ Stands(q.entry.max)
           /\ \A i \in Live(rows) :
                /\ rows[i].is.from <= t \/ rows[i].is.from >= q.entry.expires
                /\ rows[i].updated <= q.entry.max
      <4>1. Tells(q.entry)  BY <1>1, <3>1 DEF Fits
      <4>2. q.max = q.entry.max /\ Cardinality(Live(rows)) = q.entry.count
        BY <1>1, <1>3 DEF SameGeneration
      <4> QED BY <3>1, <4>1, <4>2, SameTable
    <3>3. q.got = {<<i, rows[i].updated>> : i \in Finds(rows, t)}
      <4>1. \A i \in Finds(rows, t) : i \in Live(rows) /\ rows[i].updated \in Nat
        BY <2>2, RowFacts DEF Finds
      <4>2. \A i \in Finds(rows, t) : \A u \in Nat :
              <<i, u>> \in q.got <=> u = rows[i].updated
        BY <1>1, <2>4, <2>5, <3>1, <3>2, <4>1 DEF ReplayFits, Replaying
      <4>3. \A x \in q.got : x[1] \in Finds(rows, t)
        BY <1>1, <2>4, <3>1, <3>2 DEF ReplayFits, Replaying
      <4>4. \A x \in q.got : x = <<x[1], x[2]>> /\ x[2] \in Nat
        BY DEF Req
      <4>5. \A x \in q.got : x[2] = rows[x[1]].updated
        BY <4>2, <4>3, <4>4
      <4> QED BY <4>1, <4>2, <4>3, <4>4, <4>5
    <3>4. PICK u \in q.began..now : u = IF t >= q.began THEN t ELSE q.began
      BY <2>2, <2>4, RecallAssumption
    <3>5. Finds(rows, t) = Finds(rows, u)
      <4>1. q.entry.expires \in Nat /\ q.began \in Nat /\ t \in Nat /\ u \in Nat
        BY <2>2, <2>4, <3>4, RecallAssumption DEF Req, Entry
      <4>2. \A i \in Live(rows) : rows[i].is.from \in Nat
        BY <2>2, RowFacts
      <4>3. \A i \in Live(rows) : rows[i].is.from <= t <=> rows[i].is.from <= u
        BY <3>1, <3>2, <3>4, <4>1, <4>2
      <4> QED BY <4>3 DEF Finds, Allowed
    <3>6. Eligible(rows, u) \in q.seen
      BY <1>1, <2>4 DEF SeenFits, Looking
    <3>7. Found(Eligible(rows, u)) = {<<i, rows[i].updated>> : i \in Finds(rows, u)}
      BY <2>2, <2>4, <3>4, RecallAssumption, FoundEligible
    <3> QED BY <3>3, <3>5, <3>6, <3>7
  <2>6. Fits(new)
    BY <2>2, <2>3, <2>4, <2>5, IdleFits
       DEF Fits, LabelFits, ReplayFits, SeenFits, Labelling, Replaying, Looking
  <2> QED BY <1>1, <1>3, <2>1, <2>3, <2>6, GoingOn DEF Replay
<1> QED BY <1>2, <1>3

LEMMA RecallKeeps ==
  ASSUME IInv, NEW r \in Requests, Recall(r)
  PROVE  IInv'
<1>1. PICK q \in Req : q = reqs[r] /\ Fits(q) /\ q.stage = "recall"
  BY DEF IInv, TypeOK, Recall, At
<1>2. PICK found : found = Finds(rows, now)
  OBVIOUS
<1>3. CASE found = {}
  <2>1. Goto(r, Idle) /\ UNCHANGED <<rows, entry, drafts, instant, now>>
    BY <1>2, <1>3 DEF Recall, Finds
  <2> QED BY <2>1, IdleFits, GoingOn DEF IInv
<1>4. CASE found # {}
  <2>1. PICK close : close = {i \in found : rows[i].is.vector}
    OBVIOUS
  <2>2. PICK new : new = [q EXCEPT !.stage = "label", !.hits = found, !.sure = TRUE,
                                   !.close = close]
    OBVIOUS
  <2>3. Goto(r, new) /\ UNCHANGED <<rows, entry, drafts, instant, now>>
    BY <1>1, <1>2, <1>4, <2>1, <2>2 DEF Recall, Finds
  <2>4. found \subseteq Ids /\ close \subseteq Ids
    BY <1>2, <2>1 DEF Finds, Live
  <2>5. /\ new \in Req /\ new.stage = "label" /\ new.began = q.began /\ new.entry = q.entry
        /\ new.hits = found /\ new.got = q.got /\ new.seen = q.seen
    BY <2>2, <2>4 DEF Req, Labelling
  <2>6. now \in q.began..now
    BY <1>1, RecallAssumption DEF Fits, Req, IInv, TypeOK
  <2>7. LabelFits(new)
    BY <1>2, <2>5, <2>6 DEF LabelFits
  <2>8. Fits(new)
    BY <1>1, <2>5, <2>7 DEF Fits, ReplayFits, SeenFits, Replaying, Looking
  <2> QED BY <2>3, <2>5, <2>8, GoingOn
<1> QED BY <1>3, <1>4

LEMMA LabelMaxKeeps ==
  ASSUME IInv, NEW r \in Requests, LabelMax(r)
  PROVE  IInv'
<1>1. PICK q \in Req : q = reqs[r] /\ Fits(q) /\ q.stage = "label"
  BY DEF IInv, TypeOK, LabelMax, At
<1>2. PICK m \in 0..MaxInstant : m = Newest(rows)
  BY NewestFacts DEF IInv, TypeOK, Tables
<1>3. PICK new : new = [q EXCEPT !.stage = "number", !.max = m]
  OBVIOUS
<1>4. /\ new \in Req /\ new.stage = "number" /\ new.began = q.began /\ new.entry = q.entry
      /\ new.hits = q.hits /\ new.got = q.got /\ new.sure = q.sure /\ new.seen = q.seen
      /\ new.max = m
  BY <1>3 DEF Req, Labelling
<1>5. Fits(new)
  BY <1>1, <1>2, <1>4
     DEF Fits, LabelFits, ReplayFits, SeenFits, Labelling, Replaying, Looking
<1> QED BY <1>1, <1>2, <1>3, <1>4, <1>5, GoingOn DEF LabelMax

LEMMA LabelCountKeeps ==
  ASSUME IInv, NEW r \in Requests, LabelCount(r)
  PROVE  IInv'
<1>1. PICK q \in Req : q = reqs[r] /\ Fits(q) /\ q.stage = "number"
  BY DEF IInv, TypeOK, LabelCount, At
<1>2. CASE q.max = 0
  BY <1>1, <1>2, IdleFits, GoingOn DEF LabelCount, IInv
<1>3. CASE q.max # 0
  <2>1. PICK n \in 0..Cardinality(Ids) : n = Cardinality(Live(rows))
    BY LiveFacts DEF IInv, TypeOK, Tables
  <2>2. PICK new : new = [q EXCEPT !.stage = "store", !.count = n]
    OBVIOUS
  <2>3. /\ new \in Req /\ new.stage = "store" /\ new.began = q.began /\ new.entry = q.entry
        /\ new.hits = q.hits /\ new.got = q.got /\ new.sure = q.sure /\ new.seen = q.seen
        /\ new.max = q.max /\ new.count = n
    BY <2>2 DEF Req, Labelling
  <2>4. Fits(new)
    BY <1>1, <1>3, <2>1, <2>3
       DEF Fits, LabelFits, ReplayFits, SeenFits, Labelling, Replaying, Looking
  <2> QED BY <1>1, <1>3, <2>1, <2>2, <2>3, <2>4, GoingOn DEF LabelCount
<1> QED BY <1>2, <1>3

\* An entry expires no later than its age says, and than what comes into force
\* after the time at which its request began.
LEMMA ExpiryFacts ==
  ASSUME TypeOK, NEW t \in 0..MaxTime
  PROVE  /\ Expiry(t) \in 0..(MaxTime + Ttl)
         /\ \A i \in Live(rows) : rows[i].is.from <= t \/ rows[i].is.from >= Expiry(t)
<1> DEFINE Starts == {f \in {rows[i].is.from : i \in Live(rows)} : f > t}
           S == {t + Ttl} \cup Starts
<1>1. rows \in Tables /\ t \in Nat /\ Ttl \in Nat /\ MaxTime \in Nat
  BY RecallAssumption DEF TypeOK, Tables
<1>2. \A i \in Live(rows) : rows[i].is.from \in Nat
  BY <1>1, RowFacts
<1>3. S \subseteq Nat /\ S # {}
  BY <1>1, <1>2
<1>4. PICK n \in S : \A m \in S : n <= m
  <2> DEFINE b == t + Ttl
             Low == {k \in S : k <= b}
             Below == {b - k : k \in Low}
  <2>1. b \in Nat /\ b \in Low
    BY <1>1
  <2> HIDE DEF S, b
  <2>2. Below \in SUBSET (0..b) /\ Below # {}
    BY <1>3, <2>1
  <2>3. PICK d \in Below : IsLargest(d, Below)
    <3> HIDE DEF Below
    <3> QED BY <2>1, <2>2, LargestExists
  <2>4. PICK n \in Low : d = b - n
    OBVIOUS
  <2>5. ASSUME NEW m \in S PROVE n <= m
    <3>1. m \in Nat /\ n \in Nat /\ n <= b  BY <1>3, <2>4
    <3>2. CASE m <= b
      <4>1. b - m \in Below  BY <3>2
      <4>2. b - m <= d  BY <2>3, <4>1 DEF IsLargest
      <4> QED BY <2>1, <2>4, <3>1, <4>2
    <3> QED BY <2>1, <3>1, <3>2
  <2> QED BY <2>4, <2>5
<1>5. Expiry(t) \in S /\ \A m \in S : Expiry(t) <= m
  <2>1. Expiry(t) = CHOOSE k \in S : \A m \in S : k <= m
    BY DEF Expiry, Least
  <2> HIDE DEF S
  <2> QED BY <1>4, <2>1
<1>6. \A i \in Live(rows) : rows[i].is.from > t => rows[i].is.from \in S
  OBVIOUS
<1>7. t + Ttl \in S
  OBVIOUS
<1> HIDE DEF S
<1>8. Expiry(t) \in Nat /\ Expiry(t) <= t + Ttl
  BY <1>3, <1>5, <1>7
<1>9. \A i \in Live(rows) : rows[i].is.from <= t \/ rows[i].is.from >= Expiry(t)
  <2> SUFFICES ASSUME NEW i \in Live(rows), ~(rows[i].is.from <= t)
                PROVE  rows[i].is.from >= Expiry(t)
    OBVIOUS
  <2>1. rows[i].is.from \in S
    BY <1>1, <1>2, <1>6
  <2> QED BY <1>2, <1>5, <1>8, <2>1
<1> QED BY <1>1, <1>8, <1>9

LEMMA StoreKeeps ==
  ASSUME IInv, NEW r \in Requests, Store(r)
  PROVE  IInv'
<1>1. PICK q \in Req : q = reqs[r] /\ Fits(q) /\ q.stage = "store"
  BY DEF IInv, TypeOK, Store, At
<1>2. TypeOK /\ Idle \in Req /\ Fits(Idle)
  BY IdleFits DEF IInv
<1>3. CASE UNCHANGED entry
  BY <1>2, <1>3, GoingOn DEF Store
<1>4. CASE entry' = [expires |-> Expiry(q.began), max |-> q.max, count |-> q.count,
                     hits |-> q.hits, close |-> q.close, sure |-> q.sure]
  <2>1. q.began \in 0..MaxTime /\ q.began <= now /\ rows \in Tables
    BY <1>1, <1>2 DEF Req, Fits, TypeOK, Tables
  <2>2. PICK x \in 0..(MaxTime + Ttl) : x = Expiry(q.began)
    BY <1>2, <2>1, ExpiryFacts
  <2>3. PICK e : e = [expires |-> x, max |-> q.max, count |-> q.count,
                      hits |-> q.hits, close |-> q.close, sure |-> q.sure]
    OBVIOUS
  <2>4. e \in Entry
    BY <2>3 DEF Req, Entry
  <2>5. ASSUME e.sure PROVE Tells(e)
    <3>1. PICK t \in q.began..now : q.hits = Finds(rows, t)
      BY <1>1, <2>3, <2>5 DEF Fits, LabelFits, Labelling
    <3>2. q.max = Newest(rows) /\ q.max # 0 /\ q.count = Cardinality(Live(rows))
      BY <1>1, <2>3, <2>5 DEF Fits, LabelFits, Labelling
    <3>3. Taken(q.max)
      BY <2>1, <3>2, NewestFacts DEF IInv, Stamps
    <3>4. t \in 0..now /\ q.began <= t
      BY <1>2, <2>1, RecallAssumption DEF TypeOK
    <3>5. \A i \in Live(rows) : rows[i].is.from <= t \/ rows[i].is.from >= x
      <4>1. \A i \in Live(rows) : rows[i].is.from <= q.began \/ rows[i].is.from >= x
        BY <1>2, <2>1, <2>2, ExpiryFacts
      <4>2. \A i \in Live(rows) : rows[i].is.from \in Nat
        BY <2>1, RowFacts
      <4>3. q.began \in Nat /\ t \in Nat
        BY <2>1, <3>4, RecallAssumption
      <4> QED BY <3>4, <4>1, <4>2, <4>3
    <3> QED BY <2>1, <2>3, <3>1, <3>2, <3>3, <3>4, <3>5 DEF Tells
  <2> QED BY <1>1, <1>2, <1>4, <2>2, <2>3, <2>4, <2>5, SearchKeeps DEF Store
<1> QED BY <1>1, <1>3, <1>4 DEF Store

LEMMA DiscardKeeps ==
  ASSUME IInv, Discard
  PROVE  IInv'
<1>1. TypeOK /\ NoEntry \in Entry /\ ~NoEntry.sure
  BY IdleFits DEF IInv
<1>2. \A m \in Nat : Taken(m) => Taken(m)'
  BY DEF Discard, Taken
<1>3. ASSUME NEW q \in Req, Fits(q) PROVE Fits(q)'
  <2>1. q.entry \in Entry /\ now \in Nat /\ now' \in Nat /\ now' >= now
    BY <1>1, RecallAssumption DEF Req, TypeOK, Discard
  <2>2. Tells(q.entry) => Tells(q.entry)'
    BY <1>2, <2>1, TellsKeeps DEF Discard
  <2>3. LabelFits(q)' /\ ReplayFits(q)' /\ SeenFits(q)'
    BY <1>3 DEF Fits, LabelFits, ReplayFits, SeenFits, Stands, Discard
  <2> QED BY <1>3, <2>2, <2>3 DEF Fits, Discard
<1> QED BY <1>1, <1>3 DEF IInv, TypeOK, Stamps, Taken, Discard

LEMMA InitIInv == Init => IInv
<1> SUFFICES ASSUME Init PROVE IInv
  OBVIOUS
<1>1. 1 \in 1..MaxInstant /\ 0 \in 0..MaxTime /\ 0 \in 0..MaxInstant
  BY RecallAssumption
<1>2. rows \in Tables
  BY <1>1 DEF Init, Tables, Is, Row
<1>3. NoEntry \in Entry /\ ~NoEntry.sure
  <2>1. Cardinality(Ids) \in Nat /\ {Ttl, MaxTime, MaxInstant} \subseteq Nat
    BY RecallAssumption, FS_CardinalityType
  <2> QED BY <2>1 DEF NoEntry, Entry
<1>4. Idle \in Req
  BY <1>1, <1>3, RecallAssumption, FS_CardinalityType DEF Idle, Req
<1>5. TypeOK
  BY <1>1, <1>2, <1>3, <1>4 DEF Init, TypeOK, Tables
<1>6. Stamps
  <2>1. \A i \in Live(rows) : rows[i].updated = 1
    BY DEF Init, Live, NoRow, Is
  <2> QED BY <2>1 DEF Stamps, Taken, Init
<1>7. Fits(Idle)
  BY <1>5, IdleFits
<1> QED BY <1>3, <1>5, <1>6, <1>7 DEF IInv, Init

LEMMA NextIInv == IInv /\ [Next]_vars => IInv'
<1> SUFFICES ASSUME IInv, [Next]_vars PROVE IInv'
  OBVIOUS
<1>1. CASE Tick
  BY <1>1, TickKeeps
<1>2. CASE Write
  BY <1>2, WriteKeeps, DraftKeeps DEF Write
<1>3. CASE Discard
  BY <1>3, DiscardKeeps
<1>4. ASSUME NEW r \in Requests, Search(r) PROVE IInv'
  <2>1. CASE Answer(r)
    BY <2>1, IdleFits, GoingOn DEF Answer, IInv
  <2> QED BY <1>4, <2>1, BeginKeeps, HitKeeps, NoHitKeeps, ReadMaxKeeps, ReadCountKeeps,
             ReadRowKeeps, ReadFinalMaxKeeps, ReplayKeeps, RecallKeeps, LabelMaxKeeps,
             LabelCountKeeps, StoreKeeps DEF Search
<1>5. CASE UNCHANGED vars
  <2>1. \A q \in Req : Fits(q) => Fits(q)'
    BY <1>5 DEF vars, Fits, LabelFits, ReplayFits, SeenFits, Stands, Tells, Taken
  <2> QED BY <1>5, <2>1 DEF vars, IInv, TypeOK, Stamps, Taken, Tells, Stands
<1> QED BY <1>1, <1>2, <1>3, <1>4, <1>5 DEF Next

-----------------------------------------------------------------------------
(* Theorems *)

\* The tables, entries and requests of RecallCache have their types; every sure
\* entry tells a table, and every request that replays it keeps to it.
THEOREM EntriesTell == Spec => []IInv
BY InitIInv, NextIInv, PTL DEF Spec

\* What the cache gives again (_cached_search_hits) is what a recall would have
\* found, unless a write tore what the code reads in two.
THEOREM ReplaysAreCurrentTheorem == Spec => []ReplaysAreCurrent
<1>1. IInv => ReplaysAreCurrent
  BY DEF IInv, ReplaysAreCurrent, Current, Fits, At
<1> QED BY <1>1, EntriesTell, PTL

\* Torn or not, no memory comes out of the cache in a version that has not been
\* live, in force and below the ceiling since the request began.
THEOREM NothingLeaksTheorem == Spec => []NothingLeaks
<1>1. IInv => NothingLeaks
  BY DEF IInv, NothingLeaks, Fits, SeenFits
<1> QED BY <1>1, EntriesTell, PTL

-----------------------------------------------------------------------------
(***************************************************************************)
(* The cached matrices, a second component of a search (VectorIndex).      *)
(***************************************************************************)
Busy == {r \in Searches : searches[r] # NoSearch}

\* Whatever carries an epoch tells the vectors of that epoch: no matrix and no
\* snapshot is of a later epoch than the table, and two of one epoch are alike.
EpochsTell ==
  /\ \A s \in Spaces :
       /\ matrices[s].epoch <= epoch
       /\ matrices[s].epoch = epoch => matrices[s].items = InSpace(memories, s)
  /\ \A r \in Busy :
       /\ searches[r].epoch <= epoch
       /\ searches[r].epoch = epoch => searches[r].items = InSpace(memories, searches[r].space)
       /\ matrices[searches[r].space].epoch = searches[r].epoch =>
            matrices[searches[r].space].items = searches[r].items
  /\ \A q, r \in Busy :
       searches[q].space = searches[r].space /\ searches[q].epoch = searches[r].epoch =>
         searches[q].items = searches[r].items

\* What a recall has loaded, or is scoring, is of its snapshot.
Loaded ==
  \A r \in Busy :
    /\ searches[r].stage = "store" =>
         searches[r].index = [epoch |-> searches[r].epoch, items |-> searches[r].items]
    /\ searches[r].stage = "scored" => searches[r].index.items = searches[r].items

IndexInv == IndexTypeOK /\ EpochsTell /\ Loaded

-----------------------------------------------------------------------------
\* The vectors of a space change only with a column that the triggers name.
LEMMA TriggersSuffice ==
  ASSUME memories \in [MemoryIds -> Memory], NEW i \in MemoryIds, NEW row \in Memory, NEW s \in Spaces,
         ~Advances(memories[i], row)
  PROVE  InSpace([memories EXCEPT ![i] = row], s) = InSpace(memories, s)
BY DEF InSpace, Advances, Memory

\* A space's vectors are a set of memories with a vector.
LEMMA InSpaceType == \A s \in Spaces : InSpace(memories, s) \in Items
BY DEF InSpace, Items

LEMMA InitIndex ==
  ASSUME IndexInit
  PROVE  IndexInv
<1>1. NoIndex \in Index /\ NoIndex.epoch = -1
  BY DEF NoIndex, Index, Items
<1>2. IndexTypeOK
  BY <1>1, IndexAssumption DEF IndexInit, IndexTypeOK
<1>3. Busy = {}
  BY DEF IndexInit, Busy
<1>4. EpochsTell
  <2>1. \A s \in Spaces : matrices[s].epoch = -1 /\ epoch = 1  BY <1>1 DEF IndexInit
  <2> QED BY <1>3, <2>1 DEF EpochsTell
<1> QED BY <1>2, <1>3, <1>4 DEF IndexInv, Loaded

\* A write that changes the vectors of a space begins a new epoch.
LEMMA IndexWriteKeeps ==
  ASSUME IndexInv, NEW i \in MemoryIds, WriteMemory(i)
  PROVE  IndexInv'
<1>1. PICK row \in Memory :
        /\ memories' = [memories EXCEPT ![i] = row]
        /\ epoch' = IF Advances(memories[i], row) THEN epoch + 1 ELSE epoch
  BY DEF WriteMemory
<1>2. UNCHANGED <<matrices, searches>> /\ writes' \in 0..MaxWrites
  BY IndexAssumption DEF WriteMemory, IndexInv, IndexTypeOK
<1>3. IndexTypeOK'
  BY <1>1, <1>2 DEF IndexInv, IndexTypeOK
<1>4. EpochsTell'
  <2>1. CASE Advances(memories[i], row)
    <3>1. epoch' = epoch + 1  BY <1>1, <2>1
    <3>2. /\ \A s \in Spaces : matrices[s].epoch <= epoch /\ matrices[s].epoch \in Nat \cup {-1}
          /\ \A r \in Busy : searches[r].epoch <= epoch /\ searches[r].epoch \in Nat
      BY DEF IndexInv, EpochsTell, IndexTypeOK, Index, Busy, Scoring
    <3> QED BY <1>2, <3>1, <3>2 DEF IndexInv, IndexTypeOK, EpochsTell, Busy
  <2>2. CASE ~Advances(memories[i], row)
    <3>1. /\ epoch' = epoch
          /\ \A s \in Spaces : InSpace(memories', s) = InSpace(memories, s)
      BY <1>1, <2>2, TriggersSuffice DEF IndexInv, IndexTypeOK
    <3>2. \A r \in Busy : searches[r].space \in Spaces
      BY DEF IndexInv, IndexTypeOK, Busy, Scoring
    <3> QED BY <1>2, <3>1, <3>2 DEF IndexInv, EpochsTell, Busy
  <2> QED BY <2>1, <2>2
<1>5. Loaded'
  BY <1>2 DEF IndexInv, Loaded, Busy
<1> QED BY <1>3, <1>4, <1>5 DEF IndexInv

\* A snapshot tells the vectors of the epoch that is current.
LEMMA IndexBeginKeeps ==
  ASSUME IndexInv, NEW r \in Searches, NEW s \in Spaces, BeginSearch(r, s)
  PROVE  IndexInv'
<1> DEFINE new == [stage |-> "look", space |-> s, epoch |-> epoch,
                   items |-> InSpace(memories, s), index |-> NoIndex]
<1>1. /\ searches' = [searches EXCEPT ![r] = new]
      /\ UNCHANGED <<memories, epoch, matrices, writes>>
  BY DEF BeginSearch
<1>2. new \in Scoring /\ new # NoSearch
  BY InSpaceType
     DEF Scoring, NoSearch, Index, NoIndex, Items, IndexInv, IndexTypeOK
<1>3. Busy' = Busy \cup {r}
  BY <1>1, <1>2 DEF Busy, IndexInv, IndexTypeOK
<1>4. /\ searches'[r] = new
      /\ \A q \in Searches : q # r => searches'[q] = searches[q]
  BY <1>1 DEF IndexInv, IndexTypeOK
<1>5. IndexTypeOK'
  BY <1>1, <1>2 DEF IndexInv, IndexTypeOK
<1>6. EpochsTell'
  <2>1. epoch \in Nat  BY DEF IndexInv, IndexTypeOK
  <2> QED BY <1>1, <1>3, <1>4, <2>1 DEF IndexInv, EpochsTell, Busy
<1>7. Loaded'
  BY <1>1, <1>3, <1>4 DEF IndexInv, Loaded, Busy
<1> QED BY <1>5, <1>6, <1>7 DEF IndexInv

\* A request goes on with its space, epoch and snapshot.
GoesOn(r, new) ==
  /\ new \in Scoring
  /\ new.space = searches[r].space /\ new.epoch = searches[r].epoch
  /\ new.items = searches[r].items
  /\ searches' = [searches EXCEPT ![r] = new]

\* ... and as long as the cache tells the truth, so does everything.
LEMMA IndexGoingOn ==
  ASSUME IndexInv, NEW r \in Busy, NEW new, GoesOn(r, new),
         UNCHANGED <<memories, epoch, writes>>,
         matrices' \in [Spaces -> Index],
         \A s \in Spaces :
           \/ matrices'[s] = matrices[s]
           \/ matrices'[s] = NoIndex
           \/ /\ s = searches[r].space
              /\ matrices'[s] = [epoch |-> searches[r].epoch, items |-> searches[r].items]
  PROVE  IndexTypeOK' /\ EpochsTell'
<1>1. r \in Searches /\ searches[r] \in Scoring /\ new # NoSearch
  BY DEF Busy, IndexInv, IndexTypeOK, GoesOn, Scoring, NoSearch
<1>2. Busy' = Busy
  BY <1>1 DEF Busy, GoesOn, IndexInv, IndexTypeOK
<1>3. \A q \in Busy :
        /\ searches'[q].space = searches[q].space /\ searches'[q].epoch = searches[q].epoch
        /\ searches'[q].items = searches[q].items
        /\ searches[q].space \in Spaces /\ searches[q].epoch \in Nat
  BY <1>1 DEF Busy, GoesOn, IndexInv, IndexTypeOK, Scoring
<1>4. IndexTypeOK'
  BY <1>1 DEF GoesOn, IndexInv, IndexTypeOK
<1>5. epoch \in Nat /\ \A s \in Spaces : NoIndex.epoch < 0
  BY DEF IndexInv, IndexTypeOK, NoIndex
<1>6. \A s \in Spaces :
        /\ matrices'[s].epoch <= epoch
        /\ matrices'[s].epoch = epoch => matrices'[s].items = InSpace(memories, s)
  BY <1>3, <1>5 DEF IndexInv, EpochsTell, NoIndex
<1>7. \A q \in Busy : matrices'[searches[q].space].epoch = searches[q].epoch =>
                        matrices'[searches[q].space].items = searches[q].items
  BY <1>3, <1>5 DEF IndexInv, EpochsTell, NoIndex
<1> QED BY <1>2, <1>3, <1>4, <1>6, <1>7 DEF IndexInv, EpochsTell

LEMMA IndexLookKeeps ==
  ASSUME IndexInv, NEW r \in Searches, Look(r)
  PROVE  IndexInv'
<1> DEFINE kept == matrices[searches[r].space]
           fresh == [epoch |-> searches[r].epoch, items |-> searches[r].items]
           hit == [searches[r] EXCEPT !.stage = "scored", !.index = kept]
           miss == [searches[r] EXCEPT !.stage = "store", !.index = fresh]
<1>1. r \in Busy /\ searches[r] \in Scoring
  BY DEF Look, Busy, NoSearch, IndexInv, IndexTypeOK
<1>2. UNCHANGED <<memories, epoch, matrices, writes>> /\ matrices \in [Spaces -> Index]
  BY DEF Look, IndexInv, IndexTypeOK
<1>3. kept \in Index /\ fresh \in Index
  BY <1>1, <1>2 DEF Scoring, Index
<1>4. CASE kept.epoch = searches[r].epoch
  <2>1. searches' = [searches EXCEPT ![r] = hit]  BY <1>4 DEF Look
  <2>2. /\ hit \in Scoring /\ hit.stage = "scored" /\ hit.index = kept
        /\ hit.space = searches[r].space /\ hit.epoch = searches[r].epoch
        /\ hit.items = searches[r].items
    BY <1>1, <1>3 DEF Scoring
  <2>3. kept.items = searches[r].items  BY <1>1, <1>4 DEF IndexInv, EpochsTell
  <2> HIDE DEF hit, kept
  <2>4. GoesOn(r, hit)  BY <2>1, <2>2 DEF GoesOn
  <2>5. IndexTypeOK' /\ EpochsTell'  BY <1>1, <1>2, <2>4, IndexGoingOn
  <2>6. Loaded'
    BY <1>1, <2>1, <2>2, <2>3 DEF IndexInv, IndexTypeOK, Loaded, Busy
  <2> QED BY <2>5, <2>6 DEF IndexInv
<1>5. CASE kept.epoch # searches[r].epoch
  <2>1. searches' = [searches EXCEPT ![r] = miss]  BY <1>5 DEF Look
  <2>2. /\ miss \in Scoring /\ miss.stage = "store" /\ miss.index = fresh
        /\ miss.space = searches[r].space /\ miss.epoch = searches[r].epoch
        /\ miss.items = searches[r].items
    BY <1>1, <1>3 DEF Scoring
  <2> HIDE DEF miss
  <2>3. GoesOn(r, miss)  BY <2>1, <2>2 DEF GoesOn
  <2>4. IndexTypeOK' /\ EpochsTell'  BY <1>1, <1>2, <2>3, IndexGoingOn
  <2>5. Loaded'
    BY <1>1, <2>1, <2>2 DEF IndexInv, IndexTypeOK, Loaded, Busy
  <2> QED BY <2>4, <2>5 DEF IndexInv
<1> QED BY <1>4, <1>5

\* A matrix that is stored late is one of an earlier epoch, and nobody takes it
\* for another.
LEMMA IndexStoreKeeps ==
  ASSUME IndexInv, NEW r \in Searches, StoreIndex(r)
  PROVE  IndexInv'
<1> DEFINE stored == [matrices EXCEPT ![searches[r].space] = searches[r].index]
           new == [searches[r] EXCEPT !.stage = "scored"]
<1>1. r \in Busy /\ searches[r] \in Scoring
  BY DEF StoreIndex, Busy, NoSearch, IndexInv, IndexTypeOK
<1>2. searches[r].index = [epoch |-> searches[r].epoch, items |-> searches[r].items]
  BY <1>1 DEF StoreIndex, IndexInv, Loaded
<1>3. /\ matrices \in [Spaces -> Index] /\ NoIndex \in Index
      /\ stored \in [Spaces -> Index]
  BY <1>1 DEF IndexInv, IndexTypeOK, NoIndex, Index, Items, Scoring
<1>4. \/ matrices' = stored
      \/ \E s \in Spaces : matrices' = [stored EXCEPT ![s] = NoIndex]
  BY DEF StoreIndex, Kept
<1>5. matrices' \in [Spaces -> Index]
  BY <1>3, <1>4
<1>6. \A s \in Spaces :
        \/ matrices'[s] = matrices[s]
        \/ matrices'[s] = NoIndex
        \/ /\ s = searches[r].space
           /\ matrices'[s] = [epoch |-> searches[r].epoch, items |-> searches[r].items]
  BY <1>1, <1>2, <1>3, <1>4 DEF Scoring
<1>7. searches' = [searches EXCEPT ![r] = new] /\ UNCHANGED <<memories, epoch, writes>>
  BY DEF StoreIndex
<1>8. /\ new \in Scoring /\ new.stage = "scored" /\ new.index = searches[r].index
      /\ new.space = searches[r].space /\ new.epoch = searches[r].epoch
      /\ new.items = searches[r].items
  BY <1>1 DEF Scoring
<1> HIDE DEF stored, new
<1>9. GoesOn(r, new)  BY <1>7, <1>8 DEF GoesOn
<1>10. IndexTypeOK' /\ EpochsTell'  BY <1>1, <1>5, <1>6, <1>7, <1>9, IndexGoingOn
<1>11. Loaded'
  BY <1>1, <1>2, <1>7, <1>8 DEF IndexInv, IndexTypeOK, Loaded, Busy
<1> QED BY <1>10, <1>11 DEF IndexInv

LEMMA IndexEndKeeps ==
  ASSUME IndexInv, NEW r \in Searches, End(r)
  PROVE  IndexInv'
<1>1. /\ searches' = [searches EXCEPT ![r] = NoSearch]
      /\ UNCHANGED <<memories, epoch, matrices, writes>>
  BY DEF End
<1>2. Busy' = Busy \ {r} /\ \A q \in Busy' : searches'[q] = searches[q]
  BY <1>1 DEF Busy, IndexInv, IndexTypeOK
<1> QED BY <1>1, <1>2 DEF IndexInv, IndexTypeOK, EpochsTell, Loaded

LEMMA NextIndex ==
  ASSUME IndexInv, [IndexNext]_indexVars
  PROVE  IndexInv'
<1>1. CASE UNCHANGED indexVars
  BY <1>1 DEF indexVars, IndexInv, IndexTypeOK, EpochsTell, Loaded, Busy
<1>2. CASE IndexNext
  BY <1>2, IndexWriteKeeps, IndexBeginKeeps, IndexLookKeeps, IndexStoreKeeps, IndexEndKeeps
     DEF IndexNext
<1> QED BY <1>1, <1>2

\* In every state, whatever carries an epoch tells the vectors of that epoch.
THEOREM EpochsTellTheVectors ==
  IndexSpec => []IndexInv
<1>1. IndexInit => IndexInv
  BY InitIndex
<1>2. IndexInv /\ [IndexNext]_indexVars => IndexInv'
  BY NextIndex
<1> QED BY <1>1, <1>2, PTL DEF IndexSpec

\* Every recall scores the vectors of the snapshot whose pages it ranks.
THEOREM IndexIsOfTheSnapshot ==
  IndexSpec => []IndexOfSnapshot
<1>1. IndexInv => IndexOfSnapshot
  <2> SUFFICES ASSUME IndexInv, NEW r \in Searches, searches[r].stage = "scored"
                PROVE  searches[r].index.items = searches[r].items
    BY DEF IndexOfSnapshot
  <2>1. NoSearch.stage # "scored"  BY DEF NoSearch
  <2>2. r \in Busy  BY <2>1 DEF Busy
  <2> QED BY <2>2 DEF IndexInv, Loaded
<1> QED BY <1>1, EpochsTellTheVectors, PTL
=============================================================================
