------------------------- MODULE MemoryTimelineProofs -------------------------
(***************************************************************************)
(* Facts of one key do not overlap in time, links without a key are        *)
(* paired, and a purge takes all that rests on what it deletes, for any    *)
(* number of memories, keys, instants and operations.                      *)
(***************************************************************************)
EXTENDS MemoryTimeline, FiniteSetTheorems, TLAPS

-----------------------------------------------------------------------------
(* Orders: the library's well-founded ordering of finite sets stands in for the *)
(* least-number principle, which cannot be instantiated here. *)

HasMin(f, S) == \E m \in S : \A k \in S : f[m] <= f[k]

\* A function to the naturals is least somewhere on a nonempty set: used where a
\* query orders rows and takes the first.
LEMMA LeastValue ==
  ASSUME NEW S, S # {}, NEW f, \A k \in S : f[k] \in Nat
  PROVE  HasMin(f, S)
<1> DEFINE Below == {0..f[k] : k \in S}
<1>1. Below \subseteq FiniteSubsetsOf(Nat) /\ Below # {}
  <2>1. \A k \in S : 0..f[k] \in SUBSET Nat /\ IsFiniteSet(0..f[k])
    BY FS_Interval
  <2> QED BY <2>1 DEF FiniteSubsetsOf
<1>2. PICK B \in Below : \A C \in Below : ~(<<C, B>> \in StrictSubsetOrdering(Nat))
  <2>1. IsWellFoundedOn(StrictSubsetOrdering(Nat), FiniteSubsetsOf(Nat))
    BY FS_StrictSubsetOrderingWellFounded
  <2> HIDE DEF Below
  <2> QED BY <1>1, <2>1, WFMin
<1>3. PICK m \in S : B = 0..f[m]
  BY <1>2
<1>4. ASSUME NEW k \in S PROVE f[m] <= f[k]
  <2>1. SUFFICES ASSUME f[k] < f[m] PROVE FALSE
    BY <1>3
  <2>2. f[k] \in Nat /\ f[m] \in Nat
    BY <1>3
  <2>3. 0..f[k] \subseteq 0..f[m] /\ f[m] \in 0..f[m] /\ f[m] \notin 0..f[k]
    BY <2>1, <2>2
  <2>4. <<0..f[k], B>> \in StrictSubsetOrdering(Nat)
    BY <1>3, <2>2, <2>3 DEF StrictSubsetOrdering
  <2> QED BY <1>2, <2>4
<1> QED BY <1>3, <1>4 DEF HasMin


LEMMA Bounds == /\ MaxId \in Nat /\ MaxTime \in Nat /\ MaxEdits \in Nat
                /\ Starts \subseteq Instants /\ Ends \subseteq Instants /\ NoKey \notin Keys
BY TimelineAssumption DEF Instants

USE Bounds DEF Ids, Null, Never, Instants

Rows == [Ids -> Row]

\* A link, or none.
Link == Ids \cup {Null}

Links(r) == {r.sup, r.supBy} \ {Null}

-----------------------------------------------------------------------------
(* What the proofs say of a table *)

\* The links of row i, without a key and live, lead to rows that link back, to an
\* older one and to a younger one.
Meets(rs, i) ==
  /\ rs[i].sup # Null =>
       /\ rs[i].sup \in Live(rs) /\ rs[rs[i].sup].key = NoKey
       /\ rs[rs[i].sup].supBy = i /\ rs[i].sup < i
  /\ rs[i].supBy # Null =>
       /\ rs[i].supBy \in Live(rs) /\ rs[rs[i].supBy].key = NoKey
       /\ rs[rs[i].supBy].sup = i /\ i < rs[i].supBy

Paired(rs) ==
  \A i \in Kept(rs) : rs[i].key = NoKey =>
    IF i \in Live(rs) THEN Meets(rs, i) ELSE Links(rs[i]) = {}

\* Whatever the links of a key's rows lead to, and what its links lead to, has the key.
Tied(rs, k) ==
  \E G \in SUBSET Kept(rs) :
    OfKey(rs, k) \subseteq G /\ \A i \in G : rs[i].key = k /\ Links(rs[i]) \subseteq G

Apart(rs, k) == \A i, j \in OfKey(rs, k) : i # j => ~Overlap(rs[i], rs[j])

\* No link of a key's live rows dangles.
Bound(rs, k) == \A i \in OfKey(rs, k) : Links(rs[i]) \subseteq OfKey(rs, k)

Chains(rs) == Paired(rs) /\ \A k \in Keys : Tied(rs, k) /\ Apart(rs, k)

\* What was true of a key's rows still is.
Keeps(rs, rs2, k) ==
  /\ Tied(rs, k) => Tied(rs2, k)
  /\ Apart(rs, k) => Apart(rs2, k)
  /\ Bound(rs, k) => Bound(rs2, k)

-----------------------------------------------------------------------------
(* Rows and tables *)

LEMMA RowIs ==
  ASSUME NEW r \in Row
  PROVE  /\ r.place \in Places /\ r.status \in {"dynamic", "resolved", "pinned"}
         /\ r.key \in Keys \cup {NoKey} /\ r.created \in Instants
         /\ r.from \in Instants \cup {Never} /\ r.until \in Instants \cup {Never}
         /\ r.sup \in Link /\ r.supBy \in Link /\ r.evidence \in SUBSET Ids
         /\ Start(r) \in Instants /\ Start(r) \in Nat /\ r.until \in Nat
BY DEF Row, Start, Link

\* What relinking leaves alone in a row.
Kin(r, r2) == /\ r2.place = r.place /\ r2.key = r.key /\ r2.created = r.created
              /\ r2.from = r.from /\ r2.evidence = r.evidence

\* A table of which only rows in S are relinked.
Within(rs, rs2, S) ==
  rs2 \in Rows /\ \A i \in Ids : Kin(rs[i], rs2[i]) /\ (i \notin S => rs2[i] = rs[i])

LEMMA KinKeeps ==
  ASSUME NEW rs \in Rows, NEW rs2 \in Rows, \A i \in Ids : Kin(rs[i], rs2[i])
  PROVE  /\ Live(rs2) = Live(rs) /\ Trash(rs2) = Trash(rs) /\ Kept(rs2) = Kept(rs)
         /\ \A k \in Keys \cup {NoKey} : OfKey(rs2, k) = OfKey(rs, k)
         /\ \A i \in Ids : Start(rs2[i]) = Start(rs[i])
BY DEF Kin, Live, Trash, Kept, OfKey, Start

LEMMA OfKeyIs ==
  ASSUME NEW rs, NEW k \in Keys, NEW i
  PROVE  i \in OfKey(rs, k) <=> i \in Live(rs) /\ rs[i].key = k
BY DEF OfKey

LEMMA LiveAre ==
  ASSUME NEW rs
  PROVE  /\ Live(rs) \subseteq Ids /\ Trash(rs) \subseteq Ids
         /\ Kept(rs) = Live(rs) \cup Trash(rs) /\ Kept(rs) \subseteq Ids
         /\ \A i \in Kept(rs) : i \in Live(rs) <=> rs[i].place = "live"
BY DEF Live, Trash, Kept

\* The rows of a key that nothing touched are as they were.
Untouched(rs, rs2, k) ==
  \A i \in Ids : (i \in Kept(rs) /\ rs[i].key = k) \/ (i \in Kept(rs2) /\ rs2[i].key = k)
                   => rs2[i] = rs[i]

LEMMA UntouchedSame ==
  ASSUME NEW rs \in Rows, NEW rs2 \in Rows, NEW k, Untouched(rs, rs2, k), NEW i \in Ids
  PROVE  /\ i \in Kept(rs) /\ rs[i].key = k <=> i \in Kept(rs2) /\ rs2[i].key = k
         /\ i \in Live(rs) /\ rs[i].key = k <=> i \in Live(rs2) /\ rs2[i].key = k
         /\ i \in Kept(rs) /\ rs[i].key = k => rs2[i] = rs[i]
BY DEF Untouched, Kept, Live, Trash

LEMMA UntouchedKeeps ==
  ASSUME NEW rs \in Rows, NEW rs2 \in Rows, NEW k \in Keys, Untouched(rs, rs2, k)
  PROVE  Keeps(rs, rs2, k)
<1>1. OfKey(rs2, k) = OfKey(rs, k) /\ OfKey(rs, k) \subseteq Kept(rs)
  <2>1. ASSUME NEW i PROVE i \in OfKey(rs2, k) <=> i \in OfKey(rs, k)
    BY <2>1, UntouchedSame, OfKeyIs, LiveAre
  <2> QED BY <2>1, OfKeyIs, LiveAre
<1>2. \A i \in OfKey(rs, k) : rs2[i] = rs[i]
  BY <1>1, UntouchedSame, OfKeyIs, LiveAre
<1>3. ASSUME Tied(rs, k) PROVE Tied(rs2, k)
  <2>1. PICK G \in SUBSET Kept(rs) :
          OfKey(rs, k) \subseteq G /\ \A i \in G : rs[i].key = k /\ Links(rs[i]) \subseteq G
    BY <1>3 DEF Tied
  <2>2. \A i \in G : i \in Kept(rs2) /\ rs2[i] = rs[i]
    BY <2>1, UntouchedSame, LiveAre
  <2>3. G \in SUBSET Kept(rs2)
    BY <2>2
  <2> QED BY <1>1, <2>1, <2>2, <2>3 DEF Tied
<1>4. Apart(rs, k) => Apart(rs2, k)
  BY <1>1, <1>2 DEF Apart
<1>5. Bound(rs, k) => Bound(rs2, k)
  BY <1>1, <1>2 DEF Bound
<1> QED BY <1>3, <1>4, <1>5 DEF Keeps

LEMMA UntouchedPairs ==
  ASSUME NEW rs \in Rows, NEW rs2 \in Rows, Untouched(rs, rs2, NoKey), Paired(rs)
  PROVE  Paired(rs2)
<1> SUFFICES ASSUME NEW i \in Kept(rs2), rs2[i].key = NoKey
             PROVE  IF i \in Live(rs2) THEN Meets(rs2, i) ELSE Links(rs2[i]) = {}
  BY DEF Paired
<1>1. /\ i \in Ids /\ i \in Kept(rs) /\ rs[i].key = NoKey /\ rs2[i] = rs[i]
      /\ i \in Live(rs2) <=> i \in Live(rs)
  BY UntouchedSame, LiveAre
<1>2. \A j \in Live(rs) : rs[j].key = NoKey => j \in Live(rs2) /\ rs2[j] = rs[j]
  BY UntouchedSame, LiveAre
<1>3. CASE i \in Live(rs)
  <2>1. Meets(rs, i)
    BY <1>1, <1>3 DEF Paired
  <2> QED BY <1>1, <1>2, <1>3, <2>1 DEF Meets
<1>4. CASE i \notin Live(rs)
  BY <1>1, <1>4 DEF Paired
<1> QED BY <1>3, <1>4

\* Relinking a key's rows leaves all others alone.
LEMMA WithinKeeps ==
  ASSUME NEW rs \in Rows, NEW rs2, NEW k \in Keys, Within(rs, rs2, OfKey(rs, k))
  PROVE  /\ rs2 \in Rows
         /\ \A l \in Keys \ {k} : Keeps(rs, rs2, l)
         /\ Paired(rs) => Paired(rs2)
<1>1. rs2 \in Rows /\ Kept(rs2) = Kept(rs) /\ \A i \in Ids : rs2[i].key = rs[i].key
  BY KinKeeps DEF Within, Kin
<1>2. \A l \in (Keys \ {k}) \cup {NoKey} : Untouched(rs, rs2, l)
  BY <1>1 DEF Untouched, Within, OfKey
<1> QED BY <1>1, <1>2, UntouchedKeeps, UntouchedPairs

-----------------------------------------------------------------------------
(* Order in time *)

LEMMA EarliestIs ==
  ASSUME NEW rs \in Rows, NEW S \in SUBSET Ids, S # {}
  PROVE  EarliestOf(rs, S) # {}
<1> DEFINE f == [i \in Ids |-> Start(rs[i])]
<1>1. \A i \in S : f[i] \in Nat
  BY RowIs DEF Rows
<1>2. HasMin(f, S)
  <2> HIDE DEF f
  <2> QED BY <1>1, LeastValue
<1> QED BY <1>2 DEF HasMin, EarliestOf

LEMMA LatestIs ==
  ASSUME NEW rs \in Rows, NEW S \in SUBSET Ids, S # {}
  PROVE  LatestOf(rs, S) # {}
<1> DEFINE f == [i \in Ids |-> MaxTime - Start(rs[i])]
<1>1. \A i \in Ids : Start(rs[i]) \in Instants
  BY RowIs DEF Rows
<1>2. \A i \in S : f[i] \in Nat
  BY <1>1
<1>3. PICK m \in S : \A i \in S : f[m] <= f[i]
  <2> HIDE DEF f
  <2> QED BY <1>2, LeastValue DEF HasMin
<1>4. ASSUME NEW i \in S PROVE Start(rs[i]) <= Start(rs[m])
  <2>1. f[m] = MaxTime - Start(rs[m]) /\ f[i] = MaxTime - Start(rs[i]) /\ f[m] <= f[i]
    BY <1>3
  <2>2. Start(rs[m]) \in Nat /\ Start(rs[i]) \in Nat
    BY <1>1
  <2> QED BY <2>1, <2>2
<1> QED BY <1>3, <1>4 DEF LatestOf

LEMMA FirstIs ==
  ASSUME NEW rs \in Rows, NEW S \in SUBSET Ids, S # {}
  PROVE  \E j \in S : \A l \in S \ {j} : Before(rs, j, l)
<1>1. PICK m \in S : \A i \in S : Start(rs[m]) <= Start(rs[i])
  BY EarliestIs DEF EarliestOf
<1> DEFINE T == {i \in S : Start(rs[i]) = Start(rs[m])}
           f == [i \in Ids |-> i]
<1>2. T # {} /\ \A i \in T : f[i] \in Nat
  <2>1. m \in T
    BY <1>1
  <2>2. \A i \in T : f[i] \in Nat
    OBVIOUS
  <2> QED BY <2>1, <2>2
<1>3. PICK j \in T : \A i \in T : f[j] <= f[i]
  <2> HIDE DEF T, f
  <2> QED BY <1>2, LeastValue DEF HasMin
<1>4. ASSUME NEW l \in S \ {j} PROVE Before(rs, j, l)
  <2>1. /\ Start(rs[l]) \in Nat /\ Start(rs[m]) \in Nat /\ Start(rs[m]) <= Start(rs[l])
        /\ Start(rs[j]) = Start(rs[m]) /\ l \in Nat /\ j \in Nat
    <3>1. rs[l] \in Row /\ rs[m] \in Row /\ l \in Ids /\ j \in Ids
      BY <1>1, <1>3 DEF Rows
    <3>2. Start(rs[l]) \in Nat /\ Start(rs[m]) \in Nat
      BY <3>1, RowIs
    <3>3. Start(rs[m]) <= Start(rs[l])
      BY <1>1, <1>4
    <3>4. Start(rs[j]) = Start(rs[m])
      BY <1>3
    <3> QED BY <3>1, <3>2, <3>3, <3>4
  <2>2. ASSUME l \in T PROVE j < l
    <3>1. f[j] <= f[l] /\ f[j] = j /\ f[l] = l
      BY <1>3, <2>2
    <3> QED BY <1>4, <2>1, <3>1
  <2> QED BY <1>4, <2>1, <2>2 DEF Before
<1> QED BY <1>3, <1>4

LEMMA LeastIs ==
  ASSUME NEW S \in SUBSET (Instants \cup {Never}), S # {}
  PROVE  Min(S) \in S /\ \A x \in S : Min(S) <= x
<1> DEFINE f == [x \in S |-> x]
<1>1. \A x \in S : f[x] \in Nat
  OBVIOUS
<1>2. \E m \in S : \A x \in S : m <= x
  <2>1. HasMin(f, S)
    <3> HIDE DEF f
    <3> QED BY <1>1, LeastValue
  <2> QED BY <2>1 DEF HasMin
<1> QED BY <1>2 DEF Min

-----------------------------------------------------------------------------
(* Rebuild *)

LEMMA StatusIs ==
  ASSUME NEW r \in Row, NEW end
  PROVE  StatusAt(r, end) \in {"dynamic", "resolved", "pinned"}
BY DEF StatusAt

\* Of the rows before or after one, the next: Null, or a row which all the others
\* are beyond.
LEMMA RebuildIs ==
  ASSUME NEW rs \in Rows, NEW k \in Keys
  PROVE  /\ Within(rs, Rebuild(rs, k), OfKey(rs, k))
         /\ \A i \in OfKey(rs, k) : Links(Rebuild(rs, k)[i]) \subseteq OfKey(rs, k)
         /\ Apart(Rebuild(rs, k), k)
<1> DEFINE S == OfKey(rs, k)
           Prev(i) == {j \in S : Before(rs, j, i)}
           After(i) == {j \in S : Before(rs, i, j)}
           Pred(i) == {j \in Prev(i) : \A l \in Prev(i) \ {j} : Before(rs, l, j)}
           Succ(i) == {j \in After(i) : \A l \in After(i) \ {j} : Before(rs, j, l)}
           Declared(i) ==
             IF rs[i].supBy \in S /\ rs[i].until = Start(rs[rs[i].supBy])
               THEN Never ELSE rs[i].until
           Bars(i) == {Declared(i)} \cup {Start(rs[j]) : j \in Succ(i)}
           End(i) == Min(Bars(i))
           ById(P) == CHOOSE j \in OneOf(P) : TRUE
           new(i) == [rs[i] EXCEPT
                        !.until = End(i), !.sup = ById(Pred(i)), !.supBy = ById(Succ(i)),
                        !.status = IF @ = "resolved" /\ End(i) = Never THEN @
                                   ELSE StatusAt(rs[i], End(i))]
           rs2 == Rebuild(rs, k)
<1>1. rs2 = [i \in Ids |-> IF i \notin S THEN rs[i] ELSE new(i)]
  BY DEF Rebuild
<1>2. S \in SUBSET Ids /\ \A i \in Ids : rs[i] \in Row
  BY OfKeyIs, LiveAre DEF Rows
<1>3. \A P \in SUBSET S : ById(P) \in S \cup {Null}
  BY DEF OneOf
<1>4. \A i \in S : Pred(i) \in SUBSET S /\ Succ(i) \in SUBSET S
  OBVIOUS
<1>5. ASSUME NEW i \in S
      PROVE  /\ Bars(i) \in SUBSET (Instants \cup {Never})
             /\ End(i) \in Instants \cup {Never} /\ \A x \in Bars(i) : End(i) <= x
  <2>1. Declared(i) \in Instants \cup {Never}
    BY <1>2, <1>5, RowIs
  <2>2. \A j \in S : Start(rs[j]) \in Instants
    BY <1>2, RowIs
  <2>3. Bars(i) \in SUBSET (Instants \cup {Never}) /\ Bars(i) # {}
    BY <2>1, <2>2
  <2> HIDE DEF Bars
  <2> QED BY <2>3, LeastIs
<1> HIDE DEF End, ById
<1>6. ASSUME NEW i \in S
      PROVE  /\ new(i) \in Row /\ Kin(rs[i], new(i)) /\ Links(new(i)) \subseteq S
             /\ new(i).until = End(i)
  <2>1. /\ ById(Pred(i)) \in S \cup {Null} /\ ById(Succ(i)) \in S \cup {Null}
        /\ End(i) \in Instants \cup {Never} /\ rs[i] \in Row
    BY <1>2, <1>3, <1>4, <1>5
  <2> DEFINE p == ById(Pred(i))  s == ById(Succ(i))  e == End(i)
             st == IF rs[i].status = "resolved" /\ e = Never THEN rs[i].status
                   ELSE StatusAt(rs[i], e)
  <2>2. st \in {"dynamic", "resolved", "pinned"}
    BY <2>1, StatusIs, RowIs
  <2>3. new(i) = [rs[i] EXCEPT !.until = e, !.sup = p, !.supBy = s, !.status = st]
    BY <2>1 DEF Row
  <2>4. p \in S \cup {Null} /\ s \in S \cup {Null} /\ e \in Instants \cup {Never}
    BY <2>1
  <2> HIDE DEF p, s, e, st, new
  <2>5. new(i) \in Row
    BY <1>2, <2>1, <2>2, <2>3, <2>4 DEF Row
  <2>6. new(i).sup = p /\ new(i).supBy = s /\ Kin(rs[i], new(i)) /\ new(i).until = e
    BY <2>1, <2>3 DEF Row, Kin
  <2> QED BY <2>4, <2>5, <2>6 DEF Links, e
<1> HIDE DEF new
<1>7. \A i \in Ids : rs2[i] = IF i \notin S THEN rs[i] ELSE new(i)
  BY <1>1
<1>8. rs2 \in Rows
  BY <1>1, <1>2, <1>6 DEF Rows
<1> HIDE DEF rs2
<1>9. Within(rs, rs2, S)
  BY <1>6, <1>7, <1>8 DEF Within, Kin
<1>10. \A i \in S : Links(rs2[i]) \subseteq S
  BY <1>2, <1>6, <1>7
<1>11. ASSUME NEW i \in S, NEW j \in S, Before(rs, i, j)
       PROVE  rs2[i].until <= Start(rs[j])
  <2>1. PICK l \in After(i) : \A x \in After(i) \ {l} : Before(rs, l, x)
    <3>1. After(i) \in SUBSET Ids /\ After(i) # {}
      BY <1>2, <1>11
    <3> HIDE DEF After
    <3> QED BY <3>1, FirstIs
  <2>2. l \in Succ(i) /\ l \in S
    BY <2>1
  <2>3. Start(rs[l]) \in Bars(i)
    BY <2>2
  <2>4. End(i) <= Start(rs[l])
    BY <1>5, <2>3
  <2>5. Start(rs[l]) <= Start(rs[j])
    <3>1. CASE l = j
      BY <1>2, <3>1, RowIs
    <3>2. CASE l # j
      BY <1>2, <1>11, <2>1, <2>2, <3>2, RowIs DEF Before
    <3> QED BY <3>1, <3>2
  <2>6. /\ rs2[i].until = End(i) /\ End(i) \in Nat
        /\ Start(rs[l]) \in Nat /\ Start(rs[j]) \in Nat
    BY <1>2, <1>5, <1>6, <1>7, <2>2, RowIs
  <2> QED BY <2>4, <2>5, <2>6
<1>12. Apart(rs2, k)
  <2>1. OfKey(rs2, k) = S /\ \A i \in Ids : Start(rs2[i]) = Start(rs[i])
    BY <1>9, KinKeeps DEF Within
  <2>2. ASSUME NEW i \in S, NEW j \in S, i # j PROVE ~Overlap(rs2[i], rs2[j])
    <3>1. /\ Start(rs[i]) \in Nat /\ Start(rs[j]) \in Nat /\ i \in Nat /\ j \in Nat
          /\ rs2[i].until \in Nat /\ rs2[j].until \in Nat
      BY <1>2, <1>8, RowIs DEF Rows
    <3>2. Before(rs, i, j) \/ Before(rs, j, i)
      BY <2>2, <3>1 DEF Before
    <3>3. rs2[i].until <= Start(rs[j]) \/ rs2[j].until <= Start(rs[i])
      BY <1>11, <3>2
    <3> QED BY <1>2, <2>1, <3>1, <3>3 DEF Overlap
  <2> QED BY <2>1, <2>2 DEF Apart
<1> QED BY <1>9, <1>10, <1>12 DEF rs2

\* A key's chain that is built anew is in order, whatever it was, and the others
\* are what they were.
LEMMA RebuildKeeps ==
  ASSUME NEW rs \in Rows, NEW k \in Keys, NEW rs2, rs2 = Rebuild(rs, k)
  PROVE  /\ Within(rs, rs2, OfKey(rs, k)) /\ rs2 \in Rows
         /\ Tied(rs2, k) /\ Apart(rs2, k) /\ Bound(rs2, k)
         /\ \A l \in Keys \ {k} : Keeps(rs, rs2, l)
         /\ Paired(rs) => Paired(rs2)
<1>1. /\ Within(rs, rs2, OfKey(rs, k)) /\ Apart(rs2, k)
      /\ \A i \in OfKey(rs, k) : Links(rs2[i]) \subseteq OfKey(rs, k)
  BY RebuildIs
<1>2. rs2 \in Rows /\ OfKey(rs2, k) = OfKey(rs, k)
  BY <1>1, KinKeeps DEF Within
<1>3. Bound(rs2, k)
  BY <1>1, <1>2 DEF Bound
<1>4. Tied(rs2, k)
  <2>1. /\ OfKey(rs2, k) \in SUBSET Kept(rs2)
        /\ \A i \in OfKey(rs2, k) : rs2[i].key = k /\ Links(rs2[i]) \subseteq OfKey(rs2, k)
    BY <1>3, OfKeyIs, LiveAre DEF Bound
  <2> QED BY <2>1 DEF Tied
<1> QED BY <1>1, <1>2, <1>3, <1>4, WithinKeeps

LEMMA NothingToRebuild ==
  ASSUME NEW rs \in Rows
  PROVE  Rebuild(rs, NoKey) = rs
<1>1. OfKey(rs, NoKey) = {}
  BY DEF OfKey
<1>2. Rebuild(rs, NoKey) = [i \in Ids |-> rs[i]]
  BY <1>1 DEF Rebuild
<1> QED BY <1>2 DEF Rows

-----------------------------------------------------------------------------
(* Invalidate *)

LEMMA NothingToInvalidate ==
  ASSUME NEW rs, NEW n, rs[n].key = NoKey
  PROVE  Invalidate(rs, n) = {rs}
<1>1. OfKey(rs, rs[n].key) = {}
  BY DEF OfKey
<1>2. Eligible(rs, n) = {} /\ Later(rs, n) = {}
  BY <1>1 DEF Eligible, Later
<1> QED BY <1>2 DEF Invalidate

\* A new fact takes its place among those of its key.
LEMMA InvalidateIs ==
  ASSUME NEW rs \in Rows, NEW n \in Live(rs), NEW k \in Keys, rs[n].key = k,
         NEW rs2 \in Invalidate(rs, n)
  PROVE  /\ Within(rs, rs2, OfKey(rs, k))
         /\ \A i \in OfKey(rs, k) : Links(rs2[i]) \subseteq Links(rs[i]) \cup OfKey(rs, k)
         /\ \A i \in OfKey(rs, k) \ {n} : rs2[i].until <= rs[i].until
         /\ \A i \in OfKey(rs, k) \ {n} :
              rs2[i].until <= Start(rs[n]) \/ rs2[n].until <= Start(rs[i])
<1> DEFINE S == OfKey(rs, rs[n].key)
           at == Start(rs[n])
           others == S \ {n}
           eligible == Eligible(rs, n)
           later == Later(rs, n)
<1>a. S = OfKey(rs, k)
  OBVIOUS
<1>b. /\ eligible = {i \in others : Start(rs[i]) <= at /\ rs[i].until >= at}
      /\ later = {i \in others : Start(rs[i]) > at}
  BY DEF Eligible, Later
<1>1. /\ S \in SUBSET Ids /\ n \in S /\ n \in Ids /\ at \in Instants
      /\ \A i \in Ids : rs[i] \in Row
      /\ \A i \in S : Start(rs[i]) \in Nat /\ rs[i].until \in Nat /\ Start(rs[i]) \in Instants
  <2>1. S \in SUBSET Ids /\ n \in S /\ n \in Ids /\ \A i \in Ids : rs[i] \in Row
    BY OfKeyIs, LiveAre DEF Rows
  <2> QED BY <2>1, RowIs
<1>2. CASE eligible \cup later = {}
  <2>1. rs2 = rs
    <3> HIDE DEF eligible, later
    <3> QED BY <1>2 DEF Invalidate, eligible, later
  <2>2. \A i \in others : rs[i].until <= at
    BY <1>b, <1>1, <1>2
  <2>3. \A i \in others : rs2[i].until <= rs[i].until
    BY <1>1, <2>1
  <2>4. Within(rs, rs2, S)
    BY <2>1 DEF Within, Kin
  <2> HIDE DEF S, others
  <2> QED BY <1>a, <2>1, <2>2, <2>3, <2>4 DEF others
<1>3. CASE eligible \cup later # {}
  <2>1. PICK p \in OneOf(LatestOf(rs, eligible)), s \in OneOf(EarliestOf(rs, later)) :
          rs2 = Between(rs, n, p, s)
    BY <1>3 DEF Invalidate
  <2>2. /\ p \in eligible \cup {Null} /\ s \in later \cup {Null}
        /\ s # Null => \A j \in later : Start(rs[s]) <= Start(rs[j])
        /\ s = Null => later = {}
    <3>1. later \in SUBSET Ids /\ eligible \in SUBSET Ids
      BY <1>b, <1>1
    <3>2. later # {} => EarliestOf(rs, later) # {}
      BY <3>1, EarliestIs
    <3> HIDE DEF later, eligible
    <3>3. p \in eligible \cup {Null}
      BY <2>1 DEF OneOf, LatestOf
    <3>4. s = Null => later = {}
      <4>1. \A x \in EarliestOf(rs, later) : x # Null
        BY <3>1 DEF EarliestOf
      <4> QED BY <2>1, <3>2, <4>1 DEF OneOf
    <3>5. s # Null => s \in later /\ \A j \in later : Start(rs[s]) <= Start(rs[j])
      BY <2>1 DEF OneOf, EarliestOf
    <3> QED BY <3>3, <3>4, <3>5
  <2> DEFINE o == Opened(rs, n, p, s)
  <2>3. /\ p \in S \cup {Null} /\ s \in S \cup {Null} /\ s # n /\ s \notin eligible
        /\ eligible \subseteq others
    BY <1>b, <1>1, <2>2
  <2>4. /\ o \in Row /\ Kin(rs[n], o) /\ Links(o) \subseteq S
        /\ \A i \in later : o.until <= Start(rs[i])
    <3>1. CASE s = Null \/ Start(rs[s]) >= rs[n].until
      <4>1. o = [rs[n] EXCEPT !.sup = p, !.supBy = Null]
        BY <3>1 DEF Opened
      <4>2. o \in Row /\ Kin(rs[n], o) /\ Links(o) \subseteq S /\ o.until = rs[n].until
        <5>1. p \in Link /\ rs[n] \in Row
          BY <1>1, <2>3 DEF Link
        <5> HIDE DEF o, S
        <5>2. o \in Row
          BY <4>1, <5>1 DEF Row, Link
        <5>3. Kin(rs[n], o) /\ o.until = rs[n].until /\ o.sup = p /\ o.supBy = Null
          BY <4>1, <5>1 DEF Row, Kin
        <5> QED BY <2>3, <5>2, <5>3 DEF Links
      <4>3. ASSUME NEW i \in later PROVE rs[n].until <= Start(rs[i])
        <5>1. s # Null /\ Start(rs[s]) >= rs[n].until /\ Start(rs[s]) <= Start(rs[i])
          BY <2>2, <3>1
        <5>2. s \in S /\ i \in S
          BY <1>b, <2>3, <5>1
        <5> HIDE DEF S
        <5> QED BY <1>1, <5>1, <5>2
      <4> QED BY <4>2, <4>3
    <3>2. CASE ~(s = Null \/ Start(rs[s]) >= rs[n].until)
      <4> DEFINE st == IF rs[n].status # "pinned" /\ Start(rs[s]) <= now THEN "resolved"
                       ELSE rs[n].status
      <4>1. rs[n] \in Row /\ st \in {"dynamic", "resolved", "pinned"}
        BY <1>1, RowIs
      <4>2. o = [rs[n] EXCEPT !.sup = p, !.supBy = s, !.until = Start(rs[s]), !.status = st]
        BY <3>2, <4>1 DEF Row, Opened
      <4>3. s \in S /\ Start(rs[s]) \in Instants
        BY <1>1, <2>3, <3>2
      <4>4. o \in Row /\ Kin(rs[n], o) /\ Links(o) \subseteq S /\ o.until = Start(rs[s])
        <5> HIDE DEF o, st, S
        <5> QED BY <1>1, <2>3, <4>1, <4>2, <4>3 DEF Row, Kin, Links
      <4> QED BY <2>2, <3>2, <4>4
    <3> QED BY <3>1, <3>2
  <2>5. ASSUME NEW i \in eligible
        PROVE  /\ Closed(rs, n, i) \in Row /\ Kin(rs[i], Closed(rs, n, i)) /\ Closed(rs, n, i).until = at
               /\ Links(Closed(rs, n, i)) \subseteq Links(rs[i]) \cup S
    <3> DEFINE st == IF rs[i].status # "pinned" /\ at <= now THEN "resolved" ELSE rs[i].status
               c == Closed(rs, n, i)
    <3>1. i \in Ids /\ i \in S /\ rs[i] \in Row /\ st \in {"dynamic", "resolved", "pinned"}
      BY <1>b, <1>1, <2>5, RowIs
    <3>2. c = [rs[i] EXCEPT !.until = at, !.supBy = n, !.status = st]
      BY <3>1 DEF Row, Closed
    <3> HIDE DEF c, st, S, at
    <3>3. c \in Row /\ Kin(rs[i], c) /\ c.until = at /\ Links(c) \subseteq Links(rs[i]) \cup S
      BY <1>1, <3>1, <3>2 DEF Row, Kin, Links
    <3> QED BY <3>3 DEF c
  <2>6. ASSUME NEW i \in S
        PROVE  LET c == [rs[i] EXCEPT !.sup = n]
               IN  c \in Row /\ Kin(rs[i], c) /\ c.until = rs[i].until /\ Links(c) \subseteq Links(rs[i]) \cup S
    <3> HIDE DEF S
    <3>1. i \in Ids
      BY <1>1
    <3> QED BY <1>1, <3>1 DEF Row, Kin, Links
  <2>7. /\ rs2[n] = o
        /\ \A i \in eligible : rs2[i] = Closed(rs, n, i)
        /\ \A i \in Ids \ (eligible \cup {n}) : rs2[i] = rs[i] \/ (i = s /\ rs2[i] = [rs[i] EXCEPT !.sup = n])
        /\ DOMAIN rs2 = Ids /\ rs2 = [i \in Ids |-> rs2[i]]
    BY <1>1, <2>1, <2>3 DEF Between
  <2> HIDE DEF o, eligible, later, others
  <2>8. ASSUME NEW i \in Ids
        PROVE  /\ rs2[i] \in Row /\ Kin(rs[i], rs2[i])
               /\ i \notin S => rs2[i] = rs[i]
               /\ i \in S => Links(rs2[i]) \subseteq Links(rs[i]) \cup S
    <3>1. CASE i = n
      BY <1>1, <2>4, <2>7, <3>1
    <3>2. CASE i \in eligible
      BY <2>3, <2>5, <2>7, <3>2 DEF others
    <3>3. CASE i \notin eligible \cup {n}
      <4>1. CASE rs2[i] = rs[i]
        BY <1>1, <4>1 DEF Kin
      <4>2. CASE i = s /\ rs2[i] = [rs[i] EXCEPT !.sup = n]
        <5>1. i \in S
          BY <2>3, <4>2
        <5> QED BY <2>6, <4>2, <5>1
      <4> QED BY <2>7, <3>3, <4>1, <4>2
    <3> QED BY <3>1, <3>2, <3>3
  <2>9. Within(rs, rs2, S)
    <3>1. rs2 \in Rows
      BY <2>7, <2>8 DEF Rows
    <3> QED BY <2>8, <3>1 DEF Within
  <2>10. ASSUME NEW i \in others
         PROVE  /\ rs2[i].until <= rs[i].until
                /\ rs2[i].until <= at \/ rs2[n].until <= Start(rs[i])
    <3>1. i \in S /\ i \in Ids /\ i # n
      BY <1>1 DEF others
    <3>2. CASE i \in eligible
      <4>1. rs2[i].until = at /\ at <= rs[i].until /\ at \in Nat
        BY <1>b, <1>1, <2>5, <2>7, <3>1, <3>2
      <4> QED BY <4>1
    <3>3. CASE i \notin eligible
      <4>1. rs2[i].until = rs[i].until
        BY <2>6, <2>7, <3>1, <3>3
      <4>2. CASE i \in later
        <5>1. rs[i].until \in Nat /\ rs2[n].until <= Start(rs[i])
          BY <1>1, <2>4, <2>7, <3>1, <4>2
        <5> QED BY <4>1, <5>1
      <4>3. CASE i \notin later
        <5>1. rs[i].until \in Nat /\ Start(rs[i]) \in Nat /\ at \in Nat
          BY <1>1, <3>1
        <5>2. Start(rs[i]) <= at /\ ~(rs[i].until >= at)
          BY <1>b, <3>3, <4>3, <5>1
        <5> HIDE DEF at
        <5> QED BY <4>1, <5>1, <5>2
      <4> QED BY <4>2, <4>3
    <3> QED BY <3>2, <3>3
  <2> QED BY <1>a, <1>1, <2>8, <2>9, <2>10 DEF others
<1> QED BY <1>2, <1>3

\* If all but the new fact were in order, all are.
LEMMA InvalidateKeeps ==
  ASSUME NEW rs \in Rows, NEW n \in Live(rs), NEW k \in Keys, rs[n].key = k,
         NEW rs2 \in Invalidate(rs, n)
  PROVE  /\ Within(rs, rs2, OfKey(rs, k)) /\ rs2 \in Rows
         /\ Tied(rs, k) => Tied(rs2, k)
         /\ Bound(rs, k) => Bound(rs2, k)
         /\ (\A i, j \in OfKey(rs, k) \ {n} : i # j => ~Overlap(rs[i], rs[j])) => Apart(rs2, k)
         /\ \A l \in Keys \ {k} : Keeps(rs, rs2, l)
         /\ Paired(rs) => Paired(rs2)
<1> DEFINE S == OfKey(rs, k)
<1>1. /\ Within(rs, rs2, S) /\ \A i \in S : Links(rs2[i]) \subseteq Links(rs[i]) \cup S
      /\ \A i \in S \ {n} : rs2[i].until <= rs[i].until
      /\ \A i \in S \ {n} : rs2[i].until <= Start(rs[n]) \/ rs2[n].until <= Start(rs[i])
  BY InvalidateIs
<1>2. /\ rs2 \in Rows /\ OfKey(rs2, k) = S /\ Kept(rs2) = Kept(rs)
      /\ \A i \in Ids : Start(rs2[i]) = Start(rs[i]) /\ rs2[i].key = rs[i].key
  BY <1>1, KinKeeps DEF Within, Kin
<1>3. S \subseteq Ids /\ S \subseteq Kept(rs) /\ n \in S
  BY OfKeyIs, LiveAre
<1>4. ASSUME Tied(rs, k) PROVE Tied(rs2, k)
  <2>1. PICK G \in SUBSET Kept(rs) :
          S \subseteq G /\ \A i \in G : rs[i].key = k /\ Links(rs[i]) \subseteq G
    BY <1>4 DEF Tied
  <2>2. \A i \in G : i \in Ids /\ rs2[i].key = k
    BY <1>2, <2>1, LiveAre
  <2>3. ASSUME NEW i \in G PROVE Links(rs2[i]) \subseteq G
    <3>1. CASE i \in S
      BY <1>1, <2>1, <3>1
    <3>2. CASE i \notin S
      BY <1>1, <2>1, <2>2, <3>2 DEF Within
    <3> QED BY <3>1, <3>2
  <2> QED BY <1>2, <2>1, <2>2, <2>3 DEF Tied
<1>5. Bound(rs, k) => Bound(rs2, k)
  BY <1>1, <1>2 DEF Bound
<1>6. ASSUME \A i, j \in S \ {n} : i # j => ~Overlap(rs[i], rs[j]) PROVE Apart(rs2, k)
  <2>1. \A i \in S : /\ Start(rs[i]) \in Nat /\ rs[i].until \in Nat /\ rs2[i].until \in Nat
                     /\ Start(rs2[i]) = Start(rs[i])
    BY <1>2, <1>3, RowIs DEF Rows
  <2>2. ASSUME NEW i \in S, NEW j \in S, i # j PROVE ~Overlap(rs2[i], rs2[j])
    <3>1. CASE i # n /\ j # n
      <4>1. ~Overlap(rs[i], rs[j]) /\ rs2[i].until <= rs[i].until /\ rs2[j].until <= rs[j].until
        BY <1>1, <1>6, <2>2, <3>1
      <4> HIDE DEF S
      <4> QED BY <2>1, <4>1 DEF Overlap
    <3>2. CASE i = n \/ j = n
      <4> HIDE DEF S
      <4> QED BY <1>1, <1>3, <2>1, <2>2, <3>2 DEF Overlap
    <3> QED BY <3>1, <3>2
  <2> QED BY <1>2, <2>2 DEF Apart
<1> QED BY <1>1, <1>4, <1>5, <1>6, WithinKeeps

-----------------------------------------------------------------------------
(* Detach *)

LEMMA PredsAre ==
  ASSUME NEW rs, NEW m, NEW mem, NEW p \in Preds(rs, m, mem)
  PROVE  /\ (p = mem.sup /\ p \in Live(rs)) \/ p = Null \/ (p \in Live(rs) /\ rs[p].supBy = m)
         /\ mem.sup \in Live(rs) => p = mem.sup
BY DEF Preds, OneOf, LatestOf

LEMMA SuccsAre ==
  ASSUME NEW rs, NEW m, NEW mem, NEW s \in Succs(rs, m, mem)
  PROVE  /\ (s = mem.supBy /\ s \in Live(rs)) \/ s = Null \/ (s \in Live(rs) /\ rs[s].sup = m)
         /\ mem.supBy \in Live(rs) => s = mem.supBy
BY DEF Succs, OneOf, EarliestOf

\* Only the neighbours of a row that is detached are relinked.
LEMMA JoinedIs ==
  ASSUME NEW rs \in Rows, NEW mem \in Row, NEW p \in Link, NEW s \in Link,
         NEW rs2, rs2 = Joined(rs, mem, p, s)
  PROVE  /\ Within(rs, rs2, {p, s})
         /\ p # Null => rs2[p].supBy = s
         /\ s # Null => rs2[s].sup = p
         /\ \A i \in Ids : i # p => rs2[i].supBy = rs[i].supBy /\ rs2[i].until = rs[i].until
         /\ \A i \in Ids : i # s => rs2[i].sup = rs[i].sup
<1> DEFINE b == Bridged(rs, mem, p, s)
           r(i) == IF i = p THEN b ELSE rs[i]
<1>1. \A i \in Ids : rs[i] \in Row
  BY DEF Rows
<1>2. ASSUME p # Null
      PROVE  b \in Row /\ Kin(rs[p], b) /\ b.supBy = s /\ b.sup = rs[p].sup
  <2> DEFINE end == IF rs[p].until # Start(mem) THEN rs[p].until
                    ELSE IF s = Null THEN Never ELSE Start(rs[s])
             st == IF rs[p].status = "resolved" /\ rs[p].until = Never THEN rs[p].status
                   ELSE StatusAt(rs[p], end)
  <2>1. p \in Ids /\ rs[p] \in Row
    BY <1>1, <1>2 DEF Link
  <2>2. end \in Instants \cup {Never}
    <3>1. s # Null => Start(rs[s]) \in Instants
      BY <1>1, RowIs DEF Link
    <3>2. rs[p].until \in Instants \cup {Never}
      BY <2>1, RowIs
    <3> QED BY <3>1, <3>2
  <2>3. st \in {"dynamic", "resolved", "pinned"}
    BY <2>1, StatusIs, RowIs
  <2>4. b = [rs[p] EXCEPT !.until = end, !.supBy = s, !.status = st]
    BY <2>1 DEF Bridged, Row
  <2> HIDE DEF b, end, st
  <2> QED BY <2>1, <2>2, <2>3, <2>4 DEF Row, Kin, Link
<1> HIDE DEF b
<1>3. ASSUME NEW i \in Ids
      PROVE  /\ r(i) \in Row /\ Kin(rs[i], r(i)) /\ r(i).sup = rs[i].sup
             /\ i = p => r(i).supBy = s
             /\ i # p => r(i) = rs[i]
  BY <1>1, <1>2, <1>3 DEF Kin
<1>4. ASSUME NEW i \in Ids
      PROVE  /\ rs2[i] = IF i = s THEN [r(i) EXCEPT !.sup = p] ELSE r(i)
             /\ rs2[i] \in Row /\ Kin(rs[i], rs2[i])
             /\ i = s => rs2[i].sup = p
             /\ i # s => rs2[i].sup = rs[i].sup
             /\ rs2[i].supBy = r(i).supBy /\ rs2[i].until = r(i).until
  <2>1. rs2[i] = IF i = s THEN [r(i) EXCEPT !.sup = p] ELSE r(i)
    BY DEF Joined, b
  <2>2. r(i) \in Row /\ Kin(rs[i], r(i)) /\ r(i).sup = rs[i].sup
    BY <1>3
  <2> HIDE DEF r
  <2> QED BY <2>1, <2>2 DEF Row, Kin, Link
<1>5. rs2 = [i \in Ids |-> rs2[i]]
  BY DEF Joined
<1>6. rs2 \in Rows
  BY <1>4, <1>5 DEF Rows
<1> HIDE DEF r
<1>7. \A i \in Ids : i \notin {p, s} => rs2[i] = rs[i]
  BY <1>3, <1>4
<1>8. Within(rs, rs2, {p, s})
  BY <1>4, <1>6, <1>7 DEF Within
<1>9. \A i \in Ids : i # p => rs2[i].supBy = rs[i].supBy /\ rs2[i].until = rs[i].until
  BY <1>3, <1>4
<1>10. p # Null => rs2[p].supBy = s
  BY <1>3, <1>4 DEF Link
<1>11. s # Null => rs2[s].sup = p
  BY <1>4 DEF Link
<1> QED BY <1>4, <1>8, <1>9, <1>10, <1>11

LEMMA DetachIs ==
  ASSUME NEW rs \in Rows, NEW m, NEW mem \in Row, NEW rs2 \in Detach(rs, m, mem)
  PROVE  \E p \in Preds(rs, m, mem), s \in Succs(rs, m, mem) :
           p \in Link /\ s \in Link /\ rs2 = Joined(rs, mem, p, s)
<1>1. PICK p \in Preds(rs, m, mem), s \in Succs(rs, m, mem) : rs2 = Joined(rs, mem, p, s)
  BY DEF Detach
<1>2. p \in Link /\ s \in Link
  BY PredsAre, SuccsAre, LiveAre DEF Link
<1> QED BY <1>1, <1>2

\* The neighbours of a row with a key have the key.
LEMMA KeyedNeighbours ==
  ASSUME NEW rs \in Rows, Chains(rs), NEW m \in Live(rs), rs[m].key \in Keys,
         NEW rs2 \in Detach(rs, m, rs[m])
  PROVE  Within(rs, rs2, OfKey(rs, rs[m].key)) /\ rs2 \in Rows
<1> DEFINE k == rs[m].key
<1>1. m \in Ids /\ rs[m] \in Row /\ m \in OfKey(rs, k)
  BY LiveAre, OfKeyIs DEF Rows
<1>2. ASSUME NEW x \in Live(rs), x \in Links(rs[m]) \/ m \in Links(rs[x])
      PROVE  x \in OfKey(rs, k)
  <2>1. CASE rs[x].key \in Keys
    <3>1. PICK G \in SUBSET Kept(rs) :
            OfKey(rs, k) \subseteq G /\ \A i \in G : rs[i].key = k /\ Links(rs[i]) \subseteq G
      BY DEF Chains, Tied
    <3>2. PICK H \in SUBSET Kept(rs) :
            /\ OfKey(rs, rs[x].key) \subseteq H
            /\ \A i \in H : rs[i].key = rs[x].key /\ Links(rs[i]) \subseteq H
      BY <2>1 DEF Chains, Tied
    <3>3. rs[x].key = k
      BY <1>1, <1>2, <2>1, <3>1, <3>2, OfKeyIs
    <3> QED BY <1>2, <3>3, OfKeyIs
  <2>2. CASE rs[x].key = NoKey
    <3>1. Meets(rs, x)
      BY <2>2, LiveAre DEF Chains, Paired
    <3>2. m \notin Links(rs[x])
      BY <3>1 DEF Meets, Links
    <3>3. PICK G \in SUBSET Kept(rs) :
            OfKey(rs, k) \subseteq G /\ \A i \in G : rs[i].key = k /\ Links(rs[i]) \subseteq G
      BY DEF Chains, Tied
    <3> QED BY <1>1, <1>2, <2>2, <3>2, <3>3
  <2> QED BY <2>1, <2>2, LiveAre, RowIs DEF Rows
<1>3. PICK p \in Preds(rs, m, rs[m]), s \in Succs(rs, m, rs[m]) :
        p \in Link /\ s \in Link /\ rs2 = Joined(rs, rs[m], p, s)
  BY <1>1, DetachIs
<1>4. p # Null => p \in OfKey(rs, k)
  <2>1. p # Null => p \in Live(rs) /\ (p \in Links(rs[m]) \/ m \in Links(rs[p]))
    BY <1>1, <1>3, PredsAre DEF Links
  <2> QED BY <1>2, <2>1
<1>5. s # Null => s \in OfKey(rs, k)
  <2>1. s # Null => s \in Live(rs) /\ (s \in Links(rs[m]) \/ m \in Links(rs[s]))
    BY <1>1, <1>3, SuccsAre DEF Links
  <2> QED BY <1>2, <2>1
<1>6. Within(rs, rs2, {p, s})
  BY <1>1, <1>3, JoinedIs
<1> QED BY <1>4, <1>5, <1>6 DEF Within

\* A row without a key is replaced, at both ends of its links, by its neighbours.
LEMMA KeylessNeighbours ==
  ASSUME NEW rs \in Rows, Chains(rs), NEW m \in Live(rs), rs[m].key = NoKey,
         NEW base \in Rows, \A i \in Ids \ {m} : base[i] = rs[i],
         m \in Live(base) => base[m] = rs[m],
         NEW rs2 \in Detach(base, m, rs[m])
  PROVE  /\ rs2 \in Rows /\ \A i \in Ids : Kin(base[i], rs2[i])
         /\ \A i \in Ids \ {m} : rs[i].key # NoKey => rs2[i] = rs[i]
         /\ \A i \in Kept(rs) \ {m} : rs[i].key = NoKey =>
              IF i \in Live(rs) THEN Meets(rs2, i) /\ m \notin Links(rs2[i])
              ELSE Links(rs2[i]) = {}
<1>1. m \in Ids /\ rs[m] \in Row /\ Meets(rs, m)
  BY LiveAre DEF Rows, Chains, Paired
<1>2. /\ \A i \in Ids \ {m} : i \in Live(base) <=> i \in Live(rs)
      /\ Live(base) \subseteq Live(rs)
  BY LiveAre DEF Live
<1>3. ASSUME NEW x \in Live(base), m \in Links(base[x])
      PROVE  /\ rs[x].key = NoKey /\ base[x] = rs[x]
             /\ base[x].supBy = m => rs[m].sup = x
             /\ base[x].sup = m => rs[m].supBy = x
  <2>1. x \in Live(rs) /\ base[x] = rs[x] /\ x \in Ids
    BY <1>2, LiveAre
  <2>2. rs[x].key = NoKey
    <3>1. SUFFICES ASSUME rs[x].key \in Keys PROVE FALSE
      BY <2>1, RowIs DEF Rows
    <3>2. PICK G \in SUBSET Kept(rs) :
            /\ OfKey(rs, rs[x].key) \subseteq G
            /\ \A i \in G : rs[i].key = rs[x].key /\ Links(rs[i]) \subseteq G
      BY <3>1 DEF Chains, Tied
    <3> QED BY <1>3, <2>1, <3>1, <3>2, OfKeyIs
  <2>3. Meets(rs, x)
    BY <2>1, <2>2, LiveAre DEF Chains, Paired
  <2> QED BY <1>1, <2>1, <2>2, <2>3 DEF Meets
<1>4. PICK p \in Preds(base, m, rs[m]), s \in Succs(base, m, rs[m]) :
        p \in Link /\ s \in Link /\ rs2 = Joined(base, rs[m], p, s)
  BY <1>1, DetachIs
<1>5. p = rs[m].sup
  <2>1. rs[m].sup # Null => rs[m].sup \in Live(base)
    BY <1>1, <1>2, LiveAre DEF Meets
  <2>2. p # Null /\ p # rs[m].sup => FALSE
    <3>1. SUFFICES ASSUME p \in Live(base), base[p].supBy = m, p # rs[m].sup PROVE FALSE
      BY <1>4, PredsAre
    <3>2. m \in Links(base[p])
      BY <1>1, <3>1 DEF Links
    <3> QED BY <1>3, <3>1, <3>2
  <2> QED BY <1>4, <2>1, <2>2, PredsAre
<1>6. s = rs[m].supBy
  <2>1. rs[m].supBy # Null => rs[m].supBy \in Live(base)
    BY <1>1, <1>2, LiveAre DEF Meets
  <2>2. s # Null /\ s # rs[m].supBy => FALSE
    <3>1. SUFFICES ASSUME s \in Live(base), base[s].sup = m, s # rs[m].supBy PROVE FALSE
      BY <1>4, SuccsAre
    <3>2. m \in Links(base[s])
      BY <1>1, <3>1 DEF Links
    <3> QED BY <1>3, <3>1, <3>2
  <2> QED BY <1>4, <2>1, <2>2, SuccsAre
<1>7. /\ Within(base, rs2, {p, s})
      /\ p # Null => rs2[p].supBy = s
      /\ s # Null => rs2[s].sup = p
      /\ \A i \in Ids : i # p => rs2[i].supBy = base[i].supBy
      /\ \A i \in Ids : i # s => rs2[i].sup = base[i].sup
  BY <1>1, <1>4, JoinedIs
<1>8. /\ p # Null => p \in Live(rs) /\ rs[p].key = NoKey /\ rs[p].supBy = m /\ p < m
      /\ s # Null => s \in Live(rs) /\ rs[s].key = NoKey /\ rs[s].sup = m /\ m < s
  BY <1>1, <1>5, <1>6 DEF Meets
<1>9. rs2 \in Rows /\ \A i \in Ids : Kin(base[i], rs2[i])
  BY <1>7 DEF Within
<1>10. \A i \in Ids \ {m} : rs[i].key # NoKey => rs2[i] = rs[i]
  BY <1>7, <1>8 DEF Within
<1>11. /\ \A i \in Ids \ {m} : i \in Live(rs2) <=> i \in Live(rs)
       /\ \A i \in Ids \ {m} : rs2[i].key = rs[i].key
  BY <1>2, <1>9, KinKeeps DEF Kin
<1>12. ASSUME NEW i \in Kept(rs) \ {m}, rs[i].key = NoKey
       PROVE  IF i \in Live(rs) THEN Meets(rs2, i) /\ m \notin Links(rs2[i])
              ELSE Links(rs2[i]) = {}
  <2>1. i \in Ids
    BY LiveAre
  <2>2. CASE i \notin Live(rs)
    <3>1. Links(rs[i]) = {}
      BY <1>12, <2>2 DEF Chains, Paired
    <3>2. rs2[i] = rs[i]
      BY <1>7, <1>8, <2>1, <2>2 DEF Within
    <3> QED BY <2>2, <3>1, <3>2
  <2>3. CASE i \in Live(rs)
    <3>1. Meets(rs, i)
      BY <1>12, <2>3 DEF Chains, Paired
    <3>2. /\ rs2[i].sup # Null =>
               /\ rs2[i].sup \in Live(rs) \ {m} /\ rs[rs2[i].sup].key = NoKey
               /\ rs2[rs2[i].sup].supBy = i /\ rs2[i].sup < i
      <4>1. CASE i = s
        BY <1>1, <1>5, <1>6, <1>7, <1>8, <1>12, <4>1, LiveAre
      <4>2. CASE i # s
        <5>1. rs2[i].sup = rs[i].sup
          BY <1>7, <2>1, <4>2
        <5>2. rs[i].sup # m
          BY <1>1, <1>6, <1>12, <3>1, <4>2 DEF Meets
        <5>3. rs[i].sup # Null => rs[i].sup # p
          BY <1>8, <1>12, <3>1 DEF Meets
        <5> QED BY <1>7, <3>1, <5>1, <5>2, <5>3, LiveAre DEF Meets
      <4> QED BY <4>1, <4>2
    <3>3. /\ rs2[i].supBy # Null =>
               /\ rs2[i].supBy \in Live(rs) \ {m} /\ rs[rs2[i].supBy].key = NoKey
               /\ rs2[rs2[i].supBy].sup = i /\ i < rs2[i].supBy
      <4>1. CASE i = p
        BY <1>1, <1>5, <1>6, <1>7, <1>8, <1>12, <4>1, LiveAre
      <4>2. CASE i # p
        <5>1. rs2[i].supBy = rs[i].supBy
          BY <1>7, <2>1, <4>2
        <5>2. rs[i].supBy # m
          BY <1>1, <1>5, <1>12, <3>1, <4>2 DEF Meets
        <5>3. rs[i].supBy # Null => rs[i].supBy # s
          BY <1>8, <1>12, <3>1 DEF Meets
        <5> QED BY <1>7, <3>1, <5>1, <5>2, <5>3, LiveAre DEF Meets
      <4> QED BY <4>1, <4>2
    <3>4. m # Null
      BY <1>1
    <3> QED BY <1>11, <2>3, <3>2, <3>3, <3>4, LiveAre DEF Meets, Links
  <2> QED BY <2>2, <2>3
<1> QED BY <1>9, <1>10, <1>12

-----------------------------------------------------------------------------
(* What a step keeps *)

\* A row that is kept rests on nothing that was purged, whatever the table.
Sound(rs) == \A i \in Kept(rs) : \A j \in rs[i].evidence : rs[j].place # "purged"

\* Identifiers are given in order.
Firsts(rs) ==
  \A i, j \in Ids : i < j /\ rs[j].place # "none" => rs[i].place # "none"

Steady(rs, rs2) == rs2 \in Rows /\ Sound(rs2) /\ Firsts(rs2)

Chained(rs, rs2) == Chains(rs2) /\ \A k \in Keys : Bound(rs, k) => Bound(rs2, k)

\* Rows are moved between the places of kept ones and change otherwise, but
\* rest on the same evidence.
LEMMA SteadyIs ==
  ASSUME NEW rs \in Rows, Sound(rs), Firsts(rs), NEW rs2 \in Rows,
         \A i \in Ids : /\ rs2[i].evidence = rs[i].evidence
                        /\ \/ rs2[i].place = rs[i].place
                           \/ i \in Kept(rs) /\ i \in Kept(rs2)
  PROVE  Steady(rs, rs2)
<1>1. \A i \in Ids : i \in Kept(rs) <=> rs[i].place \in {"live", "trash"}
  BY DEF Kept, Live, Trash
<1>2. \A i \in Ids : i \in Kept(rs2) <=> rs2[i].place \in {"live", "trash"}
  BY DEF Kept, Live, Trash
<1>3. /\ Kept(rs2) = Kept(rs)
      /\ \A i \in Ids : /\ rs2[i].place = "purged" <=> rs[i].place = "purged"
                        /\ rs2[i].place = "none" <=> rs[i].place = "none"
  BY <1>1, <1>2, LiveAre
<1>4. \A i \in Ids : rs[i].evidence \subseteq Ids
  BY RowIs DEF Rows
<1>5. Sound(rs2)
  BY <1>3, <1>4, LiveAre DEF Sound
<1>6. Firsts(rs2)
  BY <1>3 DEF Firsts
<1> QED BY <1>5, <1>6 DEF Steady

LEMMA KinSteady ==
  ASSUME NEW rs \in Rows, Sound(rs), Firsts(rs), NEW rs2 \in Rows,
         \A i \in Ids : Kin(rs[i], rs2[i])
  PROVE  Steady(rs, rs2)
BY SteadyIs DEF Kin

\* Rows go and come, and nothing is relinked: those that go have a key or no links,
\* those that come have no key; facts with a key hold when they held.
LEMMA LooseKeeps ==
  ASSUME NEW rs \in Rows, Chains(rs), NEW rs2 \in Rows, Kept(rs2) = Kept(rs),
         \A i \in Ids : rs2[i].key = rs[i].key /\ rs2[i].sup = rs[i].sup /\ rs2[i].supBy = rs[i].supBy,
         \A i \in Ids : rs[i].key # NoKey =>
           /\ Start(rs2[i]) = Start(rs[i]) /\ rs2[i].until = rs[i].until
           /\ i \in Live(rs2) => i \in Live(rs),
         \A i \in Live(rs) \ Live(rs2) : rs[i].key = NoKey => Links(rs[i]) = {}
  PROVE  Chains(rs2)
<1>1. Paired(rs2)
  <2> SUFFICES ASSUME NEW i \in Kept(rs2), rs2[i].key = NoKey
               PROVE  IF i \in Live(rs2) THEN Meets(rs2, i) ELSE Links(rs2[i]) = {}
    BY DEF Paired
  <2>1. i \in Ids /\ i \in Kept(rs) /\ rs[i].key = NoKey /\ Links(rs2[i]) = Links(rs[i])
    BY LiveAre DEF Links
  <2>2. CASE Links(rs[i]) = {}
    <3>1. rs2[i].sup = Null /\ rs2[i].supBy = Null
      BY <2>1, <2>2 DEF Links
    <3> QED BY <2>1, <2>2, <3>1 DEF Meets
  <2>3. CASE Links(rs[i]) # {}
    <3>1. i \in Live(rs) /\ Meets(rs, i)
      BY <2>1, <2>3 DEF Chains, Paired
    <3>2. i \in Live(rs2)
      BY <2>1, <2>3, <3>1
    <3>3. ASSUME NEW j \in Live(rs), rs[j].key = NoKey, rs[j].sup = i \/ rs[j].supBy = i
          PROVE  j \in Live(rs2) /\ j \in Ids
      <4>1. i \in Links(rs[j])
        BY <2>1, <3>3 DEF Links
      <4> QED BY <3>3, <4>1, LiveAre
    <3> QED BY <2>1, <3>1, <3>2, <3>3, LiveAre DEF Meets
  <2> QED BY <2>2, <2>3
<1>2. ASSUME NEW k \in Keys PROVE Tied(rs2, k) /\ Apart(rs2, k)
  <2>1. /\ OfKey(rs2, k) \subseteq OfKey(rs, k) /\ OfKey(rs, k) \subseteq Ids
        /\ \A i \in OfKey(rs, k) : rs[i].key # NoKey
    <3>1. \A i \in OfKey(rs2, k) : i \in OfKey(rs, k)
      BY OfKeyIs, LiveAre
    <3> QED BY <3>1, OfKeyIs, LiveAre
  <2>2. PICK G \in SUBSET Kept(rs) :
          OfKey(rs, k) \subseteq G /\ \A i \in G : rs[i].key = k /\ Links(rs[i]) \subseteq G
    BY DEF Chains, Tied
  <2>3. \A i \in G : rs2[i].key = k /\ Links(rs2[i]) \subseteq G
    BY <2>2, LiveAre DEF Links
  <2>4. Tied(rs2, k)
    BY <2>1, <2>2, <2>3 DEF Tied
  <2>5. Apart(rs2, k)
    <3>1. Apart(rs, k)
      BY DEF Chains
    <3> QED BY <2>1, <3>1 DEF Apart, Overlap
  <2> QED BY <2>4, <2>5
<1> QED BY <1>1, <1>2 DEF Chains

\* And when all facts with a key stay where they are, no link of theirs dangles.
LEMMA LooseBound ==
  ASSUME NEW rs \in Rows, NEW rs2 \in Rows, NEW k \in Keys,
         \A i \in Ids : rs2[i].key = rs[i].key /\ rs2[i].sup = rs[i].sup /\ rs2[i].supBy = rs[i].supBy,
         \A i \in Ids : rs[i].key # NoKey => (i \in Live(rs2) <=> i \in Live(rs)),
         Bound(rs, k)
  PROVE  Bound(rs2, k)
<1>1. OfKey(rs2, k) = OfKey(rs, k)
  <2>1. \A i \in Ids : i \in OfKey(rs2, k) <=> i \in OfKey(rs, k)
    BY OfKeyIs
  <2> QED BY <2>1, OfKeyIs, LiveAre
<1> QED BY <1>1, OfKeyIs, LiveAre DEF Bound, Links

\* One key's chain is built anew after changes to rows that have or had the key.
LEMMA RebuiltKeeps ==
  ASSUME NEW rs \in Rows, Chains(rs), NEW k \in Keys, NEW rs1 \in Rows,
         \A l \in (Keys \ {k}) \cup {NoKey} : Untouched(rs, rs1, l),
         NEW rs2, rs2 = Rebuild(rs1, k)
  PROVE  Chained(rs, rs2)
<1>1. /\ rs2 \in Rows /\ Tied(rs2, k) /\ Apart(rs2, k) /\ Bound(rs2, k)
      /\ \A l \in Keys \ {k} : Keeps(rs1, rs2, l)
      /\ Paired(rs1) => Paired(rs2)
  BY RebuildKeeps
<1>2. Paired(rs1) /\ \A l \in Keys \ {k} : Keeps(rs, rs1, l)
  BY UntouchedPairs, UntouchedKeeps DEF Chains
<1> QED BY <1>1, <1>2 DEF Chained, Chains, Keeps

-----------------------------------------------------------------------------
(* New rows *)

LEMMA AddedSteady ==
  ASSUME NEW rs \in Rows, Sound(rs), Firsts(rs), NEW n \in Ids, NEW r \in Row,
         rs[n].place = "none", \A j \in Ids : j < n => rs[j].place # "none",
         r.place = "live", \A j \in r.evidence : rs[j].place # "purged",
         NEW rs2 \in Rows, rs2[n] = r, \A i \in Ids \ {n} : rs2[i] = rs[i]
  PROVE  Steady(rs, rs2) /\ n \in Live(rs2)
<1>1. rs2 \in Rows /\ rs2[n] = r /\ \A i \in Ids \ {n} : rs2[i] = rs[i]
  OBVIOUS
<1>2. /\ n \in Live(rs2) /\ n \notin Kept(rs)
      /\ \A i \in Ids \ {n} : i \in Kept(rs2) <=> i \in Kept(rs)
  BY <1>1 DEF Kept, Live, Trash
<1>3. Sound(rs2)
  <2> SUFFICES ASSUME NEW i \in Kept(rs2), NEW j \in rs2[i].evidence
               PROVE  rs2[j].place # "purged"
    BY DEF Sound
  <2>1. i \in Ids /\ rs2[i] \in Row /\ j \in Ids
    <3>1. i \in Ids
      BY LiveAre
    <3> QED BY <1>1, <3>1, RowIs DEF Rows
  <2>2. CASE i = n
    BY <1>1, <2>1, <2>2
  <2>3. CASE i # n
    <3>1. i \in Kept(rs) /\ j \in rs[i].evidence
      BY <1>1, <1>2, <2>1, <2>3
    <3>2. rs[j].place # "purged"
      BY <3>1 DEF Sound
    <3> QED BY <1>1, <2>1, <3>2
  <2> QED BY <2>2, <2>3
<1>4. Firsts(rs2)
  <2> SUFFICES ASSUME NEW i \in Ids, NEW j \in Ids, i < j, rs2[j].place # "none"
               PROVE  rs2[i].place # "none"
    BY DEF Firsts
  <2> QED BY <1>1 DEF Firsts
<1> QED BY <1>1, <1>2, <1>3, <1>4 DEF Steady

\* A new row without links takes its place in the chain of its key, if it has one.
LEMMA AddedKeeps ==
  ASSUME NEW rs \in Rows, Chains(rs), NEW n \in Ids, NEW r \in Row,
         rs[n].place = "none", r.place = "live", r.sup = Null, r.supBy = Null,
         NEW rs1 \in Rows, rs1[n] = r, \A i \in Ids \ {n} : rs1[i] = rs[i],
         NEW rs2 \in Invalidate(rs1, n)
  PROVE  Chained(rs, rs2)
<1> DEFINE k == r.key
<1>1. rs1 \in Rows /\ rs1[n] = r /\ \A i \in Ids \ {n} : rs1[i] = rs[i]
  OBVIOUS
<1>2. /\ n \in Live(rs1) /\ n \notin Kept(rs)
      /\ \A i \in Ids \ {n} : i \in Kept(rs1) <=> i \in Kept(rs)
      /\ \A i \in Ids \ {n} : i \in Live(rs1) <=> i \in Live(rs)
      /\ Links(rs1[n]) = {}
  BY <1>1 DEF Kept, Live, Trash, Links
<1>3. \A l \in (Keys \cup {NoKey}) \ {k} : Untouched(rs, rs1, l)
  BY <1>1, <1>2 DEF Untouched
<1>4. Paired(rs1)
  <2>1. CASE k # NoKey
    BY <1>1, <1>3, <2>1, UntouchedPairs DEF Chains
  <2>2. CASE k = NoKey
    <3> SUFFICES ASSUME NEW i \in Kept(rs1), rs1[i].key = NoKey
                 PROVE  IF i \in Live(rs1) THEN Meets(rs1, i) ELSE Links(rs1[i]) = {}
      BY DEF Paired
    <3>1. CASE i = n
      BY <1>1, <1>2, <3>1 DEF Meets
    <3>2. CASE i # n
      <4>1. i \in Kept(rs) /\ i \in Ids /\ rs1[i] = rs[i]
        BY <1>1, <1>2, <3>2, LiveAre
      <4>2. IF i \in Live(rs) THEN Meets(rs, i) ELSE Links(rs[i]) = {}
        BY <4>1 DEF Chains, Paired
      <4>3. \A x \in Live(rs) : x \in Ids \ {n}
        BY <1>2, LiveAre
      <4> QED BY <1>1, <1>2, <3>2, <4>1, <4>2, <4>3 DEF Meets
    <3> QED BY <3>1, <3>2
  <2> QED BY <2>1, <2>2
<1>5. CASE k = NoKey
  <2>1. rs2 = rs1
    BY <1>1, <1>5, NothingToInvalidate
  <2>2. \A l \in Keys : Keeps(rs, rs1, l)
    BY <1>1, <1>3, <1>5, UntouchedKeeps
  <2> QED BY <1>4, <2>1, <2>2 DEF Chained, Chains, Keeps
<1>6. CASE k # NoKey
  <2>1. k \in Keys
    BY <1>6, RowIs
  <2>2. OfKey(rs1, k) = OfKey(rs, k) \cup {n} /\ n \notin OfKey(rs, k) /\ OfKey(rs, k) \subseteq Ids
    <3>1. \A i \in Ids : i \in OfKey(rs1, k) <=> i \in OfKey(rs, k) \/ i = n
      BY <1>1, <1>2, <2>1, OfKeyIs
    <3>2. OfKey(rs1, k) \subseteq Ids /\ OfKey(rs, k) \subseteq Ids
      BY <2>1, OfKeyIs, LiveAre
    <3>3. n \notin OfKey(rs, k)
      BY <1>2, <2>1, OfKeyIs, LiveAre
    <3> QED BY <3>1, <3>2, <3>3
  <2>3. Tied(rs1, k)
    <3>1. PICK G \in SUBSET Kept(rs) :
            OfKey(rs, k) \subseteq G /\ \A i \in G : rs[i].key = k /\ Links(rs[i]) \subseteq G
      BY <2>1 DEF Chains, Tied
    <3> DEFINE H == G \cup {n}
    <3>2. \A i \in G : i \in Ids \ {n} /\ i \in Kept(rs1) /\ rs1[i] = rs[i]
      BY <1>1, <1>2, <3>1, LiveAre
    <3>3. H \in SUBSET Kept(rs1) /\ OfKey(rs1, k) \subseteq H
      BY <1>2, <2>2, <3>1, <3>2, LiveAre
    <3>4. \A i \in H : rs1[i].key = k /\ Links(rs1[i]) \subseteq H
      BY <1>1, <1>2, <3>1, <3>2
    <3> QED BY <3>3, <3>4 DEF Tied
  <2>4. Bound(rs, k) => Bound(rs1, k)
    BY <1>1, <1>2, <2>2 DEF Bound
  <2>5. \A i, j \in OfKey(rs1, k) \ {n} : i # j => ~Overlap(rs1[i], rs1[j])
    BY <1>1, <2>1, <2>2 DEF Chains, Apart
  <2>6. /\ Tied(rs2, k) /\ Apart(rs2, k) /\ Bound(rs, k) => Bound(rs2, k)
        /\ \A l \in Keys \ {k} : Keeps(rs1, rs2, l)
        /\ Paired(rs2)
    BY <1>1, <1>2, <1>4, <2>1, <2>3, <2>4, <2>5, InvalidateKeeps
  <2>7. \A l \in Keys \ {k} : Keeps(rs, rs1, l)
    BY <1>1, <1>3, UntouchedKeeps
  <2>8. Tied(rs2, k) /\ Apart(rs2, k) /\ (Bound(rs, k) => Bound(rs2, k))
    BY <1>1, <1>2, <1>4, <2>1, <2>3, <2>4, <2>5, InvalidateKeeps
  <2> QED BY <2>6, <2>7, <2>8 DEF Chained, Chains, Keeps
<1> QED BY <1>5, <1>6

\* A new row takes the place of one without a key, which is not in a chain's middle.
LEMMA SupersedeKeeps ==
  ASSUME NEW rs \in Rows, NEW n \in Live(rs), NEW t \in Live(rs), t < n,
         rs[n].key = NoKey, rs[t].key = NoKey, Links(rs[n]) = {}, rs[t].supBy = Null,
         NEW rs2, rs2 = AutoSupersede(rs, n, t)
  PROVE  /\ Within(rs, rs2, {n, t})
         /\ Chains(rs) => Chained(rs, rs2)
<1> DEFINE e == Start(rs[n])
<1>1. /\ n \in Ids /\ t \in Ids /\ n # t /\ rs[n] \in Row /\ rs[t] \in Row
      /\ e \in Instants \cup {Never} /\ rs[n].sup = Null /\ rs[n].supBy = Null
  <2>1. n \in Ids /\ t \in Ids /\ rs[n] \in Row /\ rs[t] \in Row
    BY LiveAre DEF Rows
  <2> QED BY <2>1, RowIs DEF Links
<1>2. rs2 = [rs EXCEPT ![n].sup = t, ![t].supBy = n, ![t].status = "resolved", ![t].until = e]
  BY DEF AutoSupersede
<1> HIDE DEF e
<1>3. /\ rs2[n] = [rs[n] EXCEPT !.sup = t]
      /\ rs2[t] = [rs[t] EXCEPT !.supBy = n, !.status = "resolved", !.until = e]
      /\ \A i \in Ids \ {n, t} : rs2[i] = rs[i]
      /\ rs2 = [i \in Ids |-> rs2[i]]
  BY <1>1, <1>2 DEF Rows
<1>a. \A i \in Ids \ {n, t} : rs2[i] = rs[i]
  BY <1>3
<1>4. /\ rs2[n] \in Row /\ Kin(rs[n], rs2[n]) /\ rs2[n].sup = t /\ rs2[n].supBy = Null
      /\ rs2[t] \in Row /\ Kin(rs[t], rs2[t]) /\ rs2[t].supBy = n /\ rs2[t].sup = rs[t].sup
  <2> DEFINE a == rs[n]  b == rs[t]
  <2>1. /\ a \in Row /\ a.supBy = Null /\ b \in Row /\ t \in Link /\ n \in Link
        /\ rs2[n] = [a EXCEPT !.sup = t]
        /\ rs2[t] = [b EXCEPT !.supBy = n, !.status = "resolved", !.until = e]
    BY <1>1, <1>3 DEF Link
  <2> HIDE DEF a, b
  <2> DEFINE a2 == [a EXCEPT !.sup = t]
             b2 == [b EXCEPT !.supBy = n, !.status = "resolved", !.until = e]
  <2>2. a2 \in Row /\ Kin(a, a2) /\ a2.sup = t /\ a2.supBy = Null
    BY <2>1 DEF Row, Kin, Link
  <2>3. b2 \in Row /\ Kin(b, b2) /\ b2.supBy = n /\ b2.sup = b.sup
    BY <1>1, <2>1 DEF Row, Kin, Link
  <2> HIDE DEF a2, b2
  <2>4. rs2[n] = a2 /\ rs2[t] = b2
    BY <2>1 DEF a2, b2
  <2> QED BY <2>2, <2>3, <2>4 DEF a, b
<1>5. rs2 \in Rows
  <2>1. \A i \in Ids : rs2[i] \in Row
    BY <1>3, <1>4 DEF Rows
  <2> QED BY <1>3, <2>1 DEF Rows
<1>6. Within(rs, rs2, {n, t})
  BY <1>3, <1>4, <1>5 DEF Within, Kin
<1>7. ASSUME Chains(rs) PROVE Chained(rs, rs2)
  <2>1. \A l \in Keys : Untouched(rs, rs2, l)
    <3>1. rs2[n].key = NoKey /\ rs2[t].key = NoKey
      BY <1>4 DEF Kin
    <3> QED BY <1>a, <3>1 DEF Untouched
  <2>2. Kept(rs2) = Kept(rs) /\ Live(rs2) = Live(rs) /\ \A i \in Ids : rs2[i].key = rs[i].key
    BY <1>5, <1>6, KinKeeps DEF Within, Kin
  <2>3. Paired(rs2)
    <3> SUFFICES ASSUME NEW i \in Kept(rs), rs[i].key = NoKey
                 PROVE  IF i \in Live(rs) THEN Meets(rs2, i) ELSE Links(rs2[i]) = {}
      BY <2>2, LiveAre DEF Paired
    <3>1. IF i \in Live(rs) THEN Meets(rs, i) ELSE Links(rs[i]) = {}
      BY <1>7 DEF Chains, Paired
    <3>2. CASE i = n
      BY <1>1, <1>4, <2>2, <3>2 DEF Meets
    <3>3. CASE i = t
      <4>1. rs[t].sup # n
        BY <1>1, <3>1, <3>3 DEF Meets
      <4>2. rs[t].sup # Null => rs2[rs[t].sup].supBy = t
        <5>1. rs[t].sup # Null => rs[t].sup \in Ids \ {n, t} /\ rs[rs[t].sup].supBy = t
          BY <1>1, <3>1, <3>3, <4>1, LiveAre DEF Meets
        <5> QED BY <1>3, <5>1
      <4> QED BY <1>1, <1>4, <2>2, <3>1, <3>3, <4>2, LiveAre DEF Meets
    <3>4. CASE i \notin {n, t}
      <4>1. i \in Ids /\ rs2[i] = rs[i]
        BY <1>3, <3>4, LiveAre
      <4>2. CASE i \notin Live(rs)
        BY <3>1, <4>1, <4>2
      <4>3. CASE i \in Live(rs)
        <5>1. Meets(rs, i)
          BY <3>1, <4>3
        <5>2. rs[i].sup # n /\ rs[i].supBy # n /\ rs[i].sup # t
          <6>1. rs[n].supBy = Null /\ rs[n].sup = Null /\ rs[t].supBy = Null /\ i # Null
            BY <1>1, <4>1
          <6> QED BY <1>1, <4>1, <5>1, <6>1 DEF Meets
        <5>3. /\ rs[i].sup # Null => rs2[rs[i].sup].supBy = i
              /\ rs[i].supBy # Null => rs2[rs[i].supBy].sup = i
          BY <1>3, <1>4, <5>1, <5>2, LiveAre DEF Meets
        <5> QED BY <2>2, <4>1, <4>3, <5>1, <5>3, LiveAre DEF Meets
      <4> QED BY <4>2, <4>3
    <3> QED BY <3>2, <3>3, <3>4
  <2> QED BY <1>5, <1>7, <2>1, <2>3, UntouchedKeeps DEF Chained, Chains, Keeps
<1> QED BY <1>6, <1>7

-----------------------------------------------------------------------------
(* Rows taken out of their chain *)

\* A row without a key that is moved, or deleted, leaves its neighbours paired.
LEMMA KeylessOut ==
  ASSUME NEW rs \in Rows, Chains(rs), NEW m \in Live(rs), rs[m].key = NoKey,
         NEW base \in Rows, \A i \in Ids \ {m} : base[i] = rs[i],
         m \in Live(base) => base[m] = rs[m],
         NEW rs1 \in Detach(base, m, rs[m]),
         NEW moved \in Row, Links(moved) = {},
         NEW rs2 \in Rows, rs2[m] = moved, \A i \in Ids \ {m} : rs2[i] = rs1[i]
  PROVE  Paired(rs2) /\ \A l \in Keys \ {moved.key} : Untouched(rs, rs2, l)
<1>1. /\ rs1 \in Rows /\ \A i \in Ids : Kin(base[i], rs1[i])
      /\ \A i \in Ids \ {m} : rs[i].key # NoKey => rs1[i] = rs[i]
      /\ \A i \in Kept(rs) \ {m} : rs[i].key = NoKey =>
           IF i \in Live(rs) THEN Meets(rs1, i) /\ m \notin Links(rs1[i])
           ELSE Links(rs1[i]) = {}
  BY KeylessNeighbours
<1>2. /\ m \in Ids /\ m \in Kept(rs) /\ moved.sup = Null /\ moved.supBy = Null
  BY LiveAre DEF Links
<1>3. /\ \A i \in Ids \ {m} : /\ rs2[i] = rs1[i] /\ rs2[i].key = rs[i].key
                              /\ i \in Kept(rs2) <=> i \in Kept(rs)
                              /\ i \in Live(rs2) <=> i \in Live(rs)
                              /\ i \in Live(rs1) <=> i \in Live(rs)
  BY <1>1 DEF Kin, Kept, Live, Trash
<1>4. Paired(rs2)
  <2> SUFFICES ASSUME NEW i \in Kept(rs2), rs2[i].key = NoKey
               PROVE  IF i \in Live(rs2) THEN Meets(rs2, i) ELSE Links(rs2[i]) = {}
    BY DEF Paired
  <2>1. CASE i = m
    BY <1>2, <2>1 DEF Meets
  <2>2. CASE i # m
    <3>1. i \in Ids \ {m} /\ i \in Kept(rs) \ {m} /\ rs[i].key = NoKey /\ rs2[i] = rs1[i]
      BY <1>3, <2>2, LiveAre
    <3>2. CASE i \notin Live(rs)
      BY <1>1, <1>3, <3>1, <3>2
    <3>3. CASE i \in Live(rs)
      <4>1. Meets(rs1, i) /\ m \notin Links(rs1[i]) /\ i \in Live(rs2)
        BY <1>1, <1>3, <3>1, <3>3
      <4>2. \A x \in Live(rs1) : x # m => x \in Live(rs2) /\ rs2[x] = rs1[x]
        BY <1>3, LiveAre
      <4>3. rs1[i].sup # Null => rs1[i].sup # m /\ rs1[i].sup \in Live(rs1)
        BY <4>1 DEF Links, Meets
      <4>4. rs1[i].supBy # Null => rs1[i].supBy # m /\ rs1[i].supBy \in Live(rs1)
        BY <4>1 DEF Links, Meets
      <4> QED BY <3>1, <4>1, <4>2, <4>3, <4>4 DEF Meets
    <3> QED BY <3>2, <3>3
  <2> QED BY <2>1, <2>2
<1>5. ASSUME NEW l \in Keys \ {moved.key} PROVE Untouched(rs, rs2, l)
  <2>1. \A i \in Ids \ {m} : rs[i].key = l => rs2[i] = rs[i]
    BY <1>1, <1>3
  <2> QED BY <1>2, <1>3, <2>1 DEF Untouched
<1> QED BY <1>4, <1>5

\* One with a key leaves gaps in the chain of its key only.
LEMMA KeyedOut ==
  ASSUME NEW rs \in Rows, Chains(rs), NEW m \in Live(rs), rs[m].key \in Keys,
         NEW rs1 \in Detach(rs, m, rs[m]),
         NEW moved \in Row, Links(moved) = {},
         NEW rs2 \in Rows, rs2[m] = moved, \A i \in Ids \ {m} : rs2[i] = rs1[i]
  PROVE  Paired(rs2) /\ \A l \in Keys \ {rs[m].key, moved.key} : Untouched(rs, rs2, l)
<1> DEFINE k == rs[m].key
<1>1. Within(rs, rs1, OfKey(rs, k)) /\ rs1 \in Rows
  BY KeyedNeighbours
<1>2. m \in Ids /\ moved.sup = Null /\ moved.supBy = Null
  BY LiveAre DEF Links
<1>3. \A i \in Ids \ {m} : /\ rs2[i] = rs1[i] /\ rs2[i].key = rs[i].key
                           /\ i \in Kept(rs2) <=> i \in Kept(rs)
                           /\ i \in Live(rs2) <=> i \in Live(rs)
  BY <1>1 DEF Within, Kin, Kept, Live, Trash
<1>4. \A i \in Ids \ {m} : rs[i].key # k => rs2[i] = rs[i]
  BY <1>1, <1>3, OfKeyIs DEF Within
<1>5. Paired(rs2)
  <2> SUFFICES ASSUME NEW i \in Kept(rs2), rs2[i].key = NoKey
               PROVE  IF i \in Live(rs2) THEN Meets(rs2, i) ELSE Links(rs2[i]) = {}
    BY DEF Paired
  <2>1. CASE i = m
    BY <1>2, <2>1 DEF Meets
  <2>2. CASE i # m
    <3>1. i \in Ids \ {m} /\ i \in Kept(rs) /\ rs[i].key = NoKey /\ rs2[i] = rs[i]
      BY <1>3, <1>4, <2>2, LiveAre
    <3>2. CASE i \notin Live(rs)
      BY <1>3, <3>1, <3>2 DEF Chains, Paired
    <3>3. CASE i \in Live(rs)
      <4>1. Meets(rs, i) /\ i \in Live(rs2)
        BY <1>3, <3>1, <3>3 DEF Chains, Paired
      <4>2. \A x \in Live(rs) : rs[x].key = NoKey => x \in Live(rs2) /\ rs2[x] = rs[x]
        BY <1>3, <1>4, LiveAre
      <4> QED BY <3>1, <4>1, <4>2 DEF Meets
    <3> QED BY <3>2, <3>3
  <2> QED BY <2>1, <2>2
<1>6. ASSUME NEW l \in Keys \ {k, moved.key} PROVE Untouched(rs, rs2, l)
  BY <1>3, <1>4 DEF Untouched
<1> QED BY <1>5, <1>6

LEMMA DetachSteady ==
  ASSUME NEW rs \in Rows, NEW m, NEW mem \in Row, NEW rs2 \in Detach(rs, m, mem)
  PROVE  rs2 \in Rows /\ \A i \in Ids : Kin(rs[i], rs2[i])
<1>1. PICK p \in Preds(rs, m, mem), s \in Succs(rs, m, mem) :
        p \in Link /\ s \in Link /\ rs2 = Joined(rs, mem, p, s)
  BY DetachIs
<1>2. Within(rs, rs2, {p, s})
  BY <1>1, JoinedIs
<1> QED BY <1>2 DEF Within

LEMMA RebuildAny ==
  ASSUME NEW rs \in Rows, NEW k \in Keys \cup {NoKey}, NEW rs2, rs2 = Rebuild(rs, k)
  PROVE  /\ rs2 \in Rows /\ \A i \in Ids : Kin(rs[i], rs2[i])
         /\ k \in Keys => Tied(rs2, k) /\ Apart(rs2, k) /\ Bound(rs2, k)
         /\ \A l \in Keys \ {k} : Keeps(rs, rs2, l)
         /\ Paired(rs) => Paired(rs2)
<1>1. CASE k \in Keys
  BY <1>1, RebuildKeeps DEF Within
<1>2. CASE k = NoKey
  <2>1. rs2 = rs
    BY <1>2, NothingToRebuild
  <2> QED BY <1>2, <2>1 DEF Kin, Keeps
<1> QED BY <1>1, <1>2

LEMMA InvalidateAny ==
  ASSUME NEW rs \in Rows, NEW n \in Live(rs), NEW k \in Keys \cup {NoKey}, rs[n].key = k,
         NEW rs2 \in Invalidate(rs, n)
  PROVE  /\ rs2 \in Rows /\ \A i \in Ids : Kin(rs[i], rs2[i])
         /\ \A l \in Keys \ {k} : Keeps(rs, rs2, l)
         /\ Paired(rs) => Paired(rs2)
<1>1. CASE k \in Keys
  BY <1>1, InvalidateKeeps DEF Within
<1>2. CASE k = NoKey
  <2>1. rs2 = rs
    BY <1>2, NothingToInvalidate
  <2> QED BY <1>2, <2>1 DEF Kin, Keeps
<1> QED BY <1>1, <1>2

-----------------------------------------------------------------------------
(* Moves *)

\* What holds before a step, and what the step leaves.
Given == TypeOK /\ Sound(rows) /\ Firsts(rows)

Stays == Steady(rows, rows') /\ (Chains(rows) => Chained(rows, rows'))

LEMMA MoveKeeps ==
  ASSUME Given, NEW m \in Live(rows), NEW k \in Keys \cup {NoKey},
         NEW from \in Starts \cup {Never}, NEW setsEnd \in BOOLEAN,
         NEW until \in Ends \cup {Never}, Move(m, k, from, until, setsEnd)
  PROVE  Stays
<1> DEFINE old == rows[m]
           leaves == ~setsEnd /\ old.supBy # Null /\ (from # old.from \/ k # old.key)
           end == IF leaves THEN Never ELSE IF setsEnd THEN until ELSE old.until
           st == IF leaves /\ old.status = "resolved" THEN "dynamic" ELSE old.status
           moved == [old EXCEPT !.key = k, !.from = from, !.until = end,
                       !.status = st, !.sup = Null, !.supBy = Null]
           Placed(rs) == IF k = NoKey THEN {rs} ELSE Invalidate(rs, m)
           Rebuilt(rs) == IF old.key = k THEN Rebuild(rs, k) ELSE Rebuild(Rebuild(rs, old.key), k)
<1>1. rows \in Rows /\ m \in Ids /\ old \in Row /\ old.place = "live"
  BY LiveAre DEF Given, TypeOK, Rows, Live
<1>2. /\ moved \in Row /\ moved.place = old.place /\ moved.evidence = old.evidence
      /\ moved.key = k /\ moved.sup = Null /\ moved.supBy = Null
  <2>1. from \in Instants \cup {Never} /\ until \in Instants \cup {Never}
    OBVIOUS
  <2>2. end \in Instants \cup {Never}
    BY <1>1, <2>1, RowIs
  <2>3. st \in {"dynamic", "resolved", "pinned"}
    BY <1>1, RowIs
  <2> HIDE DEF old, end, st
  <2> QED BY <1>1, <2>1, <2>2, <2>3 DEF Row
<1>3. PICK rs \in Detach(rows, m, old) : \E rs2 \in Placed([rs EXCEPT ![m] = moved]) :
          rows' = Rebuilt(rs2)
  <2>1. moved = [old EXCEPT !.key = k, !.from = from, !.until = end,
                   !.status = IF leaves /\ @ = "resolved" THEN "dynamic" ELSE @,
                   !.sup = Null, !.supBy = Null]
    BY <1>1 DEF Row
  <2> HIDE DEF moved
  <2> QED BY <2>1 DEF Move
<1> HIDE DEF moved, old
<1> DEFINE rs1 == [rs EXCEPT ![m] = moved]
<1>4. PICK rs2 \in Placed(rs1) : rows' = Rebuilt(rs2)
  BY <1>3
<1>5. rs \in Rows /\ \A i \in Ids : Kin(rows[i], rs[i])
  BY <1>1, DetachSteady
<1>6. /\ rs1 \in Rows /\ rs1[m] = moved /\ \A i \in Ids \ {m} : rs1[i] = rs[i]
      /\ m \in Live(rs1)
  BY <1>1, <1>2, <1>5 DEF Rows, Live
<1> HIDE DEF rs1
<1>7. /\ rs2 \in Rows /\ \A i \in Ids : Kin(rs1[i], rs2[i])
      /\ \A l \in Keys \ {k} : Keeps(rs1, rs2, l)
      /\ Paired(rs1) => Paired(rs2)
  <2>1. CASE k = NoKey
    BY <1>4, <1>6, <2>1 DEF Kin, Keeps
  <2>2. CASE k # NoKey
    BY <1>2, <1>4, <1>6, <2>2, InvalidateAny
  <2> QED BY <2>1, <2>2
<1>8. old.key \in Keys \cup {NoKey}
  BY <1>1, RowIs
<1> DEFINE rs3 == IF old.key = k THEN rs2 ELSE Rebuild(rs2, old.key)
<1>9. /\ rs3 \in Rows /\ \A i \in Ids : Kin(rs2[i], rs3[i])
      /\ old.key \in Keys \ {k} => Tied(rs3, old.key) /\ Apart(rs3, old.key) /\ Bound(rs3, old.key)
      /\ \A l \in Keys \ {old.key} : Keeps(rs2, rs3, l)
      /\ Paired(rs2) => Paired(rs3)
  <2>1. CASE old.key = k
    BY <1>7, <2>1 DEF Kin, Keeps
  <2>2. CASE old.key # k
    BY <1>7, <1>8, <2>2, RebuildAny
  <2> QED BY <2>1, <2>2
<1>10. rows' = Rebuild(rs3, k)
  BY <1>4
<1> HIDE DEF rs3
<1>11. /\ rows' \in Rows /\ \A i \in Ids : Kin(rs3[i], rows'[i])
       /\ k \in Keys => Tied(rows', k) /\ Apart(rows', k) /\ Bound(rows', k)
       /\ \A l \in Keys \ {k} : Keeps(rs3, rows', l)
       /\ Paired(rs3) => Paired(rows')
  BY <1>9, <1>10, RebuildAny
<1>12. Steady(rows, rows')
  <2>1. \A i \in Ids : /\ rows'[i].place = rs1[i].place /\ rows'[i].evidence = rs1[i].evidence
                       /\ rs1[i].place = rows[i].place /\ rs1[i].evidence = rows[i].evidence
    BY <1>2, <1>5, <1>6, <1>7, <1>9, <1>11 DEF Kin, old
  <2> QED BY <1>1, <1>11, <2>1, SteadyIs DEF Given
<1>13. ASSUME Chains(rows) PROVE Chained(rows, rows')
  <2>1. Links(moved) = {}
    BY <1>2 DEF Links
  <2>2. Paired(rs1) /\ \A l \in Keys \ {old.key, k} : Untouched(rows, rs1, l)
    <3>1. CASE old.key \in Keys
      <4>1. rows[m].key \in Keys /\ rs \in Detach(rows, m, rows[m])
        BY <3>1 DEF old
      <4> QED BY <1>1, <1>2, <1>6, <1>13, <2>1, <4>1, KeyedOut DEF old
    <3>2. CASE old.key = NoKey
      <4>1. rows[m].key = NoKey /\ rs \in Detach(rows, m, rows[m])
        BY <3>2 DEF old
      <4>2. Paired(rs1) /\ \A l \in Keys \ {moved.key} : Untouched(rows, rs1, l)
        BY <1>1, <1>2, <1>6, <1>13, <2>1, <4>1, KeylessOut
      <4> QED BY <1>2, <4>2
    <3> QED BY <1>8, <3>1, <3>2
  <2>3. Paired(rows')
    BY <1>7, <1>9, <1>11, <2>2
  <2>4. \A l \in Keys \ {old.key, k} : Keeps(rows, rows', l)
    <3>1. \A l \in Keys \ {old.key, k} : Keeps(rows, rs1, l)
      BY <1>1, <1>6, <2>2, UntouchedKeeps
    <3> QED BY <1>7, <1>9, <1>11, <3>1 DEF Keeps
  <2>5. k \in Keys => Tied(rows', k) /\ Apart(rows', k) /\ Bound(rows', k)
    BY <1>11
  <2>6. old.key \in Keys \ {k} =>
          Tied(rows', old.key) /\ Apart(rows', old.key) /\ Bound(rows', old.key)
    BY <1>9, <1>11 DEF Keeps
  <2> QED BY <1>13, <2>3, <2>4, <2>5, <2>6 DEF Chained, Chains, Keeps
<1> QED BY <1>12, <1>13 DEF Stays

LEMMA UpdateKeeps ==
  ASSUME Given, update_memory
  PROVE  Stays
<1>1. rows \in Rows
  BY DEF Given, TypeOK, Rows
<1>2. PICK m \in Live(rows) :
       \/ \E k \in Keys \cup {NoKey}, from \in Starts \cup {Never}, setsEnd \in BOOLEAN :
            \E until \in IF setsEnd THEN Ends \cup {Never} ELSE {Never} :
              Move(m, k, from, until, setsEnd)
       \/ \E status \in {"dynamic", "resolved", "pinned"} \ {rows[m].status} :
            rows' = [rows EXCEPT ![m].status = status]
  BY DEF update_memory
<1>3. CASE \E k \in Keys \cup {NoKey}, from \in Starts \cup {Never}, setsEnd \in BOOLEAN :
             \E until \in IF setsEnd THEN Ends \cup {Never} ELSE {Never} :
               Move(m, k, from, until, setsEnd)
  BY <1>3, MoveKeeps
<1>4. CASE \E status \in {"dynamic", "resolved", "pinned"} \ {rows[m].status} :
             rows' = [rows EXCEPT ![m].status = status]
  <2>1. PICK status \in {"dynamic", "resolved", "pinned"} :
          rows' = [rows EXCEPT ![m].status = status]
    BY <1>4
  <2>2. m \in Ids /\ rows[m] \in Row
    BY <1>1, LiveAre DEF Rows
  <2>3. [rows[m] EXCEPT !.status = status] \in Row
    BY <2>2 DEF Row
  <2>4. rows' \in Rows
    BY <1>1, <2>1, <2>2, <2>3 DEF Rows
  <2>5. \A i \in Ids : /\ Kin(rows[i], rows'[i]) /\ rows'[i].until = rows[i].until
                       /\ rows'[i].sup = rows[i].sup /\ rows'[i].supBy = rows[i].supBy
    BY <1>1, <2>1, <2>2 DEF Rows, Row, Kin
  <2>6. Steady(rows, rows')
    BY <1>1, <2>4, <2>5, KinSteady DEF Given
  <2>7. ASSUME Chains(rows) PROVE Chained(rows, rows')
    <3>1. /\ Live(rows') = Live(rows) /\ Kept(rows') = Kept(rows)
          /\ \A i \in Ids : Start(rows'[i]) = Start(rows[i]) /\ rows'[i].key = rows[i].key
      BY <1>1, <2>4, <2>5, KinKeeps DEF Kin
    <3>2. Chains(rows')
      BY <1>1, <2>4, <2>5, <2>7, <3>1, LooseKeeps
    <3>3. \A k \in Keys : Bound(rows, k) => Bound(rows', k)
      BY <1>1, <2>4, <2>5, <3>1, LooseBound
    <3> QED BY <3>2, <3>3 DEF Chained
  <2> QED BY <2>6, <2>7 DEF Stays
<1> QED BY <1>2, <1>3, <1>4

-----------------------------------------------------------------------------
(* Deletion and restoration *)

LEMMA PlaceIs ==
  ASSUME NEW rs \in Rows, NEW m \in Ids, NEW place \in Places,
         NEW status \in {"dynamic", "resolved", "pinned"}
  PROVE  /\ [rs EXCEPT ![m].place = place] \in Rows
         /\ [rs EXCEPT ![m].place = place, ![m].status = status] \in Rows
<1>1. rs[m] \in Row
  BY DEF Rows
<1>2. [rs[m] EXCEPT !.place = place] \in Row
  BY <1>1 DEF Row
<1>3. [rs[m] EXCEPT !.place = place, !.status = status] \in Row
  BY <1>1 DEF Row
<1>4. [rs EXCEPT ![m].place = place] = [rs EXCEPT ![m] = [rs[m] EXCEPT !.place = place]]
  BY DEF Rows
<1>5. [rs EXCEPT ![m].place = place, ![m].status = status]
        = [rs EXCEPT ![m] = [rs[m] EXCEPT !.place = place, !.status = status]]
  BY <1>1 DEF Rows, Row
<1> QED BY <1>2, <1>3, <1>4, <1>5 DEF Rows

\* A deleted row leaves the chain it was in without a key.
LEMMA UnlinkKeeps ==
  ASSUME Given, NEW m \in Live(rows), rows[m].key = NoKey,
         NEW rs \in Rows, rs[m] = [rows[m] EXCEPT !.place = "trash"],
         \A i \in Ids \ {m} : rs[i] = rows[i],
         rows' \in Unlink(rs, m, rows[m])
  PROVE  Stays
<1> DEFINE reopened == Synthesized(rows, rows[m])
<1>1. PICK rs2 \in Detach(rs, m, rows[m]) :
        rows' = [rs2 EXCEPT
                   ![m].sup = Null, ![m].supBy = Null,
                   ![m].until = IF reopened THEN Never ELSE @,
                   ![m].status = IF reopened /\ @ # "pinned" THEN "dynamic" ELSE @]
  BY DEF Unlink
<1> HIDE DEF reopened
<1>2. rows \in Rows /\ m \in Ids /\ rows[m] \in Row
  BY LiveAre DEF Given, TypeOK, Rows
<1>3. /\ rs \in Rows /\ m \notin Live(rs) /\ rs[m] = [rows[m] EXCEPT !.place = "trash"]
      /\ \A i \in Ids \ {m} : rs[i] = rows[i]
  BY <1>2 DEF Row, Live
<1>4. rs2 \in Rows /\ \A i \in Ids : Kin(rs[i], rs2[i])
  BY <1>2, <1>3, DetachSteady
<1> DEFINE moved == [rs2[m] EXCEPT !.sup = Null, !.supBy = Null,
                       !.until = IF reopened THEN Never ELSE @,
                       !.status = IF reopened /\ @ # "pinned" THEN "dynamic" ELSE @]
<1>5. /\ moved \in Row /\ moved.place = rs2[m].place /\ moved.key = rs2[m].key
      /\ moved.evidence = rs2[m].evidence /\ Links(moved) = {}
  <2>1. rs2[m] \in Row
    BY <1>2, <1>4 DEF Rows
  <2> DEFINE r == rs2[m]  end == IF reopened THEN Never ELSE r.until
             st == IF reopened /\ r.status # "pinned" THEN "dynamic" ELSE r.status
  <2>2. end \in Instants \cup {Never} /\ st \in {"dynamic", "resolved", "pinned"}
    BY <2>1, RowIs
  <2>3. moved = [r EXCEPT !.sup = Null, !.supBy = Null, !.until = end, !.status = st]
    BY <2>1 DEF Row
  <2>4. r \in Row
    BY <2>1
  <2> HIDE DEF r, end, st, moved
  <2>5. /\ moved \in Row /\ moved.place = r.place /\ moved.key = r.key
        /\ moved.evidence = r.evidence /\ moved.sup = Null /\ moved.supBy = Null
    BY <2>2, <2>3, <2>4 DEF Row
  <2> QED BY <2>5 DEF r, Links
<1>6. rows'[m] = moved /\ \A i \in Ids \ {m} : rows'[i] = rs2[i]
  BY <1>1, <1>2, <1>4 DEF Rows, Row
<1>7. rows' = [i \in Ids |-> rows'[i]]
  BY <1>1, <1>4 DEF Rows
<1> HIDE DEF moved
<1>8. rows' \in Rows
  BY <1>4, <1>5, <1>6, <1>7 DEF Rows
<1>9. Steady(rows, rows')
  <2>1. rows[m].place = "live" /\ rows'[m].place = "trash" /\ rows'[m].evidence = rows[m].evidence
    BY <1>2, <1>3, <1>4, <1>5, <1>6 DEF Kin, Live, Row
  <2>2. m \in Kept(rows) /\ m \in Kept(rows')
    BY <1>2, <2>1 DEF Kept, Live, Trash
  <2>3. \A i \in Ids \ {m} : rows'[i].place = rows[i].place /\ rows'[i].evidence = rows[i].evidence
    BY <1>3, <1>4, <1>6 DEF Kin
  <2> QED BY <1>2, <1>8, <2>1, <2>2, <2>3, SteadyIs DEF Given
<1>10. ASSUME Chains(rows) PROVE Chained(rows, rows')
  <2>1. moved.key = NoKey
    BY <1>2, <1>3, <1>4, <1>5 DEF Kin, Row
  <2>2. Paired(rows') /\ \A l \in Keys \ {moved.key} : Untouched(rows, rows', l)
    <3>1. rs \in Rows /\ m \notin Live(rs) /\ \A i \in Ids \ {m} : rs[i] = rows[i]
      BY <1>3
    <3>2. moved \in Row /\ Links(moved) = {}
      BY <1>5
    <3> QED BY <1>2, <1>6, <1>8, <1>10, <3>1, <3>2, KeylessOut
  <2>3. \A l \in Keys : Untouched(rows, rows', l)
    BY <2>1, <2>2
  <2> QED BY <1>2, <1>8, <1>10, <2>2, <2>3, UntouchedKeeps DEF Chained, Chains, Keeps
<1> QED BY <1>9, <1>10 DEF Stays

LEMMA ArchiveKeeps ==
  ASSUME Given, archive_memory
  PROVE  Stays
<1>1. PICK m \in Live(rows) :
        LET mem == rows[m]
            rs == [rows EXCEPT ![m].place = "trash"]
        IN IF mem.key # NoKey THEN rows' = Rebuild(rs, mem.key)
           ELSE IF Linked(mem) THEN \E rs2 \in Unlink(rs, m, mem) : rows' = rs2
           ELSE rows' = rs
  BY DEF archive_memory
<1> DEFINE rs == [rows EXCEPT ![m].place = "trash"]
<1>2. rows \in Rows /\ m \in Ids /\ rows[m] \in Row /\ rs \in Rows
  BY LiveAre, PlaceIs DEF Given, TypeOK, Rows, Places
<1>3. /\ rs[m] = [rows[m] EXCEPT !.place = "trash"]
      /\ \A i \in Ids \ {m} : rs[i] = rows[i]
      /\ m \in Kept(rows) /\ m \in Kept(rs) /\ m \notin Live(rs)
  BY <1>2 DEF Rows, Row, Kept, Live, Trash
<1> HIDE DEF rs
<1>4. Steady(rows, rs)
  BY <1>2, <1>3, SteadyIs DEF Given, Row
<1>5. CASE rows[m].key # NoKey
  <2>1. rows[m].key \in Keys /\ rows' = Rebuild(rs, rows[m].key)
    BY <1>1, <1>2, <1>5, RowIs DEF rs
  <2>2. rows' \in Rows /\ \A i \in Ids : Kin(rs[i], rows'[i])
    BY <1>2, <2>1, RebuildAny
  <2>3. Steady(rows, rows')
    BY <1>2, <1>4, <2>2, KinSteady DEF Steady
  <2>4. ASSUME Chains(rows) PROVE Chained(rows, rows')
    <3>1. rs[m].key = rows[m].key
      BY <1>2, <1>3 DEF Row
    <3>2. \A l \in (Keys \ {rows[m].key}) \cup {NoKey} : Untouched(rows, rs, l)
      BY <1>3, <1>5, <3>1 DEF Untouched, Kept, Live, Trash
    <3> QED BY <1>2, <2>1, <2>4, <3>2, RebuiltKeeps
  <2> QED BY <2>3, <2>4 DEF Stays
<1>6. CASE rows[m].key = NoKey /\ Linked(rows[m])
  <2>1. rows' \in Unlink(rs, m, rows[m])
    BY <1>1, <1>6 DEF rs
  <2> QED BY <1>2, <1>3, <1>6, <2>1, UnlinkKeeps
<1>7. CASE rows[m].key = NoKey /\ ~Linked(rows[m])
  <2>1. rows' = rs
    BY <1>1, <1>7 DEF rs
  <2>2. Links(rows[m]) = {}
    BY <1>7 DEF Linked, Links
  <2>3. /\ \A i \in Ids : rs[i].key = rows[i].key /\ rs[i].sup = rows[i].sup /\ rs[i].supBy = rows[i].supBy
        /\ Kept(rs) = Kept(rows)
        /\ \A i \in Ids : i # m => (i \in Live(rs) <=> i \in Live(rows))
    <3>1. \A i \in Ids \ {m} : /\ i \in Live(rs) <=> i \in Live(rows)
                               /\ i \in Kept(rs) <=> i \in Kept(rows)
      BY <1>3 DEF Live, Kept, Trash
    <3>2. Kept(rs) = Kept(rows)
      BY <1>3, <3>1, LiveAre
    <3> QED BY <1>2, <1>3, <3>1, <3>2 DEF Row
  <2>4. ASSUME Chains(rows) PROVE Chained(rows, rs)
    <3>1. Chains(rs)
      <4>1. \A i \in Live(rows) \ Live(rs) : i = m
        BY <2>3, LiveAre
      <4>2. \A i \in Ids : rows[i].key # NoKey => i # m /\ rs[i] = rows[i]
        BY <1>3, <1>7
      <4> QED BY <1>2, <2>2, <2>3, <2>4, <4>1, <4>2, LooseKeeps
    <3>2. \A k \in Keys : Bound(rows, k) => Bound(rs, k)
      BY <1>2, <1>7, <2>3, LooseBound
    <3> QED BY <3>1, <3>2 DEF Chained
  <2> QED BY <1>4, <2>1, <2>4 DEF Stays
<1> QED BY <1>5, <1>6, <1>7

LEMMA RestoreKeeps ==
  ASSUME Given, restore_memory
  PROVE  Stays
<1>1. PICK m \in Trash(rows) :
        LET keyed == rows[m].key # NoKey
            rs == [rows EXCEPT ![m].place = "live",
                     ![m].status = IF keyed /\ @ # "pinned" THEN "dynamic" ELSE @]
        IN rows' = IF keyed THEN Rebuild(rs, rows[m].key) ELSE rs
  BY DEF restore_memory
<1> DEFINE keyed == rows[m].key # NoKey
           st == IF keyed /\ rows[m].status # "pinned" THEN "dynamic" ELSE rows[m].status
           rs == [rows EXCEPT ![m].place = "live", ![m].status = st]
<1>2. rows \in Rows /\ m \in Ids /\ rows[m] \in Row
  BY LiveAre DEF Given, TypeOK, Rows
<1>3. rs \in Rows
  <2>1. st \in {"dynamic", "resolved", "pinned"}
    BY <1>2, RowIs
  <2> HIDE DEF st
  <2> QED BY <1>2, <2>1, PlaceIs DEF Places
<1>4. rows' = IF keyed THEN Rebuild(rs, rows[m].key) ELSE rs
  <2>1. rs = [rows EXCEPT ![m].place = "live",
                ![m].status = IF keyed /\ @ # "pinned" THEN "dynamic" ELSE @]
    BY <1>2 DEF Rows, Row
  <2> QED BY <1>1, <2>1
<1> HIDE DEF st
<1>5. /\ rs[m] = [rows[m] EXCEPT !.place = "live", !.status = st]
      /\ \A i \in Ids \ {m} : rs[i] = rows[i]
      /\ m \in Kept(rows) /\ m \in Kept(rs) /\ m \in Live(rs)
  BY <1>2 DEF Rows, Row, Kept, Live, Trash
<1> HIDE DEF rs
<1>6. /\ rs[m].key = rows[m].key /\ rs[m].sup = rows[m].sup /\ rs[m].supBy = rows[m].supBy
      /\ rs[m].evidence = rows[m].evidence
  BY <1>2, <1>5 DEF Row
<1>7. Steady(rows, rs)
  <2>1. \A i \in Ids : /\ rs[i].evidence = rows[i].evidence
                       /\ \/ rs[i].place = rows[i].place
                          \/ i \in Kept(rows) /\ i \in Kept(rs)
    BY <1>5, <1>6
  <2> QED BY <1>2, <1>3, <2>1, SteadyIs DEF Given
<1>8. CASE keyed
  <2>1. rows[m].key \in Keys /\ rows' = Rebuild(rs, rows[m].key)
    BY <1>2, <1>4, <1>8, RowIs
  <2>2. rows' \in Rows /\ \A i \in Ids : Kin(rs[i], rows'[i])
    BY <1>3, <2>1, RebuildAny
  <2>3. Steady(rows, rows')
    BY <1>3, <1>7, <2>2, KinSteady DEF Steady
  <2>4. ASSUME Chains(rows) PROVE Chained(rows, rows')
    <3>1. \A l \in (Keys \ {rows[m].key}) \cup {NoKey} : Untouched(rows, rs, l)
      BY <1>5, <1>6, <1>8 DEF Untouched, Kept, Live, Trash
    <3> QED BY <1>2, <1>3, <2>1, <2>4, <3>1, RebuiltKeeps
  <2> QED BY <2>3, <2>4 DEF Stays
<1>9. CASE ~keyed
  <2>1. rows' = rs
    BY <1>4, <1>9
  <2>2. /\ \A i \in Ids : rs[i].key = rows[i].key /\ rs[i].sup = rows[i].sup /\ rs[i].supBy = rows[i].supBy
        /\ Kept(rs) = Kept(rows)
        /\ \A i \in Ids : i # m => (i \in Live(rs) <=> i \in Live(rows))
    <3>1. \A i \in Ids \ {m} : /\ i \in Live(rs) <=> i \in Live(rows)
                               /\ i \in Kept(rs) <=> i \in Kept(rows)
      BY <1>5 DEF Live, Kept, Trash
    <3>2. Kept(rs) = Kept(rows)
      <4>1. \A i \in Ids : i \in Kept(rs) <=> i \in Kept(rows)
        BY <1>5, <3>1
      <4> QED BY <4>1, LiveAre
    <3> QED BY <1>5, <1>6, <3>1, <3>2
  <2>3. ASSUME Chains(rows) PROVE Chained(rows, rs)
    <3>1. Chains(rs)
      <4>1. Live(rows) \subseteq Live(rs)
        BY <1>5, <2>2, LiveAre
      <4>2. \A i \in Ids : rows[i].key # NoKey => i # m /\ rs[i] = rows[i]
        BY <1>5, <1>9
      <4> QED BY <1>2, <1>3, <2>2, <2>3, <4>1, <4>2, LooseKeeps
    <3>2. \A k \in Keys : Bound(rows, k) => Bound(rs, k)
      BY <1>2, <1>3, <1>9, <2>2, LooseBound
    <3> QED BY <3>1, <3>2 DEF Chained
  <2> QED BY <1>7, <2>1, <2>3 DEF Stays
<1> QED BY <1>8, <1>9

-----------------------------------------------------------------------------
(* Facts that hold again, and new ones *)

LEMMA ReopenKeeps ==
  ASSUME Given, NEW m \in Live(rows), rows[m].key = NoKey, rows[m].supBy # Null,
         rows' = Reopen(m)
  PROVE  Stays
<1> DEFINE r == rows[m]
           s == r.supBy
           end == IF Synthesized(rows, r) THEN Never ELSE r.until
           st == IF r.status = "pinned" THEN r.status ELSE "dynamic"
           opened == [r EXCEPT !.supBy = Null, !.until = end, !.status = st]
           met == s \in Ids /\ s # m /\ rows[s].place = "live" /\ rows[s].sup = m
<1>1. rows \in Rows /\ m \in Ids /\ r \in Row
  BY LiveAre DEF Given, TypeOK, Rows
<1>2. /\ opened \in Row /\ Kin(r, opened) /\ opened.sup = r.sup /\ opened.supBy = Null
  <2>1. end \in Instants \cup {Never} /\ st \in {"dynamic", "resolved", "pinned"}
    BY <1>1, RowIs
  <2> HIDE DEF r, end, st
  <2> QED BY <1>1, <2>1 DEF Row, Kin
<1>3. \A i \in Ids :
        rows'[i] = IF i = m THEN opened
                   ELSE IF i = s /\ rows[i].place = "live" /\ rows[i].sup = m
                     THEN [rows[i] EXCEPT !.sup = Null] ELSE rows[i]
  <2>1. opened = [r EXCEPT !.supBy = Null,
                    !.until = IF Synthesized(rows, r) THEN Never ELSE @,
                    !.status = IF @ = "pinned" THEN @ ELSE "dynamic"]
    BY <1>1 DEF Row
  <2> HIDE DEF opened
  <2> QED BY <2>1 DEF Reopen
<1>4. rows' = [i \in Ids |-> rows'[i]]
  BY DEF Reopen
<1> HIDE DEF opened
<1>5. \A i \in Ids :
        /\ rows'[i] \in Row /\ Kin(rows[i], rows'[i])
        /\ rows'[i].supBy = IF i = m THEN Null ELSE rows[i].supBy
        /\ rows'[i].sup = IF i = s /\ i # m /\ rows[i].place = "live" /\ rows[i].sup = m
                          THEN Null ELSE rows[i].sup
        /\ i \notin {m, s} => rows'[i] = rows[i]
  <2> SUFFICES ASSUME NEW i \in Ids
      PROVE  /\ rows'[i] \in Row /\ Kin(rows[i], rows'[i])
             /\ rows'[i].supBy = IF i = m THEN Null ELSE rows[i].supBy
             /\ rows'[i].sup = IF i = s /\ i # m /\ rows[i].place = "live" /\ rows[i].sup = m
                               THEN Null ELSE rows[i].sup
             /\ i \notin {m, s} => rows'[i] = rows[i]
    OBVIOUS
  <2>1. rows[i] \in Row
    BY <1>1 DEF Rows
  <2> DEFINE q == rows[i]  q2 == [q EXCEPT !.sup = Null]
  <2>2. q2 \in Row /\ Kin(q, q2) /\ q2.supBy = q.supBy /\ q2.sup = Null
    BY <2>1 DEF Row, Kin
  <2>3. rows'[i] = IF i = m THEN opened
                   ELSE IF i = s /\ q.place = "live" /\ q.sup = m THEN q2 ELSE q
    BY <1>3
  <2> HIDE DEF q2
  <2> QED BY <1>2, <2>1, <2>2, <2>3 DEF Kin
<1>6. rows' \in Rows
  BY <1>4, <1>5 DEF Rows
<1>7. Steady(rows, rows')
  BY <1>1, <1>5, <1>6, KinSteady DEF Given
<1>8. ASSUME Chains(rows) PROVE Chained(rows, rows')
  <2>1. Meets(rows, m)
    BY <1>8, LiveAre DEF Chains, Paired
  <2>2. s \in Live(rows) /\ s \in Ids /\ rows[s].key = NoKey /\ rows[s].sup = m /\ m < s
    BY <2>1, LiveAre DEF Meets
  <2>3. Live(rows') = Live(rows) /\ Kept(rows') = Kept(rows)
        /\ \A i \in Ids : rows'[i].key = rows[i].key
    BY <1>1, <1>5, <1>6, KinKeeps DEF Kin
  <2>4. \A l \in Keys : Untouched(rows, rows', l)
    BY <1>5, <2>2, <2>3 DEF Untouched
  <2>5. s # m /\ rows'[s].sup = Null /\ rows'[m].supBy = Null
    BY <1>1, <1>5, <2>2 DEF Live
  <2>6. \A i \in Ids : /\ i # s => rows'[i].sup = rows[i].sup
                       /\ i # m => rows'[i].supBy = rows[i].supBy
    BY <1>5
  <2>7. Paired(rows')
    <3> SUFFICES ASSUME NEW i \in Kept(rows), rows[i].key = NoKey
                 PROVE  IF i \in Live(rows) THEN Meets(rows', i) ELSE Links(rows'[i]) = {}
      BY <2>3, LiveAre DEF Paired
    <3>1. IF i \in Live(rows) THEN Meets(rows, i) ELSE Links(rows[i]) = {}
      BY <1>8 DEF Chains, Paired
    <3>2. i \in Ids
      BY LiveAre
    <3>3. CASE i \notin Live(rows)
      BY <1>5, <2>2, <3>1, <3>2, <3>3
    <3>4. CASE i \in Live(rows)
      <4>1. rows'[i].sup # Null =>
              /\ rows'[i].sup \in Live(rows) /\ rows[rows'[i].sup].key = NoKey
              /\ rows'[rows'[i].sup].supBy = i /\ rows'[i].sup < i
        <5> SUFFICES ASSUME rows'[i].sup # Null
                     PROVE  /\ rows'[i].sup \in Live(rows) /\ rows[rows'[i].sup].key = NoKey
                            /\ rows'[rows'[i].sup].supBy = i /\ rows'[i].sup < i
          OBVIOUS
        <5>1. i # s /\ rows'[i].sup = rows[i].sup
          BY <2>5, <2>6, <3>2
        <5>2. /\ rows[i].sup \in Live(rows) /\ rows[rows[i].sup].key = NoKey
              /\ rows[rows[i].sup].supBy = i /\ rows[i].sup < i /\ rows[i].sup \in Ids
          BY <3>1, <3>4, <5>1, LiveAre DEF Meets
        <5>3. rows[i].sup # m
          BY <5>1, <5>2
        <5> QED BY <2>6, <5>1, <5>2, <5>3
      <4>2. rows'[i].supBy # Null =>
              /\ rows'[i].supBy \in Live(rows) /\ rows[rows'[i].supBy].key = NoKey
              /\ rows'[rows'[i].supBy].sup = i /\ i < rows'[i].supBy
        <5> SUFFICES ASSUME rows'[i].supBy # Null
                     PROVE  /\ rows'[i].supBy \in Live(rows) /\ rows[rows'[i].supBy].key = NoKey
                            /\ rows'[rows'[i].supBy].sup = i /\ i < rows'[i].supBy
          OBVIOUS
        <5>1. i # m /\ rows'[i].supBy = rows[i].supBy
          BY <2>5, <2>6, <3>2
        <5>2. /\ rows[i].supBy \in Live(rows) /\ rows[rows[i].supBy].key = NoKey
              /\ rows[rows[i].supBy].sup = i /\ i < rows[i].supBy /\ rows[i].supBy \in Ids
          BY <3>1, <3>4, <5>1, LiveAre DEF Meets
        <5>3. rows[i].supBy # s
          BY <2>2, <5>1, <5>2
        <5> QED BY <2>6, <5>1, <5>2, <5>3
      <4> QED BY <2>3, <3>2, <3>4, <4>1, <4>2, LiveAre DEF Meets
    <3> QED BY <3>3, <3>4
  <2> QED BY <1>1, <1>6, <1>8, <2>4, <2>7, UntouchedKeeps DEF Chained, Chains, Keeps
<1> QED BY <1>7, <1>8 DEF Stays

\* A new row, with a key or without one.
LEMMA NewKeeps ==
  ASSUME Given, NEW n \in New, NEW r \in Row, r.place = "live", r.sup = Null, r.supBy = Null,
         \A j \in r.evidence : rows[j].place # "purged",
         NEW rs, rs = [rows EXCEPT ![n] = r], NEW rs2 \in Invalidate(rs, n)
  PROVE  Steady(rows, rs2) /\ (Chains(rows) => Chained(rows, rs2))
<1>1. /\ rows \in Rows /\ n \in Ids /\ rows[n].place = "none"
      /\ \A j \in Ids : j < n => rows[j].place # "none"
  BY DEF Given, TypeOK, Rows, New
<1>2. rs \in Rows /\ rs[n] = r /\ \A i \in Ids \ {n} : rs[i] = rows[i]
  BY <1>1 DEF Rows
<1>3. Steady(rows, rs) /\ n \in Live(rs)
  BY <1>1, <1>2, AddedSteady DEF Given
<1>4. rs2 \in Rows /\ \A i \in Ids : Kin(rs[i], rs2[i])
  <2>1. r.key \in Keys \cup {NoKey} /\ rs[n].key = r.key
    BY <1>2, RowIs
  <2> QED BY <1>2, <1>3, <2>1, InvalidateAny
<1>5. Steady(rows, rs2)
  BY <1>2, <1>3, <1>4, KinSteady DEF Steady
<1> QED BY <1>1, <1>2, <1>5, AddedKeeps

LEMMA RestoreTemporalKeeps ==
  ASSUME Given, restore_temporal_memory
  PROVE  Stays
<1>1. PICK m \in Live(rows) :
        \/ rows[m].key = NoKey /\ rows[m].supBy # Null /\ rows' = Reopen(m)
        \/ /\ now < MaxTime
           /\ \E n \in New :
                \E rs \in Invalidate([rows EXCEPT ![n] =
                   [rows[m] EXCEPT !.created = now, !.from = now, !.until = Never,
                      !.status = IF @ = "pinned" THEN @ ELSE "dynamic",
                      !.sup = Null, !.supBy = Null]], n) : rows' = rs
  BY DEF restore_temporal_memory
<1>2. CASE rows[m].key = NoKey /\ rows[m].supBy # Null /\ rows' = Reopen(m)
  BY <1>2, ReopenKeeps
<1>3. ASSUME now < MaxTime, NEW n \in New,
             NEW copy, copy = [rows[m] EXCEPT !.created = now, !.from = now, !.until = Never,
                                 !.status = IF @ = "pinned" THEN @ ELSE "dynamic",
                                 !.sup = Null, !.supBy = Null],
             rows' \in Invalidate([rows EXCEPT ![n] = copy], n)
      PROVE  Stays
  <2>1. rows \in Rows /\ m \in Ids /\ rows[m] \in Row /\ now \in Instants /\ m \in Kept(rows)
    BY LiveAre DEF Given, TypeOK, Rows
  <2>2. rows[m].place = "live"
    BY DEF Live
  <2> DEFINE r == rows[m]  st == IF r.status = "pinned" THEN r.status ELSE "dynamic"
  <2>3. st \in {"dynamic", "resolved", "pinned"}
    BY <2>1, RowIs
  <2>4. copy = [r EXCEPT !.created = now, !.from = now, !.until = Never, !.status = st,
                  !.sup = Null, !.supBy = Null]
    BY <1>3, <2>1 DEF Row
  <2>5. r \in Row /\ r.place = "live"
    BY <2>1, <2>2
  <2> HIDE DEF r, st
  <2>6. /\ copy \in Row /\ copy.place = "live" /\ copy.evidence = r.evidence
        /\ copy.sup = Null /\ copy.supBy = Null
    BY <2>1, <2>3, <2>4, <2>5 DEF Row
  <2>7. \A j \in copy.evidence : rows[j].place # "purged"
    BY <2>1, <2>6 DEF Given, Sound, r
  <2>8. Steady(rows, rows') /\ (Chains(rows) => Chained(rows, rows'))
    BY <1>3, <2>6, <2>7, NewKeeps
  <2> QED BY <2>8 DEF Stays
<1> QED BY <1>1, <1>2, <1>3

LEMMA CreateKeeps ==
  ASSUME Given, create_memory
  PROVE  Stays
<1>1. PICK n \in New, k \in Keys \cup {NoKey}, from \in Starts \cup {Never},
           until \in Ends \cup {Never} :
        LET r == [Absent EXCEPT !.place = "live", !.key = k, !.created = now,
                    !.from = from, !.until = until]
            rs == [rows EXCEPT ![n] = r]
        IN \/ \E rs2 \in Invalidate(rs, n) : rows' = rs2
           \/ /\ k = NoKey /\ (from = Never \/ from <= now)
              /\ \E t \in Supersedable(n, rs) : rows' = AutoSupersede(rs, n, t)
  BY DEF create_memory
<1> DEFINE r == [Absent EXCEPT !.place = "live", !.key = k, !.created = now,
                   !.from = from, !.until = until]
           rs == [rows EXCEPT ![n] = r]
<1>2. /\ rows \in Rows /\ n \in Ids /\ now \in Instants /\ n \in New
      /\ from \in Instants \cup {Never} /\ until \in Instants \cup {Never}
  BY DEF Given, TypeOK, Rows, New
<1>3. /\ r \in Row /\ r.place = "live" /\ r.key = k /\ r.evidence = {}
      /\ r.sup = Null /\ r.supBy = Null
  BY <1>2 DEF Absent, Row, Places
<1> HIDE DEF r
<1>4. \A rs2 \in Invalidate(rs, n) :
        Steady(rows, rs2) /\ (Chains(rows) => Chained(rows, rs2))
  BY <1>3, NewKeeps
<1>5. rs \in Rows /\ rs[n] = r /\ \A i \in Ids \ {n} : rs[i] = rows[i]
  BY <1>2, <1>3 DEF Rows
<1>6. \/ rows' \in Invalidate(rs, n)
      \/ k = NoKey /\ \E t \in Supersedable(n, rs) : rows' = AutoSupersede(rs, n, t)
  BY <1>1 DEF r
<1> HIDE DEF rs
<1>7. CASE rows' \in Invalidate(rs, n)
  BY <1>4, <1>7 DEF Stays
<1>8. CASE k = NoKey /\ \E t \in Supersedable(n, rs) : rows' = AutoSupersede(rs, n, t)
  <2>1. PICK t \in Supersedable(n, rs) : rows' = AutoSupersede(rs, n, t)
    BY <1>8
  <2>2. t \in Live(rs) /\ t # n /\ rs[t].key = NoKey /\ rs[t].supBy = Null
    BY <2>1 DEF Supersedable
  <2>3. n \in Live(rs) /\ rs[n].key = NoKey /\ Links(rs[n]) = {}
    BY <1>2, <1>3, <1>5, <1>8 DEF Live, Links
  <2>4. rs \in Invalidate(rs, n)
    BY <2>3, NothingToInvalidate
  <2>5. Steady(rows, rs) /\ (Chains(rows) => Chained(rows, rs))
    BY <1>4, <2>4
  <2>6. t < n
    <3>1. t \in Ids /\ rows[t].place # "none" /\ rows[n].place = "none"
      BY <1>2, <1>5, <2>2 DEF New, Live
    <3> QED BY <1>2, <2>2, <3>1 DEF Given, Firsts
  <2>7. Within(rs, rows', {n, t}) /\ (Chains(rs) => Chained(rs, rows'))
    BY <1>5, <2>1, <2>2, <2>3, <2>6, SupersedeKeeps
  <2>8. Steady(rows, rows')
    BY <1>5, <2>5, <2>7, KinSteady DEF Steady, Within
  <2> QED BY <2>5, <2>7, <2>8 DEF Stays, Chained
<1> QED BY <1>6, <1>7, <1>8

-----------------------------------------------------------------------------
(* Merges and expiry *)

LEMMA SharedIs ==
  ASSUME NEW S, S # {}, NEW default
  PROVE  /\ Shared(S, default) \in S \cup {default}
         /\ \A x : S = {x} => Shared(S, default) = x
<1>1. \A x : S = {x} => Cardinality(S) = 1
  BY FS_Singleton
<1> QED BY <1>1 DEF Shared

\* What a merge of the rows S into t does to chains.
Merges(S, t) ==
  /\ Cardinality(S) > 1 /\ t \in S
  /\ (\E i \in S : rows[i].key # NoKey \/ Linked(rows[i]))
       => \A i \in S : Signature(rows[i]) = Signature(rows[t])
  /\ Live(rows') = (Live(rows) \ S) \cup {t}
  /\ \A i \in Ids : /\ rows'[i].key = rows[i].key /\ rows'[i].sup = rows[i].sup
                    /\ rows'[i].supBy = rows[i].supBy

LEMMA MergeKeeps ==
  ASSUME Given, merge_memories
  PROVE  /\ Steady(rows, rows') /\ (Chains(rows) => Chains(rows'))
         /\ \E S \in SUBSET Live(rows), t \in Live(rows) : Merges(S, t)
<1>1. PICK S \in {T \in SUBSET Live(rows) : Cardinality(T) > 1} : \E t \in S :
        /\ (\E i \in S : rows[i].key # NoKey \/ Linked(rows[i]))
             => \A i \in S : Signature(rows[i]) = Signature(rows[t])
        /\ rows' = [i \in Ids |->
             IF i = t THEN [rows[t] EXCEPT
                              !.evidence = S \cup UNION {rows[j].evidence : j \in S},
                              !.from = Shared({rows[j].from : j \in S}, Never),
                              !.until = Shared({rows[j].until : j \in S}, Never)]
             ELSE IF i \in S THEN [rows[i] EXCEPT !.place = "trash"]
             ELSE rows[i]]
  BY DEF merge_memories
<1>0. PICK t \in S :
        /\ (\E i \in S : rows[i].key # NoKey \/ Linked(rows[i]))
             => \A i \in S : Signature(rows[i]) = Signature(rows[t])
        /\ rows' = [i \in Ids |->
             IF i = t THEN [rows[t] EXCEPT
                              !.evidence = S \cup UNION {rows[j].evidence : j \in S},
                              !.from = Shared({rows[j].from : j \in S}, Never),
                              !.until = Shared({rows[j].until : j \in S}, Never)]
             ELSE IF i \in S THEN [rows[i] EXCEPT !.place = "trash"]
             ELSE rows[i]]
  BY <1>1
<1> DEFINE ev == S \cup UNION {rows[j].evidence : j \in S}
           from == Shared({rows[j].from : j \in S}, Never)
           until == Shared({rows[j].until : j \in S}, Never)
           r == rows[t]
           merged == [r EXCEPT !.evidence = ev, !.from = from, !.until = until]
<1>2. /\ rows \in Rows /\ S \subseteq Ids /\ t \in Ids /\ \A i \in Ids : rows[i] \in Row
      /\ \A i \in S : rows[i].place = "live"
  BY <1>0, LiveAre DEF Given, TypeOK, Rows, Live
<1>3. ev \in SUBSET Ids
  <2>1. \A j \in S : rows[j].evidence \subseteq Ids
    BY <1>2, RowIs
  <2> QED BY <1>2, <2>1
<1>4. from \in Instants \cup {Never} /\ until \in Instants \cup {Never}
  <2> DEFINE F == {rows[j].from : j \in S}  U == {rows[j].until : j \in S}
  <2>1. F \in SUBSET (Instants \cup {Never}) /\ U \in SUBSET (Instants \cup {Never})
    BY <1>2, RowIs
  <2>2. F # {} /\ U # {}
    BY <1>0
  <2> HIDE DEF F, U
  <2>3. Shared(F, Never) \in F \cup {Never} /\ Shared(U, Never) \in U \cup {Never}
    BY <2>2, SharedIs
  <2>4. Shared(F, Never) \in Instants \cup {Never} /\ Shared(U, Never) \in Instants \cup {Never}
    BY <2>1, <2>3
  <2> QED BY <2>4 DEF F, U
<1>5. /\ merged \in Row /\ merged.place = r.place /\ merged.key = r.key
      /\ merged.created = r.created /\ merged.sup = r.sup /\ merged.supBy = r.supBy
      /\ merged.evidence = ev /\ merged.from = from /\ merged.until = until
  <2>1. r \in Row
    BY <1>2
  <2> HIDE DEF r, ev, from, until
  <2> QED BY <1>3, <1>4, <2>1 DEF Row
<1>6. \A i \in Ids :
        rows'[i] = IF i = t THEN merged
                   ELSE IF i \in S THEN [rows[i] EXCEPT !.place = "trash"] ELSE rows[i]
  BY <1>0
<1>7. rows' = [i \in Ids |-> rows'[i]]
  BY <1>0
<1> HIDE DEF merged, ev, from, until
<1>8. \A i \in Ids :
        /\ rows'[i] \in Row
        /\ rows'[i].key = rows[i].key /\ rows'[i].created = rows[i].created
        /\ rows'[i].sup = rows[i].sup /\ rows'[i].supBy = rows[i].supBy
        /\ i # t => /\ rows'[i].evidence = rows[i].evidence /\ rows'[i].from = rows[i].from
                    /\ rows'[i].until = rows[i].until
        /\ rows'[i].place = IF i \in S \ {t} THEN "trash" ELSE rows[i].place
  <2> SUFFICES ASSUME NEW i \in Ids
      PROVE  /\ rows'[i] \in Row
             /\ rows'[i].key = rows[i].key /\ rows'[i].created = rows[i].created
             /\ rows'[i].sup = rows[i].sup /\ rows'[i].supBy = rows[i].supBy
             /\ i # t => /\ rows'[i].evidence = rows[i].evidence /\ rows'[i].from = rows[i].from
                         /\ rows'[i].until = rows[i].until
             /\ rows'[i].place = IF i \in S \ {t} THEN "trash" ELSE rows[i].place
    OBVIOUS
  <2> DEFINE q == rows[i]  q2 == [q EXCEPT !.place = "trash"]
  <2>1. q \in Row
    BY <1>2
  <2>2. /\ q2 \in Row /\ q2.key = q.key /\ q2.created = q.created /\ q2.sup = q.sup
        /\ q2.supBy = q.supBy /\ q2.evidence = q.evidence /\ q2.from = q.from
        /\ q2.until = q.until /\ q2.place = "trash"
    BY <2>1 DEF Row, Places
  <2>3. rows'[i] = IF i = t THEN merged ELSE IF i \in S THEN q2 ELSE q
    BY <1>6
  <2> HIDE DEF q2
  <2> QED BY <1>5, <2>1, <2>2, <2>3
<1>9. rows' \in Rows
  BY <1>7, <1>8 DEF Rows
<1>10. /\ Kept(rows') = Kept(rows) /\ Live(rows') = (Live(rows) \ S) \cup {t}
       /\ \A i \in Ids : /\ rows'[i].place = "purged" <=> rows[i].place = "purged"
                         /\ rows'[i].place = "none" <=> rows[i].place = "none"
  <2>1. \A i \in Ids : /\ i \in Kept(rows') <=> i \in Kept(rows)
                       /\ i \in Live(rows') <=> i \in (Live(rows) \ S) \cup {t}
                       /\ rows'[i].place = "purged" <=> rows[i].place = "purged"
                       /\ rows'[i].place = "none" <=> rows[i].place = "none"
    <3> SUFFICES ASSUME NEW i \in Ids
        PROVE  /\ i \in Kept(rows') <=> i \in Kept(rows)
               /\ i \in Live(rows') <=> i \in (Live(rows) \ S) \cup {t}
               /\ rows'[i].place = "purged" <=> rows[i].place = "purged"
               /\ rows'[i].place = "none" <=> rows[i].place = "none"
      OBVIOUS
    <3>1. /\ rows'[i].place = IF i \in S \ {t} THEN "trash" ELSE rows[i].place
          /\ i \in S => rows[i].place = "live"
      BY <1>2, <1>8
    <3>2. t \in S /\ \A x \in S : x \in Live(rows)
      BY <1>0
    <3>3. CASE i \in S \ {t}
      BY <3>1, <3>2, <3>3 DEF Kept, Live, Trash
    <3>4. CASE i \notin S \ {t}
      <4>1. rows'[i].place = rows[i].place
        BY <3>1, <3>4
      <4>2. i \in Live(rows) <=> i \in (Live(rows) \ S) \cup {t}
        BY <3>2, <3>4
      <4> QED BY <4>1, <4>2 DEF Kept, Live, Trash
    <3> QED BY <3>3, <3>4
  <2> QED BY <1>2, <2>1, LiveAre
<1>11. Steady(rows, rows')
  <2>1. \A i \in Kept(rows) : \A j \in rows[i].evidence : j \in Ids /\ rows[j].place # "purged"
    BY <1>2, LiveAre, RowIs DEF Given, Sound
  <2>2. \A j \in ev : j \in Ids /\ rows[j].place # "purged"
    <3>1. S \subseteq Kept(rows)
      BY <1>0, LiveAre
    <3> QED BY <1>2, <2>1, <3>1 DEF ev
  <2>3. \A i \in Kept(rows') : \A j \in rows'[i].evidence : rows'[j].place # "purged"
    <3> SUFFICES ASSUME NEW i \in Kept(rows'), NEW j \in rows'[i].evidence
                 PROVE  rows'[j].place # "purged"
      OBVIOUS
    <3>1. i \in Ids /\ i \in Kept(rows)
      BY <1>10, LiveAre
    <3>2. j \in Ids /\ rows[j].place # "purged"
      <4>1. CASE i = t
        BY <1>5, <1>6, <2>2, <3>1, <4>1
      <4>2. CASE i # t
        <5>1. rows'[i].evidence = rows[i].evidence
          BY <1>8, <3>1, <4>2
        <5> QED BY <2>1, <3>1, <5>1
      <4> QED BY <4>1, <4>2
    <3> QED BY <1>10, <3>2
  <2>4. Firsts(rows')
    BY <1>10 DEF Given, Firsts
  <2> QED BY <1>9, <2>3, <2>4 DEF Steady, Sound
<1>12. ASSUME Chains(rows) PROVE Chains(rows')
  <2>1. ASSUME NEW i \in Ids, rows[i].key # NoKey
        PROVE  /\ Start(rows'[i]) = Start(rows[i]) /\ rows'[i].until = rows[i].until
               /\ i \in Live(rows') => i \in Live(rows)
    <3>1. CASE i # t
      <4>1. /\ rows'[i].created = rows[i].created /\ rows'[i].from = rows[i].from
            /\ rows'[i].until = rows[i].until
        BY <1>8, <2>1, <3>1
      <4>2. i \in Live(rows') => i \in Live(rows)
        BY <1>10, <3>1
      <4> QED BY <4>1, <4>2 DEF Start
    <3>2. CASE i = t
      <4>1. \A j \in S : rows[j].from = rows[t].from /\ rows[j].until = rows[t].until
        BY <1>0, <2>1, <3>2 DEF Signature
      <4>2. {rows[j].from : j \in S} = {rows[t].from} /\ {rows[j].until : j \in S} = {rows[t].until}
        BY <1>0, <4>1
      <4>3. from = rows[t].from /\ until = rows[t].until
        BY <4>2, SharedIs DEF from, until
      <4>4. /\ rows'[t].created = rows[t].created /\ rows'[t].from = rows[t].from
            /\ rows'[t].until = rows[t].until
        BY <1>2, <1>5, <1>6, <4>3
      <4>5. t \in Live(rows)
        BY <1>0
      <4> QED BY <3>2, <4>4, <4>5 DEF Start
    <3> QED BY <3>1, <3>2
  <2>2. ASSUME NEW i \in Live(rows) \ Live(rows'), rows[i].key = NoKey
        PROVE  Links(rows[i]) = {}
    <3>1. i \in S /\ i # t /\ i \in Kept(rows) /\ t \in Kept(rows) /\ t \in Live(rows)
      BY <1>0, <1>10, <2>2, LiveAre
    <3>2. SUFFICES ASSUME Linked(rows[i]) PROVE FALSE
      BY DEF Linked, Links
    <3>3. Signature(rows[i]) = Signature(rows[t])
      BY <1>0, <3>1, <3>2
    <3>4. rows[i].sup = rows[t].sup /\ rows[i].supBy = rows[t].supBy /\ rows[t].key = NoKey
      BY <2>2, <3>3 DEF Signature
    <3>5. Meets(rows, i) /\ Meets(rows, t)
      BY <1>12, <2>2, <3>1, <3>4 DEF Chains, Paired
    <3> QED BY <3>1, <3>2, <3>4, <3>5 DEF Meets, Linked
  <2> QED BY <1>2, <1>8, <1>9, <1>10, <1>12, <2>1, <2>2, LooseKeeps
<1>13. Merges(S, t)
  <2>1. Cardinality(S) > 1 /\ t \in S
    BY <1>0
  <2>2. (\E i \in S : rows[i].key # NoKey \/ Linked(rows[i]))
          => \A i \in S : Signature(rows[i]) = Signature(rows[t])
    BY <1>0
  <2>3. \A i \in Ids : /\ rows'[i].key = rows[i].key /\ rows'[i].sup = rows[i].sup
                       /\ rows'[i].supBy = rows[i].supBy
    BY <1>8
  <2> QED BY <1>10, <2>1, <2>2, <2>3 DEF Merges
<1> QED BY <1>0, <1>11, <1>12, <1>13

\* What expiry archives had no key and no links when it was selected.
LEMMA ExpiryKeeps ==
  ASSUME Given, ArchiveExpired
  PROVE  Steady(rows, rows') /\ (Chains(rows) /\ ~cut' => Chained(rows, rows'))
<1> DEFINE archived == chosen \cap Live(rows)
<1>1. /\ rows' = [i \in Ids |-> IF i \in archived THEN [rows[i] EXCEPT !.place = "trash"]
                               ELSE rows[i]]
      /\ cut' = (cut \/ \E i \in archived : rows[i].key # NoKey \/ Linked(rows[i]))
  BY DEF ArchiveExpired
<1>2. rows \in Rows /\ archived \subseteq Ids /\ archived \subseteq Live(rows)
  BY LiveAre DEF Given, TypeOK, Rows
<1> HIDE DEF archived
<1>3. \A i \in Ids :
        /\ rows'[i] \in Row
        /\ rows'[i].key = rows[i].key /\ rows'[i].created = rows[i].created
        /\ rows'[i].sup = rows[i].sup /\ rows'[i].supBy = rows[i].supBy
        /\ rows'[i].evidence = rows[i].evidence /\ rows'[i].from = rows[i].from
        /\ rows'[i].until = rows[i].until
        /\ rows'[i].place = IF i \in archived THEN "trash" ELSE rows[i].place
  <2> SUFFICES ASSUME NEW i \in Ids
      PROVE  /\ rows'[i] \in Row
             /\ rows'[i].key = rows[i].key /\ rows'[i].created = rows[i].created
             /\ rows'[i].sup = rows[i].sup /\ rows'[i].supBy = rows[i].supBy
             /\ rows'[i].evidence = rows[i].evidence /\ rows'[i].from = rows[i].from
             /\ rows'[i].until = rows[i].until
             /\ rows'[i].place = IF i \in archived THEN "trash" ELSE rows[i].place
    OBVIOUS
  <2> DEFINE q == rows[i]  q2 == [q EXCEPT !.place = "trash"]
  <2>1. q \in Row
    BY <1>2 DEF Rows
  <2>2. /\ q2 \in Row /\ q2.key = q.key /\ q2.created = q.created /\ q2.sup = q.sup
        /\ q2.supBy = q.supBy /\ q2.evidence = q.evidence /\ q2.from = q.from
        /\ q2.until = q.until /\ q2.place = "trash"
    BY <2>1 DEF Row, Places
  <2>3. rows'[i] = IF i \in archived THEN q2 ELSE q
    BY <1>1
  <2> HIDE DEF q2
  <2> QED BY <2>1, <2>2, <2>3
<1>4. rows' \in Rows
  <2>1. rows' = [i \in Ids |-> rows'[i]]
    BY <1>1
  <2> QED BY <1>3, <2>1 DEF Rows
<1>5. Kept(rows') = Kept(rows) /\ Live(rows') = Live(rows) \ archived
  <2>1. \A i \in Ids : /\ i \in Kept(rows') <=> i \in Kept(rows)
                       /\ i \in Live(rows') <=> i \in Live(rows) \ archived
    BY <1>2, <1>3 DEF Kept, Live, Trash
  <2> QED BY <2>1, LiveAre
<1>6. Steady(rows, rows')
  <2>1. \A i \in Ids : /\ rows'[i].evidence = rows[i].evidence
                       /\ \/ rows'[i].place = rows[i].place
                          \/ i \in Kept(rows) /\ i \in Kept(rows')
    BY <1>2, <1>3, <1>5, LiveAre
  <2> QED BY <1>2, <1>4, <2>1, SteadyIs DEF Given
<1>7. ASSUME Chains(rows), ~cut' PROVE Chained(rows, rows')
  <2>1. \A i \in archived : rows[i].key = NoKey /\ Links(rows[i]) = {}
    BY <1>1, <1>7 DEF Linked, Links
  <2>2. \A i \in Ids : Start(rows'[i]) = Start(rows[i])
    BY <1>3 DEF Start
  <2>3. Chains(rows')
    BY <1>2, <1>3, <1>4, <1>5, <1>7, <2>1, <2>2, LooseKeeps
  <2>4. \A k \in Keys : Bound(rows, k) => Bound(rows', k)
    BY <1>2, <1>3, <1>4, <1>5, <2>1, LooseBound
  <2> QED BY <2>3, <2>4 DEF Chained
<1> QED BY <1>6, <1>7

-----------------------------------------------------------------------------
(* Links past purged rows *)

Passes(C, gone, link) == \A c \in C \cap gone : link[c] \in C

\* The rows that a link to "at" may lead to, of which Follow takes one.
PastRows(rs, gone, i, at, link) ==
  {j \in Kept(rs) \ (gone \cup {i}) :
     \A C \in SUBSET Link : at \in C /\ Passes(C, gone, link) => j \in C}

LEMMA FollowIs ==
  ASSUME NEW rs, NEW gone, NEW i, NEW at, NEW link
  PROVE  Follow(rs, gone, i, at, link)
           = CHOOSE j \in OneOf(PastRows(rs, gone, i, at, link)) : TRUE
BY DEF Follow, PastRows, Passes, Link

LEMMA FollowsOne ==
  ASSUME NEW rs, NEW gone, NEW i, NEW at, NEW link
  PROVE  \/ Follow(rs, gone, i, at, link) = Null
         \/ Follow(rs, gone, i, at, link) \in PastRows(rs, gone, i, at, link)
<1> DEFINE P == PastRows(rs, gone, i, at, link)
<1>1. OneOf(P) # {} /\ OneOf(P) \subseteq P \cup {Null}
  BY DEF OneOf
<1>2. (CHOOSE j \in OneOf(P) : TRUE) \in OneOf(P)
  BY <1>1
<1> QED BY <1>1, <1>2, FollowIs

\* What Follow returns is in every set that the links do not leave.
LEMMA FollowIn ==
  ASSUME NEW rs, NEW gone, NEW i, NEW at, NEW link,
         NEW C \in SUBSET Link, at \in C, Passes(C, gone, link),
         NEW j, j = Follow(rs, gone, i, at, link), j # Null
  PROVE  j \in C /\ j \in Kept(rs) \ (gone \cup {i})
BY FollowsOne DEF PastRows

\* Between rows that link to each other, who is followed past purged ones leads
\* back by the other link.
LEMMA FollowBack ==
  ASSUME NEW rs, NEW gone \in SUBSET Ids, NEW N \in SUBSET Kept(rs), NEW f, NEW g,
         \A c \in N : f[c] = Null \/ (f[c] \in N /\ g[f[c]] = c),
         \A c \in N : g[c] = Null \/ (g[c] \in N /\ f[g[c]] = c),
         NEW i \in N \ gone, f[i] \in gone,
         NEW j, j = Follow(rs, gone, i, f[i], f), j # Null
  PROVE  j \in N \ gone /\ g[j] \in gone /\ Follow(rs, gone, j, g[j], g) = i
<1> DEFINE a == f[i]
           R == {x \in Link : \A C \in SUBSET Link : a \in C /\ Passes(C, gone, f) => x \in C}
           B == {c \in R : c = a \/ c = Null \/ (c \in N /\ g[c] \in gone \cap R)}
<1>1. /\ a \in N /\ g[a] = i /\ a \in Ids /\ N \subseteq Ids /\ Null \notin Ids
      /\ i \in Ids /\ i \in Kept(rs) /\ i \notin gone
  BY LiveAre
<1>2. a \in R /\ R \subseteq Link /\ \A c \in R \cap gone : f[c] \in R
  <2>1. a \in R
    BY <1>1 DEF Link
  <2>2. \A c \in R \cap gone : c = a \/ c \in Link
    OBVIOUS
  <2>3. ASSUME NEW c \in R \cap gone PROVE f[c] \in R
    <3>1. ASSUME NEW C \in SUBSET Link, a \in C, Passes(C, gone, f) PROVE f[c] \in C
      <4>1. c \in C
        BY <2>3, <3>1
      <4> QED BY <2>3, <3>1, <4>1 DEF Passes
    <3>2. f[c] \in Link
      <4>1. Link \in SUBSET Link
        OBVIOUS
      <4> DEFINE L == N \cup {Null}
      <4>2. L \in SUBSET Link /\ a \in L
        BY <1>1 DEF Link
      <4>3. Passes(L, gone, f)
        BY <1>1 DEF Passes
      <4> HIDE DEF L
      <4>4. f[c] \in L
        BY <3>1, <4>2, <4>3
      <4> QED BY <4>2, <4>4
    <3> QED BY <3>1, <3>2
  <2> QED BY <2>1, <2>3
<1> HIDE DEF R
<1>3. B \in SUBSET Link /\ a \in B /\ Passes(B, gone, f)
  <2>1. B \in SUBSET Link /\ a \in B
    BY <1>2
  <2>2. ASSUME NEW c \in B \cap gone PROVE f[c] \in B
    <3>1. c \in N /\ c \in R \cap gone
      BY <1>1, <2>2
    <3>2. f[c] \in R
      BY <1>2, <3>1
    <3>3. f[c] # Null => f[c] \in N /\ g[f[c]] = c
      BY <3>1
    <3> QED BY <3>1, <3>2, <3>3
  <2> QED BY <2>1, <2>2 DEF Passes
<1>4. j \in B /\ j \in Kept(rs) \ (gone \cup {i})
  <2> HIDE DEF B
  <2> QED BY <1>3, FollowIn
<1>5. j \in N \ gone /\ g[j] \in gone \cap R /\ g[j] \in N
  BY <1>1, <1>4
<1> DEFINE P == PastRows(rs, gone, j, g[j], g)
<1>6. i \in P
  <2> SUFFICES ASSUME NEW C \in SUBSET Link, g[j] \in C, Passes(C, gone, g)
               PROVE  i \in C
    BY <1>1, <1>4 DEF PastRows
  <2> DEFINE D == {c \in Link : c = Null \/ (c \in N /\ (g[c] \in C => i \in C))}
  <2>1. D \in SUBSET Link /\ a \in D
    BY <1>1 DEF Link
  <2>2. ASSUME NEW c \in D \cap gone PROVE f[c] \in D
    <3>1. c \in N /\ (g[c] \in C => i \in C)
      BY <1>1, <2>2
    <3>2. CASE f[c] = Null
      BY <3>2 DEF Link
    <3>3. CASE f[c] # Null
      <4>1. f[c] \in N /\ g[f[c]] = c /\ f[c] \in Link
        BY <1>1, <3>1, <3>3 DEF Link
      <4>2. c \in C => i \in C
        BY <2>2, <3>1 DEF Passes
      <4> QED BY <4>1, <4>2
    <3> QED BY <3>2, <3>3
  <2>3. Passes(D, gone, f)
    BY <2>2 DEF Passes
  <2> HIDE DEF D
  <2>4. j \in D
    BY <2>1, <2>3, FollowIn
  <2> QED BY <1>1, <1>5, <2>4 DEF D
<1>7. P \subseteq {i}
  <2> DEFINE E == {i} \cup (gone \cap N \cap R)
  <2>1. E \in SUBSET Link /\ g[j] \in E
    BY <1>1, <1>2, <1>5 DEF Link
  <2>2. ASSUME NEW c \in E \cap gone PROVE g[c] \in E
    <3>1. c \in gone \cap N \cap R
      BY <1>1, <2>2
    <3>2. c \in B
      <4>1. ASSUME NEW C \in SUBSET Link, a \in C, Passes(C, gone, f) PROVE c \in C
        BY <3>1, <4>1 DEF R
      <4> QED BY <1>3, <4>1
    <3>3. c = a \/ g[c] \in gone \cap R
      BY <1>1, <3>1, <3>2
    <3>4. CASE c = a
      BY <1>1, <3>4
    <3>5. CASE g[c] \in gone \cap R
      <4>1. g[c] \in N
        BY <1>1, <3>1, <3>5
      <4> QED BY <3>5, <4>1
    <3> QED BY <3>3, <3>4, <3>5
  <2>3. Passes(E, gone, g)
    BY <2>2 DEF Passes
  <2>4. \A x \in P : x \in E /\ x \notin gone
    <3> HIDE DEF E
    <3> QED BY <2>1, <2>3 DEF PastRows
  <2> QED BY <2>4
<1>8. OneOf(P) = {i}
  BY <1>6, <1>7 DEF OneOf
<1>9. (CHOOSE x \in OneOf(P) : TRUE) = i
  BY <1>8
<1> QED BY <1>5, <1>9, FollowIs

-----------------------------------------------------------------------------
(* Purges *)

LEMMA DependentsAre ==
  ASSUME NEW rs, NEW S \in SUBSET Trash(rs)
  PROVE  /\ Dependents(rs, S) \subseteq Kept(rs)
         /\ \A i \in Kept(rs) : rs[i].evidence \cap Dependents(rs, S) # {}
                                  => i \in Dependents(rs, S)
<1> DEFINE D == Dependents(rs, S)
<1>1. D \subseteq Kept(rs)
  BY LiveAre DEF Dependents
<1>2. ASSUME NEW i \in Kept(rs), NEW x \in rs[i].evidence, x \in D PROVE i \in D
  <2>1. ASSUME NEW T \in SUBSET Kept(rs), S \subseteq T, HoldsDependents(rs, T) PROVE i \in T
    <3>1. x \in T
      BY <1>2, <2>1 DEF Dependents
    <3> QED BY <1>2, <2>1, <3>1 DEF HoldsDependents
  <2> QED BY <1>2, <2>1 DEF Dependents
<1> QED BY <1>1, <1>2

Past(rs, gone, i, link) ==
  IF link[i] \in gone THEN Follow(rs, gone, i, link[i], link) ELSE link[i]

Sup(rs) == [i \in Ids |-> rs[i].sup]
SupBy(rs) == [i \in Ids |-> rs[i].supBy]

LEMMA PastIn ==
  ASSUME NEW rs, NEW gone, NEW i, NEW link, NEW C \in SUBSET Link,
         link[i] \in C, Passes(C, gone, link), Null \notin gone
  PROVE  \/ Past(rs, gone, i, link) = Null
         \/ Past(rs, gone, i, link) \in C \ gone
BY FollowIn DEF Past

LEMMA PurgeIs ==
  ASSUME NEW rs \in Rows, NEW S \in SUBSET Trash(rs), NEW rs2, rs2 = Purge(rs, S),
         NEW gone, gone = Dependents(rs, S)
  PROVE  /\ rs2 \in Rows
         /\ \A i \in gone : rs2[i].place = "purged"
         /\ \A i \in Ids \ gone :
              /\ Kin(rs[i], rs2[i]) /\ rs2[i].until = rs[i].until
              /\ rs2[i].sup = Past(rs, gone, i, Sup(rs))
              /\ rs2[i].supBy = Past(rs, gone, i, SupBy(rs))
<1>1. rs2 = [i \in Ids |->
               IF i \in gone THEN [Absent EXCEPT !.place = "purged"]
               ELSE [rs[i] EXCEPT !.sup = Past(rs, gone, i, Sup(rs)),
                                  !.supBy = Past(rs, gone, i, SupBy(rs))]]
  BY DEF Purge, Past, Sup, SupBy
<1>2. [Absent EXCEPT !.place = "purged"] \in Row
  BY DEF Absent, Row, Places
<1>3. gone \subseteq Ids /\ Null \notin gone
  BY DependentsAre, LiveAre
<1>4. ASSUME NEW i \in Ids
      PROVE  Past(rs, gone, i, Sup(rs)) \in Link /\ Past(rs, gone, i, SupBy(rs)) \in Link
  <2>1. \A c \in Ids : Sup(rs)[c] \in Link /\ SupBy(rs)[c] \in Link
    BY RowIs DEF Rows, Sup, SupBy
  <2>2. Passes(Link, gone, Sup(rs)) /\ Passes(Link, gone, SupBy(rs))
    BY <1>3, <2>1 DEF Passes
  <2>3. Link \in SUBSET Link /\ Null \in Link
    BY DEF Link
  <2> QED BY <1>3, <2>1, <2>2, <2>3, PastIn
<1> DEFINE p(i) == Past(rs, gone, i, Sup(rs))  q(i) == Past(rs, gone, i, SupBy(rs))
<1>5. \A i \in Ids : p(i) \in Link /\ q(i) \in Link
  BY <1>4
<1>6. rs2 = [i \in Ids |-> IF i \in gone THEN [Absent EXCEPT !.place = "purged"]
                           ELSE [rs[i] EXCEPT !.sup = p(i), !.supBy = q(i)]]
  BY <1>1
<1> HIDE DEF p, q
<1>7. ASSUME NEW i \in Ids \ gone
      PROVE  /\ rs2[i] \in Row /\ Kin(rs[i], rs2[i]) /\ rs2[i].until = rs[i].until
             /\ rs2[i].sup = p(i) /\ rs2[i].supBy = q(i)
  <2> DEFINE r == rs[i]
  <2>1. r \in Row /\ p(i) \in Link /\ q(i) \in Link
    BY <1>5 DEF Rows
  <2>2. rs2[i] = [r EXCEPT !.sup = p(i), !.supBy = q(i)]
    BY <1>6
  <2> HIDE DEF r
  <2>3. /\ rs2[i] \in Row /\ Kin(r, rs2[i]) /\ rs2[i].until = r.until
        /\ rs2[i].sup = p(i) /\ rs2[i].supBy = q(i)
    BY <2>1, <2>2 DEF Row, Kin, Link
  <2> QED BY <2>3 DEF r
<1>8. \A i \in gone : rs2[i] = [Absent EXCEPT !.place = "purged"] /\ rs2[i].place = "purged"
  BY <1>3, <1>6 DEF Absent
<1>9. rs2 \in Rows
  <2>1. \A i \in Ids : rs2[i] \in Row
    BY <1>2, <1>7, <1>8
  <2>2. rs2 = [i \in Ids |-> rs2[i]]
    BY <1>6
  <2> QED BY <2>1, <2>2 DEF Rows
<1> QED BY <1>7, <1>8, <1>9 DEF p, q

LEMMA PastBack ==
  ASSUME NEW rs, NEW gone \in SUBSET Ids, NEW N \in SUBSET Kept(rs), NEW f, NEW g,
         \A c \in N : f[c] = Null \/ (f[c] \in N /\ g[f[c]] = c),
         \A c \in N : g[c] = Null \/ (g[c] \in N /\ f[g[c]] = c),
         NEW i \in N \ gone, NEW x, x = Past(rs, gone, i, f), x # Null
  PROVE  x \in N \ gone /\ Past(rs, gone, x, g) = i
<1>1. CASE f[i] \in gone
  <2>1. x = Follow(rs, gone, i, f[i], f)
    BY <1>1 DEF Past
  <2>2. x \in N \ gone /\ g[x] \in gone /\ Follow(rs, gone, x, g[x], g) = i
    BY <1>1, <2>1, FollowBack
  <2> QED BY <2>2 DEF Past
<1>2. CASE f[i] \notin gone
  BY <1>2 DEF Past
<1> QED BY <1>1, <1>2

\* The links of a set of rows that lead nowhere else lead nowhere else afterwards.
LEMMA PastLinks ==
  ASSUME NEW rs \in Rows, NEW gone \in SUBSET Ids, NEW G \in SUBSET Ids,
         \A i \in G : Links(rs[i]) \subseteq G,
         NEW i \in G, NEW r, r.sup = Past(rs, gone, i, Sup(rs)),
         r.supBy = Past(rs, gone, i, SupBy(rs))
  PROVE  Links(r) \subseteq G \ gone
<1> DEFINE C == G \cup {Null}
<1>1. \A c \in G : Sup(rs)[c] \in C /\ SupBy(rs)[c] \in C
  BY DEF Sup, SupBy, Links
<1>2. C \in SUBSET Link /\ Null \notin gone
  BY DEF Link
<1>3. Passes(C, gone, Sup(rs)) /\ Passes(C, gone, SupBy(rs))
  BY <1>1 DEF Passes
<1>4. Sup(rs)[i] \in C /\ SupBy(rs)[i] \in C
  BY <1>1
<1> HIDE DEF C
<1>5. /\ r.sup = Null \/ r.sup \in C \ gone
      /\ r.supBy = Null \/ r.supBy \in C \ gone
  BY <1>2, <1>3, <1>4, PastIn
<1> QED BY <1>5 DEF C, Links

LEMMA PurgeKeeps ==
  ASSUME Given, purge_archived_memory
  PROVE  Stays
<1>1. PICK S \in SUBSET Trash(rows) : rows' = Purge(rows, S)
  BY DEF purge_archived_memory
<1> DEFINE gone == Dependents(rows, S)
<1>2. /\ rows \in Rows /\ gone \subseteq Kept(rows) /\ gone \in SUBSET Ids
      /\ \A i \in Kept(rows) : rows[i].evidence \cap gone # {} => i \in gone
  BY DependentsAre, LiveAre DEF Given, TypeOK, Rows
<1> HIDE DEF gone
<1>3. /\ rows' \in Rows
      /\ \A i \in gone : rows'[i].place = "purged"
      /\ \A i \in Ids \ gone :
           /\ Kin(rows[i], rows'[i]) /\ rows'[i].until = rows[i].until
           /\ rows'[i].sup = Past(rows, gone, i, Sup(rows))
           /\ rows'[i].supBy = Past(rows, gone, i, SupBy(rows))
  BY <1>1, <1>2, PurgeIs DEF gone
<1>4. /\ Kept(rows') = Kept(rows) \ gone /\ Live(rows') = Live(rows) \ gone
      /\ \A i \in Ids \ gone : rows'[i].place = rows[i].place /\ rows'[i].key = rows[i].key
  <2>1. \A i \in Ids : /\ i \in Kept(rows') <=> i \in Kept(rows) \ gone
                       /\ i \in Live(rows') <=> i \in Live(rows) \ gone
    BY <1>3 DEF Kin, Kept, Live, Trash
  <2> QED BY <1>3, <2>1, LiveAre DEF Kin
<1>5. Steady(rows, rows')
  <2>1. Sound(rows')
    <3> SUFFICES ASSUME NEW i \in Kept(rows'), NEW j \in rows'[i].evidence
                 PROVE  rows'[j].place # "purged"
      BY DEF Sound
    <3>1. i \in Kept(rows) /\ i \notin gone /\ i \in Ids /\ rows'[i].evidence = rows[i].evidence
      BY <1>3, <1>4, LiveAre DEF Kin
    <3>2. j \in Ids /\ rows[j].place # "purged" /\ j \notin gone
      BY <1>2, <3>1, RowIs DEF Given, Sound, Rows
    <3> QED BY <1>4, <3>2
  <2>2. Firsts(rows')
    <3> SUFFICES ASSUME NEW i \in Ids, NEW j \in Ids, i < j, rows'[j].place # "none"
                 PROVE  rows'[i].place # "none"
      BY DEF Firsts
    <3>1. rows[j].place # "none"
      BY <1>2, <1>4 DEF Kept, Live, Trash
    <3>2. rows[i].place # "none"
      BY <3>1 DEF Given, Firsts
    <3> QED BY <1>3, <1>4, <3>2
  <2> QED BY <1>3, <2>1, <2>2 DEF Steady
<1>6. ASSUME Chains(rows) PROVE Paired(rows')
  <2> DEFINE N == {i \in Live(rows) : rows[i].key = NoKey}
             f == Sup(rows)  g == SupBy(rows)
  <2>1. N \in SUBSET Kept(rows) /\ N \subseteq Ids /\ Null \notin gone
    BY <1>2, LiveAre
  <2>2. \A c \in N : /\ f[c] = Null \/ (f[c] \in N /\ g[f[c]] = c /\ f[c] < c)
                     /\ g[c] = Null \/ (g[c] \in N /\ f[g[c]] = c /\ c < g[c])
    <3> SUFFICES ASSUME NEW c \in N
                 PROVE  /\ f[c] = Null \/ (f[c] \in N /\ g[f[c]] = c /\ f[c] < c)
                        /\ g[c] = Null \/ (g[c] \in N /\ f[g[c]] = c /\ c < g[c])
      OBVIOUS
    <3>1. Meets(rows, c)
      BY <1>6, <2>1 DEF Chains, Paired
    <3> QED BY <2>1, <3>1, LiveAre DEF Meets, Sup, SupBy
  <2> HIDE DEF N, f, g
  <2>3. \A c \in Ids : f[c] = rows[c].sup /\ g[c] = rows[c].supBy
    BY DEF f, g, Sup, SupBy
  <2>4. \A i \in Ids \ gone : /\ rows'[i].sup = Past(rows, gone, i, f)
                              /\ rows'[i].supBy = Past(rows, gone, i, g)
    BY <1>3 DEF f, g
  <2>5. /\ \A c \in N : f[c] = Null \/ (f[c] \in N /\ g[f[c]] = c)
        /\ \A c \in N : g[c] = Null \/ (g[c] \in N /\ f[g[c]] = c)
    BY <2>2
  <2>6. ASSUME NEW i \in N \ gone, rows'[i].sup # Null
        PROVE  /\ rows'[i].sup \in N \ gone /\ rows'[rows'[i].sup].supBy = i
               /\ rows'[i].sup < i
    <3> DEFINE x == rows'[i].sup
    <3>1. x = Past(rows, gone, i, f)
      BY <2>1, <2>4
    <3>2. x \in N \ gone /\ Past(rows, gone, x, g) = i
      <4> HIDE DEF x
      <4>1. x # Null
        BY <2>6 DEF x
      <4>2. gone \in SUBSET Ids /\ N \in SUBSET Kept(rows)
        BY <1>2, <2>1
      <4> QED BY <2>5, <3>1, <4>1, <4>2, PastBack
    <3>3. rows'[x].supBy = i
      BY <2>1, <2>4, <3>2
    <3>4. x < i
      <4> DEFINE C == {c \in N : c < i} \cup {Null}
      <4>1. C \in SUBSET Link
        BY <2>1 DEF Link
      <4>2. f[i] \in C
        BY <2>2
      <4>3. Passes(C, gone, f)
        <5> SUFFICES ASSUME NEW c \in C \cap gone PROVE f[c] \in C
          BY DEF Passes
        <5>1. c \in N /\ c < i /\ c \in Nat /\ i \in Nat
          BY <2>1
        <5>2. f[c] = Null \/ (f[c] \in N /\ f[c] < c /\ f[c] \in Nat)
          <6>1. f[c] # Null => f[c] \in N /\ f[c] < c
            BY <2>2, <5>1
          <6>2. \A y \in N : y \in Nat
            BY <2>1
          <6> QED BY <6>1, <6>2
        <5> QED BY <5>1, <5>2
      <4> HIDE DEF C, x
      <4>4. x = Null \/ x \in C \ gone
        BY <2>1, <3>1, <4>1, <4>2, <4>3, PastIn
      <4> QED BY <2>6, <4>4 DEF C, x
    <3> QED BY <3>2, <3>3, <3>4
  <2>7. ASSUME NEW i \in N \ gone, rows'[i].supBy # Null
        PROVE  /\ rows'[i].supBy \in N \ gone /\ rows'[rows'[i].supBy].sup = i
               /\ i < rows'[i].supBy
    <3> DEFINE x == rows'[i].supBy
    <3>1. x = Past(rows, gone, i, g)
      BY <2>1, <2>4
    <3>2. x \in N \ gone /\ Past(rows, gone, x, f) = i
      <4> HIDE DEF x
      <4>1. x # Null
        BY <2>7 DEF x
      <4>2. gone \in SUBSET Ids /\ N \in SUBSET Kept(rows)
        BY <1>2, <2>1
      <4> QED BY <2>5, <3>1, <4>1, <4>2, PastBack
    <3>3. rows'[x].sup = i
      BY <2>1, <2>4, <3>2
    <3>4. i < x
      <4> DEFINE C == {c \in N : i < c} \cup {Null}
      <4>1. C \in SUBSET Link
        BY <2>1 DEF Link
      <4>2. g[i] \in C
        BY <2>2
      <4>3. Passes(C, gone, g)
        <5> SUFFICES ASSUME NEW c \in C \cap gone PROVE g[c] \in C
          BY DEF Passes
        <5>1. c \in N /\ i < c /\ c \in Nat /\ i \in Nat
          BY <2>1
        <5>2. g[c] = Null \/ (g[c] \in N /\ c < g[c] /\ g[c] \in Nat)
          <6>1. g[c] # Null => g[c] \in N /\ c < g[c]
            BY <2>2, <5>1
          <6>2. \A y \in N : y \in Nat
            BY <2>1
          <6> QED BY <6>1, <6>2
        <5> QED BY <5>1, <5>2
      <4> HIDE DEF C, x
      <4>4. x = Null \/ x \in C \ gone
        BY <2>1, <3>1, <4>1, <4>2, <4>3, PastIn
      <4> QED BY <2>7, <4>4 DEF C, x
    <3> QED BY <3>2, <3>3, <3>4
  <2> SUFFICES ASSUME NEW i \in Kept(rows'), rows'[i].key = NoKey
               PROVE  IF i \in Live(rows') THEN Meets(rows', i) ELSE Links(rows'[i]) = {}
    BY DEF Paired
  <2>8. i \in Ids \ gone /\ i \in Kept(rows) /\ rows[i].key = NoKey
    BY <1>4, LiveAre
  <2>9. CASE i \in Live(rows')
    <3>1. i \in N \ gone
      BY <1>4, <2>8, <2>9 DEF N
    <3>2. \A x \in N \ gone : x \in Live(rows') /\ rows'[x].key = NoKey
      BY <1>4, <2>1 DEF N
    <3> QED BY <2>6, <2>7, <2>9, <3>1, <3>2 DEF Meets
  <2>10. CASE i \notin Live(rows')
    <3>1. i \notin Live(rows)
      BY <1>4, <2>8, <2>10
    <3>2. Links(rows[i]) = {}
      BY <1>6, <2>8, <3>1 DEF Chains, Paired
    <3>3. f[i] = Null /\ g[i] = Null
      BY <2>3, <2>8, <3>2 DEF Links
    <3>4. rows'[i].sup = Null /\ rows'[i].supBy = Null
      BY <2>1, <2>4, <2>8, <3>3 DEF Past
    <3> QED BY <2>10, <3>4 DEF Links
  <2> QED BY <2>9, <2>10
<1>7. ASSUME NEW k \in Keys
      PROVE  /\ Tied(rows, k) => Tied(rows', k)
             /\ Apart(rows, k) => Apart(rows', k)
             /\ Bound(rows, k) => Bound(rows', k)
  <2>1. OfKey(rows', k) = OfKey(rows, k) \ gone /\ OfKey(rows, k) \subseteq Ids
    <3>1. \A i \in Ids : i \in OfKey(rows', k) <=> i \in OfKey(rows, k) \ gone
      BY <1>4, OfKeyIs
    <3> QED BY <3>1, OfKeyIs, LiveAre
  <2>2. ASSUME NEW G \in SUBSET Ids, \A i \in G : Links(rows[i]) \subseteq G
        PROVE  \A i \in G \ gone : Links(rows'[i]) \subseteq G \ gone
    BY <1>2, <1>3, <2>2, PastLinks
  <2>3. ASSUME Tied(rows, k) PROVE Tied(rows', k)
    <3>1. PICK G \in SUBSET Kept(rows) :
            OfKey(rows, k) \subseteq G /\ \A i \in G : rows[i].key = k /\ Links(rows[i]) \subseteq G
      BY <2>3 DEF Tied
    <3>2. G \in SUBSET Ids
      BY LiveAre
    <3>3. G \ gone \in SUBSET Kept(rows') /\ OfKey(rows', k) \subseteq G \ gone
      BY <1>4, <2>1, <3>1
    <3>4. \A i \in G \ gone : rows'[i].key = k /\ Links(rows'[i]) \subseteq G \ gone
      BY <1>4, <2>2, <3>1, <3>2
    <3> QED BY <3>3, <3>4 DEF Tied
  <2>4. ASSUME Apart(rows, k) PROVE Apart(rows', k)
    <3>1. \A i \in OfKey(rows', k) : Start(rows'[i]) = Start(rows[i]) /\ rows'[i].until = rows[i].until
      BY <1>3, <2>1 DEF Kin, Start
    <3> QED BY <2>1, <2>4, <3>1 DEF Apart, Overlap
  <2>5. Bound(rows, k) => Bound(rows', k)
    BY <2>1, <2>2 DEF Bound
  <2> QED BY <2>3, <2>4, <2>5
<1> QED BY <1>5, <1>6, <1>7 DEF Stays, Chained, Chains

-----------------------------------------------------------------------------
(* Every step *)

LEMMA OthersTyped ==
  ASSUME TypeOK, [Next]_vars
  PROVE  now' \in Instants /\ chosen' \subseteq Ids /\ edits' \in 0..MaxEdits /\ cut' \in BOOLEAN
<1>1. now \in 0..MaxTime /\ (now < MaxTime => now + 1 \in 0..MaxTime)
  BY DEF TypeOK
<1>2. edits \in 0..MaxEdits /\ (edits < MaxEdits => edits + 1 \in 0..MaxEdits)
  BY DEF TypeOK
<1>3. chosen \subseteq Ids /\ cut \in BOOLEAN
  BY DEF TypeOK
<1>4. CASE UNCHANGED vars
  BY <1>1, <1>2, <1>3, <1>4 DEF vars
<1>5. CASE create_memory
  BY <1>1, <1>2, <1>3, <1>5 DEF create_memory
<1>6. CASE update_memory
  BY <1>1, <1>2, <1>3, <1>6 DEF update_memory, Edit
<1>7. CASE archive_memory
  BY <1>1, <1>2, <1>3, <1>7 DEF archive_memory, Edit
<1>8. CASE restore_memory
  BY <1>1, <1>2, <1>3, <1>8 DEF restore_memory, Edit
<1>9. CASE restore_temporal_memory
  BY <1>1, <1>2, <1>3, <1>9 DEF restore_temporal_memory, Edit
<1>10. CASE merge_memories
  BY <1>1, <1>2, <1>3, <1>10 DEF merge_memories, Edit
<1>11. CASE purge_archived_memory
  BY <1>1, <1>2, <1>3, <1>11 DEF purge_archived_memory, Edit
<1>12. CASE SelectExpired
  BY <1>1, <1>2, <1>3, <1>12, LiveAre DEF SelectExpired, Edit
<1>13. CASE ArchiveExpired
  BY <1>1, <1>2, <1>3, <1>13 DEF ArchiveExpired
<1>14. CASE Tick
  BY <1>1, <1>2, <1>3, <1>14 DEF Tick
<1> QED BY <1>4, <1>5, <1>6, <1>7, <1>8, <1>9, <1>10, <1>11, <1>12, <1>13, <1>14 DEF Next

\* Only expiry cuts a chain, and only a merge leaves a link that dangles.
LEMMA NextKeeps ==
  ASSUME Given, [Next]_vars
  PROVE  /\ Steady(rows, rows')
         /\ cut => cut'
         /\ Chains(rows) /\ ~cut' => Chains(rows')
         /\ Chains(rows) /\ ~cut' /\ ~merge_memories =>
              \A k \in Keys : Bound(rows, k) => Bound(rows', k)
<1>1. CASE rows' = rows /\ cut' = cut
  BY <1>1 DEF Given, TypeOK, Rows, Steady
<1>2. CASE Stays /\ cut' = cut
  BY <1>2 DEF Stays, Chained
<1>3. CASE UNCHANGED vars
  BY <1>1, <1>3 DEF vars
<1>4. CASE create_memory
  BY <1>2, <1>4, CreateKeeps DEF create_memory
<1>5. CASE update_memory
  BY <1>2, <1>5, UpdateKeeps DEF update_memory
<1>6. CASE archive_memory
  BY <1>2, <1>6, ArchiveKeeps DEF archive_memory
<1>7. CASE restore_memory
  BY <1>2, <1>7, RestoreKeeps DEF restore_memory
<1>8. CASE restore_temporal_memory
  BY <1>2, <1>8, RestoreTemporalKeeps DEF restore_temporal_memory
<1>9. CASE merge_memories
  <2>1. cut' = cut
    BY <1>9 DEF merge_memories
  <2> QED BY <1>9, <2>1, MergeKeeps
<1>10. CASE purge_archived_memory
  BY <1>2, <1>10, PurgeKeeps DEF purge_archived_memory
<1>11. CASE SelectExpired
  BY <1>1, <1>11 DEF SelectExpired
<1>12. CASE ArchiveExpired
  <2>1. cut => cut'
    BY <1>12 DEF ArchiveExpired
  <2> QED BY <1>12, <2>1, ExpiryKeeps DEF Chained
<1>13. CASE Tick
  BY <1>1, <1>13 DEF Tick
<1> QED BY <1>3, <1>4, <1>5, <1>6, <1>7, <1>8, <1>9, <1>10, <1>11, <1>12, <1>13 DEF Next

IInv == Given /\ (~cut => Chains(rows))

LEMMA InitHolds ==
  ASSUME Init
  PROVE  IInv
<1>1. Absent \in Row /\ Absent.place = "none"
  BY DEF Absent, Row, Places
<1>2. rows \in Rows /\ \A i \in Ids : rows[i].place = "none"
  BY <1>1 DEF Init, Rows
<1>3. Kept(rows) = {} /\ Live(rows) = {} /\ \A k : OfKey(rows, k) = {}
  BY <1>2 DEF Kept, Live, Trash, OfKey
<1>4. TypeOK
  <2>1. 0 \in Instants /\ 0 \in 0..MaxEdits
    OBVIOUS
  <2>2. now = 0 /\ chosen = {} /\ edits = 0 /\ cut = FALSE
    BY DEF Init
  <2> QED BY <1>2, <2>1, <2>2 DEF TypeOK, Rows
<1>5. Sound(rows) /\ Firsts(rows)
  BY <1>2, <1>3 DEF Sound, Firsts
<1>6. \A k \in Keys : Tied(rows, k) /\ Apart(rows, k)
  <2>1. {} \in SUBSET Kept(rows)
    OBVIOUS
  <2> QED BY <1>3, <2>1 DEF Tied, Apart
<1>7. Paired(rows)
  BY <1>3 DEF Paired
<1> QED BY <1>4, <1>5, <1>6, <1>7 DEF IInv, Given, Chains

LEMMA StepHolds ==
  ASSUME IInv, [Next]_vars
  PROVE  IInv'
<1>1. /\ Steady(rows, rows') /\ (cut => cut')
      /\ Chains(rows) /\ ~cut' => Chains(rows')
  BY NextKeeps DEF IInv
<1>2. TypeOK'
  <2>1. now' \in Instants /\ chosen' \subseteq Ids /\ edits' \in 0..MaxEdits /\ cut' \in BOOLEAN
    BY OthersTyped DEF IInv, Given
  <2>2. rows' \in [Ids -> Row]
    BY <1>1 DEF Steady, Rows
  <2> QED BY <2>1, <2>2 DEF TypeOK
<1>3. Sound(rows)' /\ Firsts(rows)'
  BY <1>1 DEF Steady, Sound, Firsts, Kept, Live, Trash
<1>4. ~cut' => Chains(rows')
  BY <1>1 DEF IInv
<1>5. Chains(rows') = Chains(rows)'
  BY DEF Chains, Paired, Meets, Tied, Apart, OfKey, Kept, Live, Trash, Links, Overlap, Start
<1> QED BY <1>2, <1>3, <1>4, <1>5 DEF IInv, Given

LEMMA Holds == Spec => []IInv
BY InitHolds, StepHolds, PTL DEF Spec

-----------------------------------------------------------------------------
(* The theorems *)

\* Type correctness.
THEOREM Types == Spec => []TypeOK
<1>1. IInv => TypeOK
  BY DEF IInv, Given
<1> QED BY <1>1, Holds, PTL

\* Two live facts of one key never hold at the same time (temporal.py), as long as
\* expiry has archived only rows without a key and a chain.
THEOREM NoOverlap == Spec => []FactsDontOverlap
<1>1. IInv => FactsDontOverlap
  <2> SUFFICES ASSUME IInv, ~cut, NEW i \in Live(rows), NEW j \in Live(rows),
                      i # j, rows[i].key = rows[j].key, rows[i].key # NoKey
               PROVE  ~Overlap(rows[i], rows[j])
    BY DEF FactsDontOverlap
  <2>1. rows[i].key \in Keys
    BY LiveAre, RowIs DEF IInv, Given, TypeOK
  <2>2. i \in OfKey(rows, rows[i].key) /\ j \in OfKey(rows, rows[i].key)
    BY <2>1, OfKeyIs
  <2> QED BY <2>1, <2>2 DEF IInv, Chains, Apart
<1> QED BY <1>1, Holds, PTL

\* Without a key, one row replaced another exactly if that one was replaced by it,
\* whatever was cut and joined (_unlink_keyless).
THEOREM Pairs == Spec => []LinksArePaired
<1>1. IInv => LinksArePaired
  <2> SUFFICES ASSUME IInv, ~cut, NEW i \in Live(rows), NEW j \in Live(rows),
                      rows[i].key = NoKey
               PROVE  rows[i].supBy = j <=> rows[j].sup = i /\ rows[j].key = NoKey
    BY DEF LinksArePaired
  <2>1. i \in Ids /\ j \in Ids
    BY LiveAre
  <2>2. Meets(rows, i) /\ (rows[j].key = NoKey => Meets(rows, j))
    BY LiveAre DEF IInv, Chains, Paired
  <2> QED BY <2>1, <2>2 DEF Meets
<1> QED BY <1>1, Holds, PTL

\* No row that is kept rests on evidence that was purged (purge_ops.py).
THEOREM PurgesReachAll == Spec => []PurgeReachesAll
<1>1. IInv => PurgeReachesAll
  BY DEF IInv, Given, Sound, PurgeReachesAll
<1> QED BY <1>1, Holds, PTL

Undangling(rs) ==
  \A i \in Live(rs) : \A j \in {rs[i].sup, rs[i].supBy} \ {Null} :
    j \in Live(rs) /\ rs[j].key = rs[i].key

LEMMA UndanglingIs ==
  ASSUME NEW rs \in Rows, Paired(rs)
  PROVE  Undangling(rs) <=> \A k \in Keys : Bound(rs, k)
<1>1. ASSUME Undangling(rs), NEW k \in Keys PROVE Bound(rs, k)
  <2> SUFFICES ASSUME NEW i \in OfKey(rs, k), NEW j \in Links(rs[i]) PROVE j \in OfKey(rs, k)
    BY DEF Bound
  <2>1. i \in Live(rs) /\ rs[i].key = k
    BY OfKeyIs
  <2> QED BY <1>1, <2>1, OfKeyIs DEF Undangling, Links
<1>2. ASSUME \A k \in Keys : Bound(rs, k) PROVE Undangling(rs)
  <2> SUFFICES ASSUME NEW i \in Live(rs), NEW j \in Links(rs[i])
               PROVE  j \in Live(rs) /\ rs[j].key = rs[i].key
    BY DEF Undangling, Links
  <2>1. CASE rs[i].key = NoKey
    <3>1. Meets(rs, i)
      BY <2>1, LiveAre DEF Paired
    <3> QED BY <2>1, <3>1 DEF Meets, Links
  <2>2. CASE rs[i].key # NoKey
    <3>1. rs[i].key \in Keys
      BY <2>2, LiveAre, RowIs DEF Rows
    <3> QED BY <1>2, <3>1, OfKeyIs DEF Bound
  <2> QED BY <2>1, <2>2
<1> QED BY <1>1, <1>2

\* Facts that are merged hold at the same time or one of them never holds, and
\* rows without a key that are merged have no links.
LEMMA MergeSheds ==
  ASSUME Given, Chains(rows), merge_memories, Undangling(rows),
         \A i \in Live(rows) : rows[i].key # NoKey => ~Timeless(rows[i])
  PROVE  Undangling(rows')
<1>1. PICK S \in SUBSET Live(rows), t \in Live(rows) : Merges(S, t)
  BY MergeKeeps
<1>2. /\ Live(rows) \subseteq Ids /\ \A i \in Ids : rows[i] \in Row
      /\ \A i \in Ids : rows[i].key \in Keys \cup {NoKey}
  BY LiveAre, RowIs DEF Given, TypeOK
<1>3. PICK o \in S : o # t
  <2>1. SUFFICES ASSUME \A i \in S : i = t PROVE FALSE
    OBVIOUS
  <2>2. S = {t}
    BY <1>1, <2>1 DEF Merges
  <2>3. Cardinality(S) = 1
    BY <2>2, FS_Singleton
  <2>4. Cardinality(S) > 1
    BY <1>1 DEF Merges
  <2> QED BY <2>3, <2>4
<1>4. ASSUME NEW i \in S PROVE rows[i].key = NoKey
  <2> SUFFICES ASSUME rows[i].key # NoKey PROVE FALSE
    OBVIOUS
  <2>1. \A x \in S : Signature(rows[x]) = Signature(rows[t])
    BY <1>1 DEF Merges
  <2>2. /\ rows[o].key = rows[t].key /\ rows[o].until = rows[t].until
        /\ rows[i].key = rows[t].key
    BY <1>3, <2>1 DEF Signature
  <2>3. o \in Live(rows) /\ t \in Live(rows) /\ o \in Ids /\ t \in Ids
    BY <1>1, <1>2, <1>3
  <2>4. rows[t].key \in Keys
    BY <1>2, <2>2, <2>3
  <2>5. ~Overlap(rows[o], rows[t])
    <3>1. o \in OfKey(rows, rows[t].key) /\ t \in OfKey(rows, rows[t].key)
      BY <2>2, <2>3, <2>4, OfKeyIs
    <3> QED BY <1>3, <2>4, <3>1 DEF Chains, Apart
  <2>6. ~Timeless(rows[o]) /\ ~Timeless(rows[t])
    BY <2>2, <2>3
  <2>7. /\ Start(rows[o]) \in Nat /\ Start(rows[t]) \in Nat
        /\ rows[o].until \in Nat /\ rows[t].until \in Nat
    BY <1>2, <2>3, RowIs
  <2> QED BY <2>2, <2>5, <2>6, <2>7 DEF Overlap, Timeless
<1>5. ASSUME NEW i \in Ids, i \in S \ {t} PROVE rows[i].key = NoKey /\ ~Linked(rows[i])
  <2>1. SUFFICES ASSUME Linked(rows[i]) PROVE FALSE
    BY <1>4, <1>5
  <2>2. Signature(rows[i]) = Signature(rows[t])
    BY <1>1, <1>5, <2>1 DEF Merges
  <2>3. /\ rows[i].sup = rows[t].sup /\ rows[i].supBy = rows[t].supBy
        /\ rows[i].key = NoKey /\ rows[t].key = NoKey
    BY <1>4, <1>5, <2>2 DEF Signature
  <2>4. Meets(rows, i) /\ Meets(rows, t)
    BY <1>1, <1>5, <2>3, LiveAre DEF Chains, Paired
  <2> QED BY <1>5, <2>1, <2>3, <2>4 DEF Meets, Linked
<1> SUFFICES ASSUME NEW i \in Live(rows'), NEW j \in {rows'[i].sup, rows'[i].supBy} \ {Null}
             PROVE  j \in Live(rows') /\ rows'[j].key = rows'[i].key
  BY DEF Undangling
<1>6. i \in Live(rows) /\ i \in Ids
  BY <1>1, <1>2 DEF Merges
<1>7. j \in {rows[i].sup, rows[i].supBy} \ {Null} /\ rows'[i].key = rows[i].key
  BY <1>1, <1>6 DEF Merges
<1>8. j \in Live(rows) /\ rows[j].key = rows[i].key /\ j \in Ids
  BY <1>2, <1>6, <1>7 DEF Undangling
<1>9. rows'[j].key = rows[j].key
  BY <1>1, <1>8 DEF Merges
<1>10. j \notin S \ {t}
  <2> SUFFICES ASSUME j \in S \ {t} PROVE FALSE
    OBVIOUS
  <2>1. rows[j].key = NoKey /\ ~Linked(rows[j])
    BY <1>5, <1>8
  <2>2. Meets(rows, i)
    BY <1>6, <1>8, <2>1, LiveAre DEF Chains, Paired
  <2>3. rows[j].supBy = i \/ rows[j].sup = i
    BY <1>7, <2>2 DEF Meets
  <2>4. i # Null
    BY <1>6
  <2> QED BY <2>1, <2>3, <2>4 DEF Linked
<1> QED BY <1>1, <1>7, <1>8, <1>9, <1>10 DEF Merges

\* No operation but expiry that acts on what it read earlier, and a merge of facts of
\* which one holds at no time, leaves a link that leads into the trash, to a purged
\* row or across keys.
THEOREM LinksSurvive == Spec => ChainsSurvive
<1> DEFINE Sheds == merge_memories /\ \E i \in Live(rows) : rows[i].key # NoKey /\ Timeless(rows[i])
<1>1. ASSUME IInv, [Next]_vars
      PROVE  [NoDanglingLinks /\ ~cut' => NoDanglingLinks' \/ Sheds]_vars
  <2> SUFFICES ASSUME NoDanglingLinks, ~cut', ~Sheds PROVE NoDanglingLinks'
    OBVIOUS
  <2>1. /\ Given /\ Steady(rows, rows') /\ Chains(rows) /\ Chains(rows')
        /\ ~merge_memories => \A k \in Keys : Bound(rows, k) => Bound(rows', k)
    BY <1>1, NextKeeps DEF IInv
  <2>2. rows \in Rows /\ rows' \in Rows
    BY <2>1 DEF Given, TypeOK, Steady, Rows
  <2>3. Undangling(rows)
    BY DEF NoDanglingLinks, Undangling
  <2>4. CASE merge_memories
    <3>1. Undangling(rows')
      BY <2>1, <2>3, <2>4, MergeSheds
    <3> QED BY <3>1 DEF NoDanglingLinks, Undangling, Live
  <2>5. CASE ~merge_memories
    <3>1. Undangling(rows')
      BY <2>1, <2>2, <2>3, <2>5, UndanglingIs DEF Chains
    <3> QED BY <3>1 DEF NoDanglingLinks, Undangling, Live
  <2> QED BY <2>4, <2>5
<1> QED BY <1>1, Holds, PTL DEF Spec, ChainsSurvive

=============================================================================
