--------------------------- MODULE StorageProofs ---------------------------
(***************************************************************************)
(* What is kept on disk.  A searchable version is served, never an         *)
(* unsearchable one in its place, and the status of a version tells of the *)
(* vectors that are there, for any documents, uploads, embedding spaces    *)
(* and overlapping jobs; at the end, a restore of a backup happens at once *)
(* or not at all, for any files, archives, contents, deaths and failed     *)
(* steps (StackRestore).                                                   *)
(***************************************************************************)
EXTENDS KnowledgeStore, StackRestore, FiniteSetTheorems, TLAPS

-----------------------------------------------------------------------------
(* Finite sets of naturals: the library's induction theorem for finite sets *)
(* cannot be instantiated here, so the argument is by a minimal counterexample. *)

HasMax(S) == \E m \in S : \A k \in S : k <= m

\* Every nonempty finite set of naturals has a greatest element: used for the
\* columns whose next value is one above all the present ones.
LEMMA FiniteMax ==
  ASSUME NEW S \in SUBSET Nat, IsFiniteSet(S), S # {}
  PROVE  HasMax(S)
<1> DEFINE Bad == {T \in FiniteSubsetsOf(S) : T # {} /\ ~HasMax(T)}
<1>1. SUFFICES ASSUME Bad # {} PROVE FALSE
  <2>1. S \in FiniteSubsetsOf(S)
    BY DEF FiniteSubsetsOf
  <2> QED BY <2>1
<1>2. PICK T \in Bad : \A U \in Bad : ~(<<U, T>> \in StrictSubsetOrdering(S))
  <2>1. IsWellFoundedOn(StrictSubsetOrdering(S), FiniteSubsetsOf(S))
    BY FS_StrictSubsetOrderingWellFounded
  <2>2. Bad \subseteq FiniteSubsetsOf(S)
    OBVIOUS
  <2> HIDE DEF Bad
  <2> QED BY <1>1, <2>1, <2>2, WFMin
<1>3. /\ T \subseteq S /\ IsFiniteSet(T) /\ T # {} /\ T \subseteq Nat
      /\ ~HasMax(T)
  BY DEF FiniteSubsetsOf
<1>4. PICK x \in T : TRUE
  BY <1>3
<1> DEFINE U == T \ {x}
<1>5. U \subseteq S /\ IsFiniteSet(U)
  BY <1>3, FS_RemoveElement
<1>6. <<U, T>> \in StrictSubsetOrdering(S)
  BY <1>3, <1>4, <1>5 DEF StrictSubsetOrdering
<1>7. CASE U = {}
  <2>1. T = {x}
    BY <1>4, <1>7
  <2>2. x \in Nat
    BY <1>3, <1>4
  <2> QED BY <1>3, <2>1, <2>2 DEF HasMax
<1>8. CASE U # {}
  <2>1. HasMax(U)
    <3>1. U \notin Bad
      BY <1>2, <1>6
    <3>2. U \in FiniteSubsetsOf(S)
      BY <1>5 DEF FiniteSubsetsOf
    <3> QED BY <1>8, <3>1, <3>2
  <2>2. PICK m \in U : \A k \in U : k <= m
    BY <2>1 DEF HasMax
  <2>3. m \in Nat /\ x \in Nat
    BY <1>3, <1>4
  <2>4. CASE x <= m
    <3>1. \A k \in T : k <= m
      BY <2>2, <2>4
    <3> QED BY <1>3, <3>1, <2>2 DEF HasMax
  <2>5. CASE m <= x
    <3>1. \A k \in T : k \in Nat
      BY <1>3
    <3>2. \A k \in T : k <= x
      BY <2>2, <2>3, <2>5, <3>1
    <3> QED BY <1>3, <1>4, <3>2 DEF HasMax
  <2> QED BY <2>3, <2>4, <2>5
<1> QED BY <1>7, <1>8

\* The values of a function on a finite set are finitely many: used for columns.
LEMMA FiniteValues ==
  ASSUME NEW S, IsFiniteSet(S), NEW f
  PROVE  IsFiniteSet({f[x] : x \in S})
<1> DEFINE T == {f[x] : x \in S}
           g == [x \in S |-> f[x]]
<1>1. g \in Surjection(S, T)
  BY DEF Surjection
<1> HIDE DEF g
<1> QED BY <1>1, FS_Surjection


\* The status that the vector search reads promises no more than there is.
Fits(r) ==
  /\ r.embedding = "ready" => r.vectors = "all" /\ r.of = r.space
  /\ r.embedding = "partial" => r.vectors = "some" /\ r.of = r.space
  /\ r.vectors # "none" => r.index = "ready"

\* What a document serves is a version of its own.
ServesItsOwn == \A d \in Documents : docs[d].current # 0 => docs[d].current \in Of(d)

\* A job works on a version that was created.
JobsKnowTheirVersion ==
  \A j \in Jobs : jobs[j].pc # "idle" => jobs[j].version \in DOMAIN versions

IInv == TypeOK /\ VectorsMatch /\ ReadyIsServed /\ ServesItsOwn /\ JobsKnowTheirVersion

-----------------------------------------------------------------------------
(* Versions *)

LEMMA VersionsAre ==
  ASSUME versions \in Seq(Version)
  PROVE  /\ Len(versions) \in Nat /\ DOMAIN versions = 1..Len(versions)
         /\ \A v \in DOMAIN versions : versions[v] \in Version /\ v \in Nat
OBVIOUS

\* Numbers of versions go on above all that are there.
LEMMA NextNumberIs ==
  ASSUME versions \in Seq(Version), NEW d
  PROVE  NextNumber(d) \in Nat \ {0}
<1> DEFINE S == {versions[v].number : v \in Of(d)}
           f == [v \in Of(d) |-> versions[v].number]
<1>1. S \in SUBSET Nat
  BY VersionsAre DEF Of, Version
<1>2. IsFiniteSet(S)
  <2>1. IsFiniteSet(1..Len(versions))
    BY VersionsAre, FS_Interval
  <2>2. Of(d) \in SUBSET (1..Len(versions))
    BY VersionsAre DEF Of
  <2>3. IsFiniteSet(Of(d))
    BY <2>1, <2>2, FS_Subset
  <2>4. IsFiniteSet({f[v] : v \in Of(d)})
    BY <2>3, FiniteValues
  <2>5. {f[v] : v \in Of(d)} = S
    OBVIOUS
  <2> QED BY <2>4, <2>5
<1>3. Largest(S) \in Nat
  <2> HIDE DEF S
  <2>1. CASE S = {}
    BY <2>1 DEF Largest
  <2>2. CASE S # {}
    <3>1. PICK x \in S : \A m \in S : m <= x
      BY <1>1, <1>2, <2>2, FiniteMax DEF HasMax
    <3>2. (CHOOSE n \in S : \A m \in S : m <= n) \in S
      BY <3>1
    <3> QED BY <1>1, <2>2, <3>2 DEF Largest
  <2> QED BY <2>1, <2>2
<1> QED BY <1>3 DEF NextNumber

\* An indexed version is ready exactly if the indexing succeeded, and has no
\* vectors yet.
LEMMA IndexedIs ==
  ASSUME NEW version \in Version, NEW ok \in BOOLEAN
  PROVE  /\ Indexed(version, ok) \in Version
         /\ Indexed(version, ok).doc = version.doc
         /\ Indexed(version, ok).index = (IF ok THEN "ready" ELSE "failed")
         /\ Fits(Indexed(version, ok))
<1> DEFINE new == Indexed(version, ok)
<1>1. /\ new \in Version /\ new.doc = version.doc
      /\ new.index = (IF ok THEN "ready" ELSE "failed")
      /\ new.embedding = "pending" /\ new.vectors = "none"
  BY DEF Indexed, Version
<1> HIDE DEF new
<1> QED BY <1>1 DEF Fits, new

LEMMA NewVersionIs ==
  ASSUME versions \in Seq(Version), NEW d \in Documents, NEW content \in Contents
  PROVE  NewVersion(d, content) \in Version /\ NewVersion(d, content).doc = d
BY NextNumberIs DEF NewVersion, Version

LEMMA NoContent == <<>> \in Contents
<1>1. MaxParts \in Nat
  BY KnowledgeAssumption
<1>2. 0..(0 - 1) = {} /\ 0 \in 0..MaxParts
  BY <1>1
<1>3. <<>> \in [0..(0 - 1) -> Pieces]
  BY <1>2
<1> QED BY <1>2, <1>3 DEF Contents

LEMMA ErasedIs == Erased \in Version /\ Fits(Erased) /\ Erased.doc = NoDocument
BY NoContent DEF Erased, Version, Fits

\* What a step may do to the versions: one is changed ...
Changes(v, version) ==
  /\ v \in DOMAIN versions /\ version \in Version
  /\ versions' = [versions EXCEPT ![v] = version]

LEMMA ChangesIs ==
  ASSUME TypeOK, NEW v, NEW version, Changes(v, version)
  PROVE  /\ versions' \in Seq(Version) /\ Len(versions') = Len(versions)
         /\ DOMAIN versions' = DOMAIN versions
         /\ versions'[v] = version
         /\ \A w \in DOMAIN versions : w # v => versions'[w] = versions[w]
<1>1. versions \in Seq(Version)
  BY DEF TypeOK
<1> QED BY <1>1, VersionsAre DEF Changes

\* ... or one is created, and served if it could be indexed.
LEMMA CreateIs ==
  ASSUME TypeOK, NEW d \in Documents, NEW content \in Contents, NEW ok \in BOOLEAN,
         Create(d, content, ok)
  PROVE  LET n == Len(versions) + 1
         IN  /\ versions' \in Seq(Version) /\ Len(versions') = n /\ n \in 1..MaxVersions
             /\ DOMAIN versions' = DOMAIN versions \cup {n}
             /\ n \notin DOMAIN versions
             /\ \A v \in DOMAIN versions : versions'[v] = versions[v]
             /\ versions'[n].doc = d /\ Fits(versions'[n])
             /\ versions'[n].index = (IF ok THEN "ready" ELSE "failed")
             /\ docs' = ServedNow(d, n, ok)
<1> DEFINE new == Indexed(NewVersion(d, content), ok)
<1>1. versions \in Seq(Version) /\ Len(versions) <= MaxVersions /\ MaxVersions \in Nat
  BY KnowledgeAssumption DEF TypeOK
<1>2. /\ new \in Version /\ new.doc = d /\ Fits(new)
      /\ new.index = (IF ok THEN "ready" ELSE "failed")
  BY <1>1, NewVersionIs, IndexedIs
<1>3. Len(versions) < MaxVersions /\ versions' = Append(versions, new)
      /\ docs' = ServedNow(d, Len(versions) + 1, ok)
  BY DEF Create
<1> HIDE DEF new
<1>4. Len(versions) \in Nat /\ DOMAIN versions = 1..Len(versions)
  BY <1>1
<1>5. /\ versions' \in Seq(Version) /\ Len(versions') = Len(versions) + 1
      /\ DOMAIN versions' = 1..(Len(versions) + 1)
      /\ versions'[Len(versions) + 1] = new
      /\ \A v \in DOMAIN versions : versions'[v] = versions[v]
  BY <1>1, <1>2, <1>3
<1>6. DOMAIN versions' = DOMAIN versions \cup {Len(versions) + 1}
  BY <1>4, <1>5
<1> QED BY <1>1, <1>2, <1>3, <1>4, <1>5, <1>6

LEMMA ServedNowIs ==
  ASSUME docs \in [Documents -> Document], NEW d \in Documents, NEW v \in VersionIds,
         NEW ok \in BOOLEAN, docs' = ServedNow(d, v, ok)
  PROVE  /\ docs' \in [Documents -> Document]
         /\ docs'[d].current = IF ok THEN v ELSE docs[d].current
         /\ \A e \in Documents : e # d => docs'[e] = docs[e]
BY DEF ServedNow, Document

-----------------------------------------------------------------------------
(* What keeps the invariant *)

LEMMA UnusedIs == Unused \in Upload
<1>1. <<>> \in [{} -> Pieces] /\ {} \in SUBSET (0..(MaxParts - 1))
  OBVIOUS
<1>2. <<>> \in Parts
  BY <1>1 DEF Parts
<1>3. 0 \in VersionIds
  BY KnowledgeAssumption DEF VersionIds
<1> QED BY <1>2, <1>3 DEF Unused, Upload

LEMMA InitInv == Init => IInv
<1> SUFFICES ASSUME Init PROVE IInv
  OBVIOUS
<1>1. Unused \in Upload
  BY UnusedIs
<1>2. 0 \in VersionIds /\ MaxVersions >= 0
  BY KnowledgeAssumption DEF VersionIds
<1>3. versions = <<>> /\ Len(versions) = 0 /\ DOMAIN versions = {} /\ versions \in Seq(Version)
  BY DEF Init
<1>4. TypeOK
  BY <1>1, <1>2, <1>3 DEF Init, TypeOK, Document, Job, Idle
<1>5. VectorsMatch
  BY <1>3 DEF VectorsMatch
<1>6. ReadyIsServed /\ ServesItsOwn
  BY <1>3 DEF ReadyIsServed, ServesItsOwn, Of, Init
<1>7. JobsKnowTheirVersion
  BY DEF Init, JobsKnowTheirVersion, Idle
<1> QED BY <1>4, <1>5, <1>6, <1>7 DEF IInv

\* Sessions by themselves.
LEMMA UploadsKeep ==
  ASSUME IInv, uploads' \in [Uploads -> Upload], UNCHANGED <<docs, versions, jobs>>
  PROVE  IInv'
BY DEF IInv, TypeOK, VectorsMatch, ReadyIsServed, ServesItsOwn, JobsKnowTheirVersion, Of

\* A new version of a document.
LEMMA CreateKeeps ==
  ASSUME IInv, NEW d \in Documents, NEW content \in Contents, NEW ok \in BOOLEAN,
         Create(d, content, ok), uploads' \in [Uploads -> Upload], jobs' = jobs
  PROVE  IInv'
<1> DEFINE n == Len(versions) + 1
<1>1. /\ versions' \in Seq(Version) /\ Len(versions') = n /\ n \in 1..MaxVersions
      /\ DOMAIN versions' = DOMAIN versions \cup {n} /\ n \notin DOMAIN versions
      /\ \A v \in DOMAIN versions : versions'[v] = versions[v]
      /\ versions'[n].doc = d /\ Fits(versions'[n])
      /\ versions'[n].index = (IF ok THEN "ready" ELSE "failed")
      /\ docs' = ServedNow(d, n, ok)
  BY CreateIs DEF IInv
<1> HIDE DEF n
<1>2. n \in VersionIds /\ n # 0
  BY <1>1 DEF VersionIds
<1>3. /\ docs' \in [Documents -> Document]
      /\ docs'[d].current = IF ok THEN n ELSE docs[d].current
      /\ \A e \in Documents : e # d => docs'[e] = docs[e]
  BY <1>1, <1>2, ServedNowIs DEF IInv, TypeOK
<1>4. TypeOK'
  BY <1>1, <1>3 DEF IInv, TypeOK
<1>5. VectorsMatch'
  BY <1>1 DEF IInv, VectorsMatch, Fits
<1>6. Of(d)' = Of(d) \cup {n} /\ \A e \in Documents : e # d => Of(e)' = Of(e)
  BY <1>1 DEF Of
<1>7. \A e \in Documents : Of(e) \subseteq DOMAIN versions
  BY DEF Of
<1>8. ReadyIsServed'
  <2> SUFFICES ASSUME NEW e \in Documents, NEW v \in Of(e)', versions'[v].index = "ready"
               PROVE  docs'[e].current # 0
    BY DEF ReadyIsServed
  <2>1. CASE v \in Of(e)
    <3>1. docs[e].current # 0
      BY <1>1, <1>7, <2>1 DEF IInv, ReadyIsServed
    <3> QED BY <1>2, <1>3, <3>1
  <2>2. CASE v \notin Of(e)
    <3>1. e = d /\ v = n
      BY <1>6, <2>2
    <3>2. ok
      BY <1>1, <3>1
    <3> QED BY <1>2, <1>3, <3>1, <3>2
  <2> QED BY <2>1, <2>2
<1>9. ServesItsOwn'
  <2> SUFFICES ASSUME NEW e \in Documents, docs'[e].current # 0
               PROVE  docs'[e].current \in Of(e)'
    BY DEF ServesItsOwn
  <2> QED BY <1>3, <1>6 DEF IInv, ServesItsOwn
<1>10. JobsKnowTheirVersion'
  BY <1>1 DEF IInv, JobsKnowTheirVersion
<1> QED BY <1>4, <1>5, <1>8, <1>9, <1>10 DEF IInv

\* A version whose chunks stay as they are.
LEMMA StatusKeeps ==
  ASSUME IInv, NEW v, NEW new, Changes(v, new), Fits(new),
         new.doc = versions[v].doc, new.index = versions[v].index,
         jobs' \in [Jobs -> Job], UNCHANGED <<docs, uploads>>,
         \A j \in Jobs : jobs'[j].pc # "idle" => jobs'[j].version \in DOMAIN versions
  PROVE  IInv'
<1>1. /\ versions' \in Seq(Version) /\ Len(versions') = Len(versions)
      /\ DOMAIN versions' = DOMAIN versions /\ versions'[v] = new
      /\ \A w \in DOMAIN versions : w # v => versions'[w] = versions[w]
  BY ChangesIs DEF IInv
<1>2. TypeOK'
  BY <1>1 DEF IInv, TypeOK
<1>3. VectorsMatch'
  BY <1>1 DEF IInv, VectorsMatch, Fits
<1>4. \A d : Of(d)' = Of(d)
  BY <1>1 DEF Of
<1>5. \A w \in DOMAIN versions : versions'[w].index = versions[w].index
  BY <1>1
<1>6. ReadyIsServed' /\ ServesItsOwn'
  BY <1>4, <1>5 DEF IInv, ReadyIsServed, ServesItsOwn, Of
<1>7. JobsKnowTheirVersion'
  BY <1>1 DEF JobsKnowTheirVersion
<1> QED BY <1>2, <1>3, <1>6, <1>7 DEF IInv

\* A version is indexed anew, and takes over if it must.
LEMMA IndexKeeps ==
  ASSUME IInv, NEW v, NEW d \in Documents, v \in Of(d), NEW ok \in BOOLEAN,
         versions' = [versions EXCEPT ![v] = Indexed(@, ok)],
         docs' \in [Documents -> Document],
         docs'[d].current = v \/ docs'[d].current = docs[d].current,
         ok => docs'[d].current # 0,
         \A e \in Documents : e # d => docs'[e] = docs[e],
         uploads' \in [Uploads -> Upload], jobs' = jobs
  PROVE  IInv'
<1> DEFINE new == Indexed(versions[v], ok)
<1>1. v \in DOMAIN versions /\ versions[v].doc = d /\ versions[v] \in Version
  BY VersionsAre DEF Of, IInv, TypeOK
<1>2. /\ new \in Version /\ new.doc = d /\ Fits(new)
      /\ new.index = (IF ok THEN "ready" ELSE "failed")
  BY <1>1, IndexedIs
<1>3. versions' = [versions EXCEPT ![v] = new]
  OBVIOUS
<1> HIDE DEF new
<1>4. /\ versions' \in Seq(Version) /\ Len(versions') = Len(versions)
      /\ DOMAIN versions' = DOMAIN versions /\ versions'[v] = new
      /\ \A w \in DOMAIN versions : w # v => versions'[w] = versions[w]
  BY <1>1, <1>2, <1>3, ChangesIs DEF IInv, Changes
<1>5. TypeOK'
  BY <1>4 DEF IInv, TypeOK
<1>6. VectorsMatch'
  BY <1>2, <1>4 DEF IInv, VectorsMatch, Fits
<1>7. \A e : Of(e)' = Of(e)
  BY <1>1, <1>2, <1>4 DEF Of
<1>8. ReadyIsServed'
  <2> SUFFICES ASSUME NEW e \in Documents, NEW w \in Of(e), versions'[w].index = "ready"
               PROVE  docs'[e].current # 0
    BY <1>7 DEF ReadyIsServed
  <2>1. CASE w = v
    <3>1. e = d /\ ok
      BY <1>1, <1>2, <1>4, <2>1 DEF Of
    <3> QED BY <3>1
  <2>2. CASE w # v
    <3>1. docs[e].current # 0
      BY <1>4, <2>2 DEF IInv, ReadyIsServed, Of
    <3>2. v # 0
      BY <1>1, VersionsAre DEF IInv, TypeOK
    <3> QED BY <3>1, <3>2
  <2> QED BY <2>1, <2>2
<1>9. ServesItsOwn'
  BY <1>7 DEF IInv, ServesItsOwn
<1>10. JobsKnowTheirVersion'
  BY <1>4 DEF IInv, JobsKnowTheirVersion
<1> QED BY <1>5, <1>6, <1>8, <1>9, <1>10 DEF IInv

-----------------------------------------------------------------------------
(* Upload sessions *)

LEMMA CommittedIs ==
  ASSUME NEW upload \in Upload
  PROVE  Committed(upload) \in Upload
<1>1. <<>> \in Parts
  BY UnusedIs DEF Unused, Upload
<1> QED BY <1>1 DEF Committed, Upload

LEMMA PartsAre ==
  ASSUME IInv, NEW u \in Uploads
  PROVE  \E S \in SUBSET (0..(MaxParts - 1)) : uploads[u].parts \in [S -> Pieces]
<1>1. uploads[u].parts \in Parts
  BY DEF IInv, TypeOK, Upload
<1> DEFINE parts == uploads[u].parts
<1> HIDE DEF parts
<1>2. PICK F \in {[S -> Pieces] : S \in SUBSET (0..(MaxParts - 1))} : parts \in F
  BY <1>1 DEF Parts, parts
<1> QED BY <1>2 DEF parts

\* A complete upload holds a content.
LEMMA CompleteIs ==
  ASSUME IInv, NEW u \in Uploads, Complete(u)
  PROVE  uploads[u].parts \in Contents
<1>1. PICK n \in 1..MaxParts : DOMAIN uploads[u].parts = 0..(n - 1)
  BY DEF Complete
<1>2. PICK S \in SUBSET (0..(MaxParts - 1)) : uploads[u].parts \in [S -> Pieces]
  BY PartsAre
<1>3. uploads[u].parts \in [0..(n - 1) -> Pieces]
  BY <1>1, <1>2
<1>4. n \in 0..MaxParts
  BY KnowledgeAssumption
<1> QED BY <1>3, <1>4 DEF Contents

LEMMA SessionKeeps ==
  ASSUME IInv, NEW u \in Uploads, Session(u)
  PROVE  IInv'
<1>1. ASSUME NEW d \in Documents \cup {NoDocument}, NEW old \in SUBSET Uploads,
             BeginUpload(u, d, old)
      PROVE  IInv'
  <2> DEFINE upload == [Unused EXCEPT !.status = "open", !.replaces = d,
                      !.expected = IF d = NoDocument THEN 0 ELSE docs[d].current]
  <2>1. (IF d = NoDocument THEN 0 ELSE docs[d].current) \in VersionIds
    BY KnowledgeAssumption DEF IInv, TypeOK, Document, VersionIds
  <2>2. upload \in Upload
    BY <2>1, UnusedIs DEF Upload
  <2>3. Swept(old) \in [Uploads -> Upload]
    BY UnusedIs DEF Swept, IInv, TypeOK
  <2> HIDE DEF upload
  <2>4. uploads' = [Swept(old) EXCEPT ![u] = upload] /\ UNCHANGED <<docs, versions, jobs>>
    BY <1>1 DEF BeginUpload, upload
  <2>5. uploads' \in [Uploads -> Upload]
    BY <2>2, <2>3, <2>4
  <2> QED BY <2>4, <2>5, UploadsKeep
<1>2. ASSUME NEW i \in 0..(MaxParts - 1), NEW piece \in Pieces, AppendUpload(u, i, piece)
      PROVE  IInv'
  <2> DEFINE old == uploads[u].parts
             new == [k \in DOMAIN old \cup {i} |-> IF k = i THEN piece ELSE old[k]]
  <2>1. PICK S \in SUBSET (0..(MaxParts - 1)) : old \in [S -> Pieces]
    BY PartsAre
  <2>2. new \in [S \cup {i} -> Pieces] /\ S \cup {i} \in SUBSET (0..(MaxParts - 1))
    BY <2>1
  <2>3. new \in Parts
    BY <2>2 DEF Parts
  <2>4. uploads' = [uploads EXCEPT ![u].parts = new] /\ UNCHANGED <<docs, versions, jobs>>
    BY <1>2 DEF AppendUpload, IInv, TypeOK
  <2> HIDE DEF new
  <2>5. uploads' \in [Uploads -> Upload]
    BY <2>3, <2>4 DEF IInv, TypeOK, Upload
  <2> QED BY <2>4, <2>5, UploadsKeep
<1>3. ASSUME uploads' = [uploads EXCEPT ![u] = Committed(@)]
      PROVE  uploads' \in [Uploads -> Upload]
  BY <1>3, CommittedIs DEF IInv, TypeOK
<1>4. ASSUME NEW ok \in BOOLEAN, NEW d \in Documents, CommitNew(u, d, ok)
      PROVE  IInv'
  BY <1>3, <1>4, CompleteIs, CreateKeeps DEF CommitNew
<1>5. ASSUME NEW ok \in BOOLEAN, CommitReplacement(u, ok)
      PROVE  IInv'
  <2>1. uploads[u].replaces \in Documents
    BY <1>5 DEF CommitReplacement, Replaceable, IInv, TypeOK, Upload
  <2> QED BY <1>3, <1>5, <2>1, CompleteIs, CreateKeeps DEF CommitReplacement, Replaceable
<1>6. ASSUME NEW ok \in BOOLEAN, CommitSame(u, ok)
      PROVE  IInv'
  <2> DEFINE d == uploads[u].replaces
             c == docs[d].current
  <2>1. d \in Documents /\ c # 0
    BY <1>6 DEF CommitSame, Replaceable, SameAsCurrent, IInv, TypeOK, Upload
  <2>2. c \in Of(d)
    BY <2>1 DEF IInv, ServesItsOwn
  <2>3. uploads' \in [Uploads -> Upload] /\ UNCHANGED <<docs, jobs>>
    BY <1>3, <1>6 DEF CommitSame
  <2>4. CASE versions[c].index = "ready"
    BY <1>6, <2>3, <2>4, UploadsKeep DEF CommitSame
  <2>5. CASE versions[c].index # "ready"
    <3>1. versions' = [versions EXCEPT ![c] = Indexed(@, ok)]
      BY <1>6, <2>5 DEF CommitSame
    <3>2. docs' \in [Documents -> Document] /\ docs' = docs
      BY <2>3 DEF IInv, TypeOK
    <3> HIDE DEF c, d
    <3> QED BY <2>1, <2>2, <2>3, <3>1, <3>2, IndexKeeps DEF c
  <2> QED BY <2>4, <2>5
<1>7. CASE Cancel(u)
  <2>1. uploads' \in [Uploads -> Upload]
    BY <1>7, UnusedIs DEF Cancel, IInv, TypeOK
  <2> QED BY <1>7, <2>1, UploadsKeep DEF Cancel
<1> QED BY <1>1, <1>2, <1>4, <1>5, <1>6, <1>7 DEF Session

-----------------------------------------------------------------------------
(* Documents *)

LEMMA LibraryKeeps == IInv /\ Library => IInv'
<1> SUFFICES ASSUME IInv, Library PROVE IInv'
  OBVIOUS
<1>1. ASSUME NEW d \in Documents, NEW status \in {"active", "deleted"},
             docs' = [docs EXCEPT ![d].status = status], UNCHANGED <<versions, uploads, jobs>>
      PROVE  IInv'
  <2>1. /\ docs' \in [Documents -> Document]
        /\ \A e \in Documents : docs'[e].current = docs[e].current
    BY <1>1 DEF IInv, TypeOK, Document
  <2>2. TypeOK'
    BY <1>1, <2>1 DEF IInv, TypeOK
  <2>3. VectorsMatch' /\ ReadyIsServed' /\ ServesItsOwn' /\ JobsKnowTheirVersion'
    BY <1>1, <2>1 DEF IInv, VectorsMatch, ReadyIsServed, ServesItsOwn, JobsKnowTheirVersion, Of
  <2> QED BY <2>2, <2>3 DEF IInv
<1>2. ASSUME NEW d \in Documents, Purge(d)
      PROVE  IInv'
  <2>1. versions \in Seq(Version) /\ Len(versions) <= MaxVersions
    BY DEF IInv, TypeOK
  <2>2. /\ versions' \in Seq(Version) /\ Len(versions') = Len(versions)
        /\ DOMAIN versions' = DOMAIN versions
        /\ \A v \in DOMAIN versions :
             versions'[v] = IF v \in Of(d) THEN Erased ELSE versions[v]
    <3>1. versions' = [v \in 1..Len(versions) |-> IF versions[v].doc = d THEN Erased ELSE versions[v]]
      BY <1>2, <2>1 DEF Purge
    <3>2. \A v \in 1..Len(versions) : versions[v] \in Version
      BY <2>1
    <3>3. Len(versions) \in Nat
      BY <2>1
    <3>4. versions' \in [1..Len(versions) -> Version]
      BY <3>1, <3>2, ErasedIs
    <3>5. versions' \in Seq(Version) /\ Len(versions') = Len(versions)
      BY <3>3, <3>4
    <3> QED BY <2>1, <3>1, <3>5 DEF Of
  <2>3. /\ docs' \in [Documents -> Document] /\ docs'[d].current = 0
        /\ \A e \in Documents : e # d => docs'[e] = docs[e]
    <3>1. 0 \in VersionIds
      BY KnowledgeAssumption DEF VersionIds
    <3> QED BY <1>2, <3>1 DEF Purge, IInv, TypeOK, Document
  <2>4. uploads' \in [Uploads -> Upload] /\ jobs' = jobs
    BY <1>2, UnusedIs DEF Purge, PurgedUploads, IInv, TypeOK
  <2>5. TypeOK'
    BY <2>1, <2>2, <2>3, <2>4 DEF IInv, TypeOK
  <2>6. VectorsMatch'
    BY <2>2, ErasedIs DEF IInv, VectorsMatch, Fits
  <2>7. Of(d)' = {} /\ \A e \in Documents : e # d => Of(e)' = Of(e)
    <3>1. NoDocument \notin Documents
      BY KnowledgeAssumption
    <3> QED BY <2>2, <3>1, ErasedIs DEF Of
  <2>8. ReadyIsServed'
    <3> SUFFICES ASSUME NEW e \in Documents, NEW v \in Of(e)', versions'[v].index = "ready"
                 PROVE  docs'[e].current # 0
      BY DEF ReadyIsServed
    <3>1. e # d /\ v \in Of(e)
      BY <2>7
    <3>2. versions'[v] = versions[v]
      BY <2>2, <3>1 DEF Of
    <3> QED BY <2>3, <3>1, <3>2 DEF IInv, ReadyIsServed
  <2>9. ServesItsOwn'
    BY <2>3, <2>7 DEF IInv, ServesItsOwn
  <2>10. JobsKnowTheirVersion'
    BY <2>2, <2>4 DEF IInv, JobsKnowTheirVersion
  <2> QED BY <2>5, <2>6, <2>8, <2>9, <2>10 DEF IInv
<1>3. ASSUME NEW v \in DOMAIN versions, NEW ok \in BOOLEAN, RestoreVersion(v, ok)
      PROVE  IInv'
  <2>1. versions[v] \in Version
    BY VersionsAre DEF IInv, TypeOK
  <2>2. versions[v].doc \in Documents /\ versions[v].content \in Contents
    BY <1>3, <2>1 DEF RestoreVersion, Version
  <2>3. uploads' \in [Uploads -> Upload] /\ jobs' = jobs
    BY <1>3 DEF RestoreVersion, IInv, TypeOK
  <2>4. Create(versions[v].doc, versions[v].content, ok)
    BY <1>3 DEF RestoreVersion
  <2> QED BY <2>2, <2>3, <2>4, CreateKeeps
<1>4. ASSUME NEW v \in DOMAIN versions, NEW ok \in BOOLEAN, ReindexVersion(v, ok)
      PROVE  IInv'
  <2> DEFINE d == versions[v].doc
  <2>1. versions[v] \in Version /\ v \in VersionIds /\ v # 0
    BY VersionsAre, KnowledgeAssumption DEF IInv, TypeOK, VersionIds
  <2>2. d \in Documents /\ v \in Of(d)
    BY <1>4, <2>1 DEF ReindexVersion, Version, Of
  <2>3. /\ versions' = [versions EXCEPT ![v] = Indexed(@, ok)]
        /\ docs' = ServedNow(d, v, ok /\ TakesOver(v))
        /\ uploads' \in [Uploads -> Upload] /\ jobs' = jobs
    BY <1>4 DEF ReindexVersion, IInv, TypeOK
  <2>4. /\ docs' \in [Documents -> Document]
        /\ docs'[d].current = IF ok /\ TakesOver(v) THEN v ELSE docs[d].current
        /\ \A e \in Documents : e # d => docs'[e] = docs[e]
    <3>1. (ok /\ TakesOver(v)) \in BOOLEAN
      BY DEF TakesOver
    <3> QED BY <2>1, <2>2, <2>3, <3>1, ServedNowIs DEF IInv, TypeOK
  <2>5. ok => docs'[d].current # 0
    <3>1. CASE TakesOver(v)
      BY <2>1, <2>4, <3>1
    <3>2. CASE ~TakesOver(v)
      <4>1. PICK w \in Of(d) : versions[w].index = "ready"
        BY <3>2 DEF TakesOver
      <4>2. docs[d].current # 0
        BY <2>2, <4>1 DEF IInv, ReadyIsServed
      <4> QED BY <2>4, <3>2, <4>2
    <3> QED BY <3>1, <3>2
  <2>6. docs'[d].current = v \/ docs'[d].current = docs[d].current
    BY <2>4
  <2> HIDE DEF d
  <2> QED BY <2>2, <2>3, <2>4, <2>5, <2>6, IndexKeeps
<1> QED BY <1>1, <1>2, <1>3, <1>4 DEF Library, SoftDelete, RestoreDocument

-----------------------------------------------------------------------------
(* Embedding jobs *)

\* A job goes on or ends.
LEMMA JobsKeep ==
  ASSUME IInv, NEW j \in Jobs, NEW job \in Job, jobs' = [jobs EXCEPT ![j] = job],
         job.pc # "idle" => job.version \in DOMAIN versions,
         UNCHANGED <<docs, versions, uploads>>
  PROVE  IInv'
<1>1. jobs' \in [Jobs -> Job]
  BY DEF IInv, TypeOK
<1>2. JobsKnowTheirVersion'
  BY DEF IInv, TypeOK, JobsKnowTheirVersion
<1>3. TypeOK'
  BY <1>1 DEF IInv, TypeOK
<1>4. VectorsMatch' /\ ReadyIsServed' /\ ServesItsOwn'
  BY DEF IInv, VectorsMatch, ReadyIsServed, ServesItsOwn, Of
<1> QED BY <1>2, <1>3, <1>4 DEF IInv

\* A job writes a status that promises no vectors.
LEMMA WriteKeeps ==
  ASSUME IInv, NEW j \in Jobs, jobs[j].pc # "idle",
         NEW status \in {"disabled", "indexing", "failed"}, WriteStatus(j, status),
         NEW job \in Job, jobs' = [jobs EXCEPT ![j] = job],
         job.pc # "idle" => job.version \in DOMAIN versions, UNCHANGED <<docs, uploads>>
  PROVE  IInv'
<1> DEFINE v == jobs[j].version
           new == [versions[v] EXCEPT !.embedding = status, !.space = jobs[j].space]
<1>1. v \in DOMAIN versions /\ versions[v] \in Version /\ jobs[j] \in Job
  BY VersionsAre DEF IInv, TypeOK, JobsKnowTheirVersion
<1>2. CASE ~There(v)
  <2>1. versions' = versions
    BY <1>2 DEF WriteStatus
  <2> QED BY <2>1, JobsKeep
<1>3. CASE There(v)
  <2>1. versions' = [versions EXCEPT ![v].embedding = status, ![v].space = jobs[j].space]
    BY <1>3 DEF WriteStatus
  <2>2. versions' = [versions EXCEPT ![v] = new]
    BY <2>1, <1>1 DEF IInv, TypeOK
  <2>3. /\ new \in Version /\ new.doc = versions[v].doc /\ new.index = versions[v].index
        /\ new.embedding = status /\ new.vectors = versions[v].vectors
    BY <1>1 DEF Version, Job
  <2>4. Fits(new)
    BY <1>1, <2>3 DEF Fits, IInv, VectorsMatch
  <2>5. /\ jobs' \in [Jobs -> Job]
        /\ \A k \in Jobs : jobs'[k].pc # "idle" => jobs'[k].version \in DOMAIN versions
    BY DEF IInv, TypeOK, JobsKnowTheirVersion
  <2> HIDE DEF new
  <2>6. Changes(v, new)
    BY <1>1, <2>2, <2>3 DEF Changes
  <2> HIDE DEF v
  <2> QED BY <2>3, <2>4, <2>5, <2>6, StatusKeeps
<1> QED BY <1>2, <1>3

LEMMA IdleIs == Idle \in Job /\ Idle.pc = "idle"
BY KnowledgeAssumption DEF Idle, Job, VersionIds

\* The vectors of a version and the status that tells of them come together.
LEMMA ReplaceKeeps ==
  ASSUME IInv, NEW j \in Jobs, NEW got \in {"none", "some", "all"}, Replace(j, got)
  PROVE  IInv'
<1> DEFINE v == jobs[j].version
           stored == Stored(v, got)
           new == [versions[v] EXCEPT
                     !.embedding = CASE stored = "all" -> "ready"
                                     [] stored = "some" -> "partial"
                                     [] OTHER -> "failed",
                     !.space = jobs[j].space,
                     !.vectors = stored,
                     !.of = IF stored = "none" THEN "none" ELSE jobs[j].space]
<1>1. jobs[j].pc = "embed" /\ UNCHANGED <<docs, uploads>>
  BY DEF Replace
<1>2. v \in DOMAIN versions /\ versions[v] \in Version /\ jobs[j] \in Job
  BY <1>1, VersionsAre DEF IInv, TypeOK, JobsKnowTheirVersion
<1>3. CASE ~Active(v)
  <2>1. jobs' = [jobs EXCEPT ![j] = [jobs[j] EXCEPT !.pc = "fail"]] /\ versions' = versions
    BY <1>3 DEF Replace, IInv, TypeOK
  <2>2. /\ [jobs[j] EXCEPT !.pc = "fail"] \in Job
        /\ [jobs[j] EXCEPT !.pc = "fail"].version \in DOMAIN versions
    BY <1>2 DEF Job
  <2> HIDE DEF v, stored, new
  <2> QED BY <1>1, <2>1, <2>2, JobsKeep
<1>4. CASE Active(v)
  <2>1. versions' = [versions EXCEPT ![v] = new] /\ jobs' = [jobs EXCEPT ![j] = Idle]
    BY <1>2, <1>4 DEF Replace
  <2>2. stored \in {"none", "some", "all"} /\ (stored # "none" => versions[v].index = "ready")
    BY DEF Stored
  <2> HIDE DEF stored
  <2>3. /\ new \in Version /\ new.doc = versions[v].doc /\ new.index = versions[v].index
        /\ new.embedding = (CASE stored = "all" -> "ready"
                              [] stored = "some" -> "partial"
                              [] OTHER -> "failed")
        /\ new.vectors = stored /\ new.space = jobs[j].space
        /\ new.of = IF stored = "none" THEN "none" ELSE jobs[j].space
    BY <1>2, <2>2 DEF Version, Job
  <2> HIDE DEF new
  <2>4. Fits(new)
    BY <2>2, <2>3 DEF Fits
  <2>5. /\ jobs' \in [Jobs -> Job]
        /\ \A k \in Jobs : jobs'[k].pc # "idle" => jobs'[k].version \in DOMAIN versions
    BY <2>1, IdleIs DEF IInv, TypeOK, JobsKnowTheirVersion
  <2>6. Changes(v, new)
    BY <1>2, <2>1, <2>3 DEF Changes
  <2> HIDE DEF v
  <2> QED BY <1>1, <2>3, <2>4, <2>5, <2>6, StatusKeeps
<1> QED BY <1>3, <1>4

LEMMA EmbeddingKeeps ==
  ASSUME IInv, NEW j \in Jobs, Embedding(j)
  PROVE  IInv'
<1>1. jobs \in [Jobs -> Job] /\ jobs[j] \in Job
  BY DEF IInv, TypeOK
<1>2. ASSUME NEW v \in DOMAIN versions, NEW s \in Spaces \cup {"none"}, NEW held \in BOOLEAN,
             StartJob(j, v, s, held)
      PROVE  IInv'
  <2> DEFINE job == [pc |-> IF s # "none" /\ Active(v) /\ versions[v].index = "ready" /\ ~held
                            THEN "mark" ELSE "disable",
                     version |-> v, space |-> s]
  <2>1. v \in VersionIds
    BY VersionsAre, KnowledgeAssumption DEF IInv, TypeOK, VersionIds
  <2>2. job \in Job /\ job.version = v
    BY <2>1 DEF Job
  <2>3. jobs' = [jobs EXCEPT ![j] = job] /\ UNCHANGED <<docs, versions, uploads>>
    BY <1>2 DEF StartJob
  <2> HIDE DEF job
  <2> QED BY <2>2, <2>3, JobsKeep
<1>3. CASE Disable(j)
  <2>1. jobs[j].pc # "idle" /\ WriteStatus(j, "disabled")
    BY <1>3 DEF Disable
  <2>2. jobs' = [jobs EXCEPT ![j] = Idle] /\ UNCHANGED <<docs, uploads>>
    BY <1>3 DEF Disable
  <2> QED BY <2>1, <2>2, IdleIs, WriteKeeps
<1>4. CASE MarkIndexing(j)
  <2> DEFINE job == IF There(jobs[j].version) THEN [jobs[j] EXCEPT !.pc = "embed"] ELSE Idle
  <2>1. jobs[j].pc # "idle" /\ WriteStatus(j, "indexing") /\ UNCHANGED <<docs, uploads>>
    BY <1>4 DEF MarkIndexing
  <2>2. jobs' = [jobs EXCEPT ![j] = job]
    BY <1>1, <1>4 DEF MarkIndexing
  <2>3. job \in Job /\ (job.pc # "idle" => job.version \in DOMAIN versions)
    BY <1>1, <2>1, IdleIs DEF Job, IInv, JobsKnowTheirVersion
  <2> HIDE DEF job
  <2> QED BY <2>1, <2>2, <2>3, WriteKeeps
<1>5. CASE EmbedFails(j)
  <2>1. jobs' = [jobs EXCEPT ![j] = [jobs[j] EXCEPT !.pc = "fail"]]
        /\ UNCHANGED <<docs, versions, uploads>>
    BY <1>1, <1>5 DEF EmbedFails
  <2>2. [jobs[j] EXCEPT !.pc = "fail"] \in Job
        /\ [jobs[j] EXCEPT !.pc = "fail"].version \in DOMAIN versions
    BY <1>1, <1>5 DEF EmbedFails, Job, IInv, JobsKnowTheirVersion
  <2> QED BY <2>1, <2>2, JobsKeep
<1>6. CASE RecordFailure(j)
  <2>1. jobs[j].pc # "idle" /\ WriteStatus(j, "failed")
    BY <1>6 DEF RecordFailure
  <2>2. jobs' = [jobs EXCEPT ![j] = Idle] /\ UNCHANGED <<docs, uploads>>
    BY <1>6 DEF RecordFailure
  <2> QED BY <2>1, <2>2, IdleIs, WriteKeeps
<1>7. CASE Interrupt(j)
  <2>1. jobs' = [jobs EXCEPT ![j] = Idle] /\ UNCHANGED <<docs, versions, uploads>>
    BY <1>7 DEF Interrupt
  <2> QED BY <2>1, IdleIs, JobsKeep
<1> QED BY <1>2, <1>3, <1>4, <1>5, <1>6, <1>7, ReplaceKeeps DEF Embedding

-----------------------------------------------------------------------------
(* What the runs check, for every value of the constants *)

LEMMA NextKeeps == IInv /\ [Next]_vars => IInv'
<1> SUFFICES ASSUME IInv, [Next]_vars PROVE IInv'
  OBVIOUS
<1>1. CASE Next
  BY <1>1, SessionKeeps, LibraryKeeps, EmbeddingKeeps DEF Next
<1>2. CASE UNCHANGED vars
  <2>1. uploads' \in [Uploads -> Upload]
    BY <1>2 DEF vars, IInv, TypeOK
  <2> QED BY <1>2, <2>1, UploadsKeep DEF vars
<1> QED BY <1>1, <1>2

LEMMA Always == Spec => []IInv
<1> QED BY InitInv, NextKeeps, PTL DEF Spec

\* The rows of the library and its jobs have their types.
THEOREM Types == Spec => []TypeOK
<1>1. IInv => TypeOK
  BY DEF IInv
<1> QED BY <1>1, Always, PTL

\* However jobs, reindexing, deletion and new versions overlap, the status that
\* the vector search reads tells of vectors that are there, in the space it names.
THEOREM VectorsAgree == Spec => []VectorsMatch
<1>1. IInv => VectorsMatch
  BY DEF IInv
<1> QED BY <1>1, Always, PTL

\* A document with a searchable version serves a version, and what it serves is
\* its own.
THEOREM Served == Spec => [](ReadyIsServed /\ ServesItsOwn)
<1>1. IInv => ReadyIsServed /\ ServesItsOwn
  BY DEF IInv
<1> QED BY <1>1, Always, PTL

\* What a step lets a document serve: what it served, nothing, or a version that
\* was indexed in this step.
NewIsReady ==
  \A d \in Documents :
    docs'[d].current \in {0, docs[d].current} \/ versions'[docs'[d].current].index = "ready"

\* No upload, restore or reindex puts an unsearchable version in the place of one
\* that stays searchable.
THEOREM ServesNoWorse == Spec => NeverServesWorse
<1> DEFINE Keeps == \A d \in Documents :
                      LET c == docs[d].current
                          n == docs'[d].current
                      IN  c # 0 /\ n # 0 /\ versions[c].index = "ready" /\ versions'[c].index = "ready"
                            => versions'[n].index = "ready"
<1>1. ASSUME TypeOK, NEW d \in Documents, NEW content \in Contents, NEW ok \in BOOLEAN,
             Create(d, content, ok)
      PROVE  NewIsReady
  <2> DEFINE n == Len(versions) + 1
  <2>1. /\ n \in 1..MaxVersions /\ docs' = ServedNow(d, n, ok)
        /\ versions'[n].index = (IF ok THEN "ready" ELSE "failed")
    BY <1>1, CreateIs
  <2> HIDE DEF n
  <2>2. n \in VersionIds
    BY <2>1 DEF VersionIds
  <2>3. /\ docs'[d].current = IF ok THEN n ELSE docs[d].current
        /\ \A e \in Documents : e # d => docs'[e] = docs[e]
    BY <1>1, <2>1, <2>2, ServedNowIs DEF TypeOK
  <2> QED BY <2>1, <2>3 DEF NewIsReady
<1>2. ASSUME IInv, NEW v \in DOMAIN versions, NEW ok \in BOOLEAN, ReindexVersion(v, ok)
      PROVE  NewIsReady
  <2> DEFINE d == versions[v].doc
  <2>1. versions[v] \in Version /\ v \in VersionIds
    BY <1>2, VersionsAre, KnowledgeAssumption DEF IInv, TypeOK, VersionIds
  <2>2. d \in Documents
    BY <1>2, <2>1 DEF ReindexVersion, Version
  <2>3. (ok /\ TakesOver(v)) \in BOOLEAN
    BY DEF TakesOver
  <2>4. docs' = ServedNow(d, v, ok /\ TakesOver(v))
    BY <1>2 DEF ReindexVersion
  <2>5. versions'[v] = Indexed(versions[v], ok)
    BY <1>2 DEF ReindexVersion
  <2>6. ok => versions'[v].index = "ready"
    BY <2>5 DEF Indexed
  <2>7. /\ docs'[d].current = IF ok /\ TakesOver(v) THEN v ELSE docs[d].current
        /\ \A e \in Documents : e # d => docs'[e] = docs[e]
    BY <1>2, <2>1, <2>2, <2>3, <2>4, ServedNowIs DEF IInv, TypeOK
  <2> QED BY <2>6, <2>7 DEF NewIsReady
<1>3. ASSUME docs' = docs
      PROVE  NewIsReady
  BY <1>3 DEF NewIsReady
<1>4. ASSUME IInv, NEW d \in Documents, SoftDelete(d) \/ RestoreDocument(d) \/ Purge(d)
      PROVE  NewIsReady
  <2>1. \A e \in Documents : docs'[e].current \in {0, docs[e].current}
    BY <1>4 DEF SoftDelete, RestoreDocument, Purge, IInv, TypeOK, Document
  <2> QED BY <2>1 DEF NewIsReady
<1>5. ASSUME IInv, NEW u \in Uploads, Session(u)
      PROVE  NewIsReady
  <2>1. ASSUME NEW ok \in BOOLEAN, NEW d \in Documents, CommitNew(u, d, ok)
        PROVE  NewIsReady
    BY <1>1, <1>5, <2>1, CompleteIs DEF CommitNew, IInv
  <2>2. ASSUME NEW ok \in BOOLEAN, CommitReplacement(u, ok)
        PROVE  NewIsReady
    <3>1. uploads[u].replaces \in Documents
      BY <1>5, <2>2 DEF CommitReplacement, Replaceable, IInv, TypeOK, Upload
    <3> QED BY <1>1, <1>5, <2>2, <3>1, CompleteIs DEF CommitReplacement, Replaceable, IInv
  <2> QED BY <1>3, <1>5, <2>1, <2>2 DEF Session, BeginUpload, AppendUpload, CommitSame, Cancel
<1>6. ASSUME IInv, Library
      PROVE  NewIsReady
  <2>1. ASSUME NEW v \in DOMAIN versions, NEW ok \in BOOLEAN, RestoreVersion(v, ok)
        PROVE  NewIsReady
    <3>1. versions[v].doc \in Documents /\ versions[v].content \in Contents
      BY <1>6, <2>1, VersionsAre DEF RestoreVersion, Version, IInv, TypeOK
    <3> QED BY <1>1, <1>6, <2>1, <3>1 DEF RestoreVersion, IInv
  <2> QED BY <1>2, <1>4, <1>6, <2>1 DEF Library
<1>7. ASSUME NEW j \in Jobs, Embedding(j)
      PROVE  NewIsReady
  BY <1>3, <1>7 DEF Embedding, StartJob, Disable, MarkIndexing, Replace, EmbedFails,
                    RecordFailure, Interrupt
<1>8. NewIsReady => Keeps
  BY DEF NewIsReady
<1>9. IInv /\ [Next]_vars => [Keeps]_vars
  <2>1. IInv /\ Next => NewIsReady
    BY <1>5, <1>6, <1>7 DEF Next
  <2> QED BY <1>8, <2>1
<1> QED BY <1>9, Always, PTL DEF Spec, NeverServesWorse

-----------------------------------------------------------------------------
(***************************************************************************)
(* Files and the restore of a backup over them (StackRestore).             *)
(***************************************************************************)

\* No log beside the file.
NoLog(f) == f \in Databases => wal[f] = NoFile

Noting == DOMAIN journal.operations

\* An operation on the i-th file of the archive, which tells whether it has a copy.
Describes(op, i) == op.file = Archived[i] /\ (op.had <=> copies[Archived[i]] # NoFile)

CopiedOwn == IF copies[Env] # NoFile THEN ownCopy ELSE NoFile

AsCopied(f) == main[f] = copies[f] /\ NoLog(f) /\ (f = Env => own = CopiedOwn)
AsArchived(f) == main[f] = Backup /\ NoLog(f)

\* The journal names the files in their order, and while it is pending the memory
\* gateway is down.
Journalled ==
  /\ Len(journal.operations) <= Len(Archived)
  /\ \A i \in Noting : Describes(journal.operations[i], i)
  /\ main[Env] = NoFile => own = NoFile
  /\ ~At("off") => Pending
  /\ up => ~Pending

\* Going forward, everything before the file at hand is replaced, and the file
\* at hand is noted with a copy of what it was; the own part of settings.env is
\* what its copy has.
Forth ==
  proc.pc \in Inside \cup {"finish"} =>
    /\ proc.at \in 1..Len(Archived)
    /\ proc.undo = journal.operations /\ proc.ops = journal.operations
    /\ ~proc.errors
    /\ \A i \in Noting : Archived[i] = Env => own = CopiedOwn
    /\ Len(journal.operations) = IF proc.pc \in {"prepare", "save", "note"} THEN proc.at - 1
                                                                            ELSE proc.at
    /\ proc.pc \in {"save", "note"} => NoLog(File)
    /\ At("note") => /\ main[File] = copies[File]
                     /\ File = Env => ownCopy = own
    /\ \A i \in 1..(proc.at - 1) : AsArchived(Archived[i])
    /\ proc.pc \in {"unlink", "done", "finish"} => AsArchived(File)
    /\ At("finish") => proc.at = Len(Archived)
    /\ proc.pc \in {"done", "finish"} /\ File = Env => ~bak

\* Going back, what is noted and no longer in the list "undo" is as it was, unless
\* there were errors; the process may have one operation more than the journal, of
\* a file that is as it was.
Back ==
  proc.pc \in {"undo", "unbak", "report"} =>
    /\ Len(proc.ops) <= Len(Archived) /\ Len(proc.undo) <= Len(proc.ops)
    /\ Len(proc.ops) \in {Len(journal.operations), Len(journal.operations) + 1}
    /\ \A i \in DOMAIN proc.ops : Describes(proc.ops[i], i)
    /\ \A i \in DOMAIN proc.undo : Describes(proc.undo[i], i)
    /\ Len(proc.ops) > Len(journal.operations) => AsCopied(Archived[Len(proc.ops)])
    /\ ~proc.errors => \A i \in Noting : i > Len(proc.undo) => AsCopied(Archived[i])
    /\ proc.pc \in {"unbak", "report"} => proc.undo = <<>>
    /\ At("report") => ~bak

RestoreInv == RestoreTypeOK /\ Journalled /\ Forth /\ Back

NotedFiles == {Archived[i] : i \in Noting}

\* What the memory gateway will find, as the invariant tells it.
Kept == [f \in Files |-> IF Pending /\ f \in NotedFiles THEN copies[f] ELSE Content(f)]
KeptOwn == IF Pending /\ Env \in NotedFiles THEN CopiedOwn ELSE own
KeptIs == Found = Kept /\ FoundOwn = KeptOwn

-----------------------------------------------------------------------------
(* What the memory gateway will find *)

LEMMA ArchiveIs ==
  /\ Len(Archived) \in Nat \ {0}
  /\ \A i \in 1..Len(Archived) : Archived[i] \in Files
  /\ \A i, j \in 1..Len(Archived) : Archived[i] = Archived[j] => i = j
  /\ \A i \in 1..Len(Archived) : Archived[i] = Env => i = Len(Archived)
  /\ Env \in Files /\ Env \notin Databases /\ Databases \subseteq Files
  /\ Range(Archived) = {Archived[i] : i \in 1..Len(Archived)}
BY RestoreAssumption DEF IsInjective, Range

LEMMA NotingIs ==
  ASSUME RestoreTypeOK, Journalled
  PROVE  /\ Len(journal.operations) \in Nat
         /\ Noting = 1..Len(journal.operations)
         /\ Noting \subseteq 1..Len(Archived)
         /\ \A i \in Noting : journal.operations[i] \in Operation
<1>1. journal.operations \in Seq(Operation)
  BY DEF RestoreTypeOK
<1> QED BY <1>1, ArchiveIs DEF Journalled, Noting

\* A file is noted once, so it is as its copy when the journal is rolled back.
LEMMA FoundIsKept == RestoreInv => KeptIs
<1> SUFFICES ASSUME RestoreInv PROVE KeptIs
  OBVIOUS
<1>1. ASSUME NEW i \in Noting
      PROVE  Noted(Archived[i]) = {i} /\ FirstNoted(Archived[i]) = journal.operations[i]
  <2>1. i \in Nat /\ \A j \in Noting : journal.operations[j].file = Archived[j]
    BY NotingIs DEF RestoreInv, Journalled, Describes
  <2>2. \A j \in Noting : Archived[j] = Archived[i] => j = i
    BY NotingIs, ArchiveIs DEF RestoreInv
  <2>3. Noted(Archived[i]) = {i}
    BY <2>1, <2>2 DEF Noted, Noting
  <2> QED BY <2>1, <2>3 DEF FirstNoted
<1>2. \A i \in Noting :
        /\ journal.operations[i].file = Archived[i]
        /\ journal.operations[i].had <=> copies[Archived[i]] # NoFile
  BY DEF RestoreInv, Journalled, Describes
<1>3. \A f : f \notin NotedFiles => Noted(f) = {}
  BY <1>2 DEF Noted, NotedFiles, Noting
<1>4. ASSUME NEW f \in Files
      PROVE  (IF Pending /\ Noted(f) # {} THEN Undone(FirstNoted(f)) ELSE Content(f))
             = IF Pending /\ f \in NotedFiles THEN copies[f] ELSE Content(f)
  <2>1. CASE f \in NotedFiles
    <3>1. PICK i \in Noting : f = Archived[i]
      BY <2>1 DEF NotedFiles
    <3> QED BY <1>1, <1>2, <2>1, <3>1 DEF Undone
  <2>2. CASE f \notin NotedFiles
    BY <1>3, <2>2
  <2> QED BY <2>1, <2>2
<1>5. FoundOwn = KeptOwn
  <2>1. CASE Env \in NotedFiles
    <3>1. PICK i \in Noting : Env = Archived[i]
      BY <2>1 DEF NotedFiles
    <3> QED BY <1>1, <1>2, <2>1, <3>1 DEF FoundOwn, KeptOwn, CopiedOwn
  <2>2. CASE Env \notin NotedFiles
    BY <1>3, <2>2 DEF FoundOwn, KeptOwn
  <2> QED BY <2>1, <2>2
<1> QED BY <1>4, <1>5 DEF KeptIs, Found, Kept

LEMMA InitRestore == RestoreInit => RestoreInv
<1> SUFFICES ASSUME RestoreInit PROVE RestoreInv
  OBVIOUS
<1>1. RestoreTypeOK
  <2>1. Off \in Proc
    BY ArchiveIs DEF Off, Proc
  <2>2. journal \in [status: Closed \cup {"prepared", "rollback_incomplete"},
                     operations: Seq(Operation)]
    BY DEF RestoreInit, Closed
  <2>3. main \in [Files -> Held] /\ wal \in [Databases -> Held] /\ copies \in [Files -> Held]
    BY DEF RestoreInit, Held
  <2>4. own \in Own \cup {NoFile} /\ ownCopy \in Own \cup {NoFile} /\ bak \in BOOLEAN
    BY DEF RestoreInit
  <2>5. \A d \in Databases : wal[d] = NoFile
    BY DEF RestoreInit
  <2>6. work \in 0..MaxWork /\ restores \in 0..MaxRestores /\ faults \in 0..MaxFaults
    BY RestoreAssumption DEF RestoreInit
  <2>7. proc \in Proc
    BY <2>1 DEF RestoreInit
  <2>8. up \in BOOLEAN
    BY DEF RestoreInit
  <2> QED BY <2>2, <2>3, <2>4, <2>5, <2>6, <2>7, <2>8 DEF RestoreTypeOK
<1>2. journal.operations = <<>> /\ journal.status = "complete" /\ proc.pc = "off"
  BY DEF RestoreInit, Off
<1>3. Journalled
  BY <1>2, ArchiveIs DEF Journalled, RestoreInit, Noting, At, Pending, Closed
<1> QED BY <1>1, <1>2, <1>3 DEF RestoreInv, Forth, Back, Inside

-----------------------------------------------------------------------------
(* What a step does *)

\* The memory gateway will find what it would have.
Same == Kept' = Kept /\ KeptOwn' = KeptOwn

\* Nothing but the process and the second copy of settings.env changes.
Quiet == UNCHANGED <<main, wal, own, journal, copies, ownCopy, up>>

LEMMA QuietSame == Quiet => Same
BY DEF Quiet, Same, Kept, KeptOwn, CopiedOwn, NotedFiles, Noting, Pending, Content

LEMMA QuietKeeps ==
  ASSUME RestoreInv, Quiet, proc' \in Proc, bak' \in BOOLEAN, ~At("off")' => Pending,
         work' \in 0..MaxWork, restores' \in 0..MaxRestores, faults' \in 0..MaxFaults
  PROVE  RestoreTypeOK' /\ Journalled'
<1>1. RestoreTypeOK'
  BY DEF RestoreInv, Quiet, RestoreTypeOK
<1>2. Journalled'
  BY DEF RestoreInv, Quiet, Journalled, Noting, Describes, CopiedOwn, Pending
<1> QED BY <1>1, <1>2

LEMMA BakKeeps ==
  ASSUME RestoreInv, Bak
  PROVE  RestoreInv' /\ Same
<1>1. Quiet /\ proc' = [proc EXCEPT !.pc = "replace"] /\ proc.pc = "bak"
  BY DEF Bak, Quiet, stack, saved, others, Goto, At
<1>2. proc' \in Proc /\ bak' \in BOOLEAN
  <2>1. proc' \in Proc
    BY <1>1 DEF RestoreInv, RestoreTypeOK, Proc
  <2>2. bak' = TRUE \/ bak' = FALSE
    BY Zenon DEF Bak
  <2> QED BY <2>1, <2>2
<1>3. RestoreTypeOK' /\ Journalled'
  BY <1>1, <1>2, QuietKeeps DEF Bak, others, RestoreInv, RestoreTypeOK, Journalled, At
<1>4. Forth'
  BY <1>1 DEF RestoreInv, RestoreTypeOK, Proc, Forth, Inside, Quiet, Noting, CopiedOwn,
     AsArchived, NoLog, File, At
<1>5. Back'
  BY <1>1 DEF RestoreInv, RestoreTypeOK, Proc, Back
<1> QED BY <1>1, <1>3, <1>4, <1>5, QuietSame DEF RestoreInv

LEMMA UnlinkKeeps ==
  ASSUME RestoreInv, Unlink
  PROVE  RestoreInv' /\ Same
<1>1. Quiet /\ proc' = [proc EXCEPT !.pc = "done"] /\ proc.pc = "unlink" /\ ~bak'
  BY DEF Unlink, Quiet, stack, saved, others, Goto, At
<1>2. proc' \in Proc /\ bak' \in BOOLEAN
  BY <1>1 DEF RestoreInv, RestoreTypeOK, Proc, Unlink
<1>3. RestoreTypeOK' /\ Journalled'
  BY <1>1, <1>2, QuietKeeps DEF Unlink, others, RestoreInv, RestoreTypeOK, Journalled, At
<1>4. Forth'
  BY <1>1 DEF RestoreInv, RestoreTypeOK, Proc, Forth, Inside, Quiet, Noting, CopiedOwn,
     AsArchived, NoLog, File, At
<1>5. Back'
  BY <1>1 DEF RestoreInv, RestoreTypeOK, Proc, Back
<1> QED BY <1>1, <1>3, <1>4, <1>5, QuietSame DEF RestoreInv

LEMMA DoneKeeps ==
  ASSUME RestoreInv, Done
  PROVE  RestoreInv' /\ Same
<1>1. Quiet /\ proc.pc = "done" /\ bak' = bak
  BY DEF Done, Quiet, stack, saved, others, At
<1>2. proc' = IF proc.at < Len(Archived) THEN [proc EXCEPT !.pc = "prepare", !.at = proc.at + 1]
                                         ELSE [proc EXCEPT !.pc = "finish"]
  BY DEF Done
<1>3. /\ proc.at \in 1..Len(Archived) /\ ~proc.errors
      /\ proc.undo = journal.operations /\ proc.ops = journal.operations
      /\ \A i \in Noting : Archived[i] = Env => own = CopiedOwn
      /\ Len(journal.operations) = proc.at /\ AsArchived(File)
      /\ \A i \in 1..(proc.at - 1) : AsArchived(Archived[i])
  BY <1>1 DEF RestoreInv, Forth, Inside
<1>4. proc' \in Proc /\ bak' \in BOOLEAN
  <2>1. proc \in Proc /\ bak \in BOOLEAN
    BY DEF RestoreInv, RestoreTypeOK
  <2>2. proc.at < Len(Archived) => proc.at + 1 \in 0..Len(Archived)
    BY <1>3, ArchiveIs
  <2>3. CASE proc.at < Len(Archived)
    BY <1>1, <1>2, <2>1, <2>2, <2>3 DEF Proc
  <2>4. CASE ~(proc.at < Len(Archived))
    BY <1>1, <1>2, <2>1, <2>4 DEF Proc
  <2> QED BY <2>3, <2>4
<1>5. RestoreTypeOK' /\ Journalled'
  BY <1>1, <1>4, QuietKeeps DEF Done, others, RestoreInv, RestoreTypeOK, Journalled, At
<1>6. \A i \in 1..proc.at : AsArchived(Archived[i])'
  <2> SUFFICES ASSUME NEW i \in 1..proc.at PROVE AsArchived(Archived[i])
    BY <1>1 DEF AsArchived, NoLog, Quiet
  <2>1. i = proc.at \/ i \in 1..(proc.at - 1)
    BY <1>3, ArchiveIs
  <2> QED BY <1>3, <2>1 DEF File
<1>7. Forth'
  <2>1. CASE proc.at < Len(Archived)
    <3>1. /\ proc'.pc = "prepare" /\ proc'.at = proc.at + 1 /\ proc'.undo = proc.undo
          /\ proc'.ops = proc.ops /\ proc'.errors = proc.errors
      BY <1>2, <2>1 DEF RestoreInv, RestoreTypeOK, Proc
    <3>2. proc'.at - 1 = proc.at /\ proc'.at \in 1..Len(Archived)
      BY <1>3, <2>1, <3>1, ArchiveIs
    <3> QED BY <1>1, <1>3, <1>6, <3>1, <3>2 DEF Forth, Quiet, Noting, CopiedOwn, At
  <2>2. CASE ~(proc.at < Len(Archived))
    <3>1. proc' = [proc EXCEPT !.pc = "finish"] /\ proc.at = Len(Archived)
      BY <1>2, <1>3, <2>2, ArchiveIs
    <3> QED BY <1>1, <1>3, <3>1
            DEF RestoreInv, RestoreTypeOK, Proc, Forth, Inside, Quiet, Noting, CopiedOwn,
                AsArchived, NoLog, File, At
  <2> QED BY <2>1, <2>2
<1>8. proc'.pc \in {"prepare", "finish"}
  BY <1>2 DEF RestoreInv, RestoreTypeOK, Proc
<1> QED BY <1>1, <1>5, <1>7, <1>8, QuietSame DEF RestoreInv, Back

LEMMA DieKeeps ==
  ASSUME RestoreInv, Die
  PROVE  RestoreInv' /\ Same
<1>1. Quiet /\ proc' = Off /\ bak' = bak
  BY DEF Die, Quiet, stack, saved
<1>2. proc' \in Proc /\ proc'.pc = "off"
  BY <1>1, ArchiveIs DEF Off, Proc
<1>3. work' \in 0..MaxWork /\ restores' \in 0..MaxRestores /\ faults' \in 0..MaxFaults
  BY RestoreAssumption DEF Die, Fault, RestoreInv, RestoreTypeOK
<1>4. RestoreTypeOK' /\ Journalled'
  BY <1>1, <1>2, <1>3, QuietKeeps DEF RestoreInv, RestoreTypeOK, At
<1> QED BY <1>1, <1>2, <1>4, QuietSame DEF RestoreInv, Forth, Back, Inside

LEMMA UnbakKeeps ==
  ASSUME RestoreInv, Unbak
  PROVE  RestoreInv' /\ Same
<1>1. Quiet /\ proc' = [proc EXCEPT !.pc = "report"] /\ proc.pc = "unbak" /\ ~bak'
  BY DEF Unbak, Quiet, stack, saved, others, Goto, At
<1>2. proc' \in Proc /\ bak' \in BOOLEAN
  BY <1>1 DEF RestoreInv, RestoreTypeOK, Proc, Unbak
<1>3. RestoreTypeOK' /\ Journalled'
  BY <1>1, <1>2, QuietKeeps DEF Unbak, others, RestoreInv, RestoreTypeOK, Journalled, At
<1>4. /\ proc'.pc = "report" /\ proc'.undo = proc.undo /\ proc'.ops = proc.ops
      /\ proc'.errors = proc.errors
  BY <1>1 DEF RestoreInv, RestoreTypeOK, Proc
<1>5. Back'
  BY <1>1, <1>4 DEF RestoreInv, Back, Quiet, Noting, Describes, AsCopied, NoLog, CopiedOwn, At
<1>6. Forth'
  BY <1>4 DEF Forth, Inside
<1> QED BY <1>1, <1>3, <1>5, <1>6, QuietSame DEF RestoreInv

LEMMA UndoEndsKeeps ==
  ASSUME RestoreInv, UndoEnds
  PROVE  RestoreInv' /\ Same
<1>1. Quiet /\ proc' = [proc EXCEPT !.pc = "unbak"] /\ proc.pc = "undo" /\ proc.undo = <<>>
      /\ bak' = bak
  BY DEF UndoEnds, Quiet, stack, saved, others, Goto, At
<1>2. proc' \in Proc /\ bak' \in BOOLEAN
  BY <1>1 DEF RestoreInv, RestoreTypeOK, Proc
<1>3. RestoreTypeOK' /\ Journalled'
  BY <1>1, <1>2, QuietKeeps DEF UndoEnds, others, RestoreInv, RestoreTypeOK, Journalled, At
<1>4. /\ proc'.pc = "unbak" /\ proc'.undo = proc.undo /\ proc'.ops = proc.ops
      /\ proc'.errors = proc.errors
  BY <1>1 DEF RestoreInv, RestoreTypeOK, Proc
<1>5. Back'
  BY <1>1, <1>4 DEF RestoreInv, Back, Quiet, Noting, Describes, AsCopied, NoLog, CopiedOwn, At
<1>6. Forth'
  BY <1>4 DEF Forth, Inside
<1> QED BY <1>1, <1>3, <1>5, <1>6, QuietSame DEF RestoreInv

\* Whoever starts to roll back has the whole journal before it, and may have the
\* operation that could not be noted.
LEMMA TurnBack ==
  ASSUME RestoreInv, Quiet, bak' = bak, Pending, proc' \in Proc, proc'.pc = "undo", ~proc'.errors,
         proc'.ops = proc'.undo,
         \/ proc'.undo = journal.operations
         \/ /\ At("note")
            /\ proc'.undo = Append(journal.operations, [file |-> File, had |-> HasCopy])
  PROVE  Forth' /\ Back'
<1>1. Forth'
  BY DEF Forth, Inside
<1>2. PICK u : u = proc'.undo
  OBVIOUS
<1>3. /\ Len(u) <= Len(Archived)
      /\ Len(u) \in {Len(journal.operations), Len(journal.operations) + 1}
      /\ \A i \in DOMAIN u : Describes(u[i], i)
      /\ Len(u) > Len(journal.operations) => AsCopied(Archived[Len(u)])
      /\ \A i \in Noting : ~(i > Len(u))
  <2>1. CASE u = journal.operations
    BY <2>1, NotingIs DEF RestoreInv, Journalled, Noting
  <2>2. CASE /\ At("note")
             /\ u = Append(journal.operations, [file |-> File, had |-> HasCopy])
    <3> DEFINE n == Len(journal.operations) + 1
               op == [file |-> File, had |-> HasCopy]
    <3>1. /\ proc.at = n /\ n \in 1..Len(Archived) /\ NoLog(File) /\ main[File] = copies[File]
          /\ File = Env => ownCopy = own
      BY <2>2, NotingIs DEF RestoreInv, Forth, Inside, At
    <3>2. journal.operations \in Seq(Operation)
      BY DEF RestoreInv, RestoreTypeOK
    <3>3. /\ Len(u) = n /\ DOMAIN u = 1..n /\ u[n] = op
          /\ \A i \in 1..(n - 1) : u[i] = journal.operations[i]
      BY <2>2, <3>2
    <3>4. Describes(op, n)
      BY <3>1, Zenon DEF Describes, HasCopy, File
    <3>5. \A i \in 1..(n - 1) : Describes(journal.operations[i], i)
      BY NotingIs DEF RestoreInv, Journalled
    <3>6. ASSUME NEW i \in 1..n PROVE Describes(u[i], i)
      <4>1. i = n \/ i \in 1..(n - 1)
        BY NotingIs DEF RestoreInv
      <4> QED BY <3>3, <3>4, <3>5, <4>1
    <3>7. AsCopied(Archived[n])
      <4>1. main[Env] = NoFile => own = NoFile
        BY DEF RestoreInv, Journalled
      <4> QED BY <3>1, <4>1 DEF AsCopied, NoLog, CopiedOwn, File
    <3> QED BY <3>1, <3>3, <3>6, <3>7, NotingIs DEF RestoreInv
  <2> QED BY <1>2, <2>1, <2>2
<1>4. Back'
  BY <1>2, <1>3 DEF Back, Quiet, Noting, Describes, AsCopied, NoLog, CopiedOwn, At
<1> QED BY <1>1, <1>4

LEMMA RecoverKeeps ==
  ASSUME RestoreInv, Recover
  PROVE  RestoreInv' /\ Same
<1>1. Quiet /\ Pending /\ bak' = bak
      /\ proc' = [Off EXCEPT !.pc = "undo", !.ops = journal.operations,
                             !.undo = journal.operations, !.recovering = TRUE]
  BY DEF Recover, Quiet, stack, saved, others
<1>2. /\ proc' \in Proc /\ proc'.pc = "undo" /\ ~proc'.errors
      /\ proc'.undo = journal.operations /\ proc'.ops = journal.operations
  <2>1. journal.operations \in Seq(Operation)
    BY DEF RestoreInv, RestoreTypeOK
  <2>2. proc' = [pc |-> "undo", at |-> 0, ops |-> journal.operations,
                 undo |-> journal.operations, errors |-> FALSE, recovering |-> TRUE]
    BY <1>1 DEF Off
  <2>3. 0 \in 0..Len(Archived)
    BY ArchiveIs
  <2> QED BY <2>1, <2>2, <2>3 DEF Proc
<1>3. RestoreTypeOK' /\ Journalled'
  BY <1>1, <1>2, QuietKeeps DEF Recover, others, RestoreInv, RestoreTypeOK
<1> QED BY <1>1, <1>2, <1>3, TurnBack, QuietSame DEF RestoreInv

\* An operation that could not be undone leaves the list, and that is an error.
LEMMA GiveUp ==
  ASSUME RestoreInv, Quiet, bak' = bak, At("undo"), proc.undo # <<>>, NotUndone
  PROVE  proc' \in Proc /\ Forth' /\ Back'
<1>1. CASE proc.recovering
  <2>1. proc' = Off
    BY <1>1 DEF NotUndone
  <2>2. proc' \in Proc /\ proc'.pc = "off"
    BY <2>1, ArchiveIs DEF Off, Proc
  <2> QED BY <2>2 DEF Forth, Back, Inside
<1>2. CASE ~proc.recovering
  <2>1. proc.undo \in Seq(Operation) /\ proc.undo # <<>> /\ proc \in Proc
    BY DEF RestoreInv, RestoreTypeOK, Proc
  <2>2. PICK u : u = Front(proc.undo)
    OBVIOUS
  <2>3. /\ u \in Seq(Operation) /\ Len(u) = Len(proc.undo) - 1 /\ Len(u) \in Nat
        /\ DOMAIN u = 1..Len(u) /\ DOMAIN proc.undo = 1..Len(proc.undo)
        /\ \A i \in DOMAIN u : i \in DOMAIN proc.undo /\ u[i] = proc.undo[i]
    BY <2>1, <2>2 DEF Front
  <2>4. proc' = [proc EXCEPT !.undo = u, !.errors = TRUE]
    BY <1>2, <2>2 DEF NotUndone
  <2>5. /\ proc' \in Proc /\ proc'.pc = "undo" /\ proc'.errors /\ proc'.undo = u
        /\ proc'.ops = proc.ops
    BY <2>1, <2>3, <2>4 DEF Proc, At
  <2>6. /\ Len(proc.undo) <= Len(proc.ops) /\ Len(proc.ops) \in Nat
        /\ \A i \in DOMAIN proc.undo : Describes(proc.undo[i], i)
    BY <2>1 DEF RestoreInv, Back, At, Proc
  <2>7. \A i \in DOMAIN u : Describes(u[i], i)
    BY <2>3, <2>6
  <2>8. Len(u) <= Len(proc.ops)
    BY <2>1, <2>3, <2>6
  <2>9. Back'
    BY <2>3, <2>5, <2>7, <2>8, NotingIs
       DEF RestoreInv, Back, Quiet, Describes, AsCopied, NoLog, CopiedOwn, At
  <2> QED BY <2>5, <2>9 DEF Forth, Inside
<1> QED BY <1>1, <1>2

LEMMA UndoRefusedKeeps ==
  ASSUME RestoreInv, UndoRefused
  PROVE  RestoreInv' /\ Same
<1>1. Quiet /\ bak' = bak
  BY DEF UndoRefused, Quiet, stack, saved, others
<1>2. proc' \in Proc /\ Forth' /\ Back'
  BY <1>1, GiveUp DEF UndoRefused
<1>3. RestoreTypeOK' /\ Journalled'
  BY <1>1, <1>2, QuietKeeps
     DEF UndoRefused, others, RestoreInv, RestoreTypeOK, Journalled, At
<1> QED BY <1>1, <1>2, <1>3, QuietSame DEF RestoreInv

LEMMA FailKeeps ==
  ASSUME RestoreInv, Fail
  PROVE  RestoreInv' /\ Same
<1>1. Quiet /\ bak' = bak
  BY DEF Fail, Quiet, stack, saved
<1>2. proc \in Proc /\ journal.operations \in Seq(Operation)
  BY DEF RestoreInv, RestoreTypeOK
<1>3. /\ work' \in 0..MaxWork /\ restores' \in 0..MaxRestores /\ faults' \in 0..MaxFaults
  BY RestoreAssumption DEF Fail, Fault, RestoreInv, RestoreTypeOK
<1>4. ~At("off")
  BY DEF Fail, At, Inside
<1>5. Pending
  BY <1>4 DEF RestoreInv, Journalled
<1>6. proc' \in Proc /\ Forth' /\ Back'
  <2>1. CASE proc.pc \in Inside /\ proc' = [proc EXCEPT !.pc = "undo"]
    <3>1. proc.undo = journal.operations /\ proc.ops = journal.operations /\ ~proc.errors
      BY <2>1 DEF RestoreInv, Forth
    <3>2. /\ proc' \in Proc /\ proc'.pc = "undo" /\ ~proc'.errors
          /\ proc'.undo = journal.operations /\ proc'.ops = proc'.undo
      BY <1>2, <2>1, <3>1 DEF Proc
    <3> QED BY <1>1, <1>5, <3>2, TurnBack
  <2>2. CASE /\ At("note")
             /\ proc' = [proc EXCEPT !.pc = "undo",
                                     !.ops = Append(proc.ops, [file |-> File, had |-> HasCopy]),
                                     !.undo = Append(proc.undo, [file |-> File, had |-> HasCopy])]
    <3>1. /\ proc.undo = journal.operations /\ proc.ops = journal.operations /\ ~proc.errors
          /\ proc.at \in 1..Len(Archived)
      BY <2>2 DEF RestoreInv, Forth, At, Inside
    <3>2. HasCopy \in BOOLEAN
      BY DEF HasCopy
    <3>3. [file |-> File, had |-> HasCopy] \in Operation
      BY <3>1, <3>2, ArchiveIs DEF File, Operation
    <3>4. PICK u : u = Append(journal.operations, [file |-> File, had |-> HasCopy])
      OBVIOUS
    <3>5. u \in Seq(Operation)
      BY <1>2, <3>3, <3>4
    <3>6. proc' = [proc EXCEPT !.pc = "undo", !.ops = u, !.undo = u]
      BY <2>2, <3>1, <3>4
    <3>7. /\ proc' \in Proc /\ proc'.pc = "undo" /\ ~proc'.errors
          /\ proc'.undo = u /\ proc'.ops = u
      BY <1>2, <3>1, <3>5, <3>6 DEF Proc
    <3> QED BY <1>1, <1>5, <2>2, <3>4, <3>7, TurnBack
  <2>3. CASE At("undo") /\ proc.undo # <<>> /\ NotUndone
    BY <1>1, <2>3, GiveUp
  <2>4. CASE proc.pc \in {"unbak", "report", "finish"} /\ proc' = Off
    <3>1. proc' \in Proc /\ proc'.pc = "off"
      BY <2>4, ArchiveIs DEF Off, Proc
    <3> QED BY <3>1 DEF Forth, Back, Inside
  <2> QED BY <2>1, <2>2, <2>3, <2>4 DEF Fail
<1>7. RestoreTypeOK' /\ Journalled'
  BY <1>1, <1>2, <1>3, <1>5, <1>6, QuietKeeps DEF RestoreInv, RestoreTypeOK
<1> QED BY <1>1, <1>6, <1>7, QuietSame DEF RestoreInv

\* The log of the file at hand goes into it.
LEMMA PrepareKeeps ==
  ASSUME RestoreInv, Prepare
  PROVE  RestoreInv' /\ Same
<1>1. /\ proc.pc = "prepare" /\ proc' = [proc EXCEPT !.pc = "save"]
      /\ main' = [main EXCEPT ![File] = Content(File)]
      /\ UNCHANGED <<own, bak, journal, copies, ownCopy, up, work, restores, faults>>
  BY DEF Prepare, Goto, At, saved, others
<1>2. /\ proc.at \in 1..Len(Archived) /\ Len(journal.operations) = proc.at - 1
      /\ proc.undo = journal.operations /\ proc.ops = journal.operations /\ ~proc.errors
      /\ \A i \in Noting : Archived[i] = Env => own = CopiedOwn
      /\ \A i \in 1..(proc.at - 1) : AsArchived(Archived[i])
  BY <1>1 DEF RestoreInv, Forth, Inside
<1>3. File \in Files /\ \A i \in 1..(proc.at - 1) : Archived[i] # File
  BY <1>2, ArchiveIs DEF File
<1>4. /\ wal' \in [Databases -> Held] /\ NoLog(File)'
      /\ \A d \in Databases : wal'[d] = IF d = File THEN NoFile ELSE wal[d]
  BY <1>1 DEF Prepare, Folded, NoLog, RestoreInv, RestoreTypeOK, Held, File
<1>5. /\ main' \in [Files -> Held] /\ main'[File] = Content(File)
      /\ \A f \in Files : f # File => main'[f] = main[f]
  BY <1>1, <1>3 DEF RestoreInv, RestoreTypeOK, Content
<1>6. \A f \in Files : Content(f)' = Content(f)
  <2> SUFFICES ASSUME NEW f \in Files PROVE Content(f)' = Content(f)
    OBVIOUS
  <2>1. CASE f = File
    BY <1>3, <1>4, <1>5, <2>1 DEF Content, NoLog
  <2>2. CASE f # File
    BY <1>4, <1>5, <2>2 DEF Content
  <2> QED BY <2>1, <2>2
<1>7. main'[Env] = NoFile => own' = NoFile
  <2>1. Content(Env)' = main'[Env] /\ Content(Env) = main[Env]
    BY ArchiveIs DEF Content
  <2> QED BY <1>1, <1>6, <2>1, ArchiveIs DEF RestoreInv, Journalled
<1>8. \A d \in Databases : main'[d] = NoFile => wal'[d] = NoFile
  BY <1>4, <1>5, ArchiveIs DEF RestoreInv, RestoreTypeOK
<1>9. proc' \in Proc /\ proc'.pc = "save" /\ proc'.at = proc.at /\ proc'.undo = proc.undo
      /\ proc'.ops = proc.ops /\ proc'.errors = proc.errors
  BY <1>1 DEF RestoreInv, RestoreTypeOK, Proc
<1>10. RestoreTypeOK'
  BY <1>1, <1>4, <1>5, <1>8, <1>9 DEF RestoreInv, RestoreTypeOK
<1>11. Journalled'
  BY <1>1, <1>7 DEF RestoreInv, Journalled, Noting, Describes, Pending, At
<1>12. \A i \in 1..(proc.at - 1) : AsArchived(Archived[i])'
  BY <1>2, <1>3, <1>4, <1>5, ArchiveIs DEF AsArchived, NoLog
<1>13. Forth'
  BY <1>1, <1>2, <1>4, <1>9, <1>12 DEF Forth, Noting, CopiedOwn, File, At
<1>14. Back'
  BY <1>9 DEF Back
<1>15. Same
  BY <1>1, <1>6 DEF Same, Kept, KeptOwn, CopiedOwn, NotedFiles, Noting, Pending
<1> QED BY <1>10, <1>11, <1>13, <1>14, <1>15 DEF RestoreInv

\* The copy is of a file that is not noted, yet.
LEMMA SaveKeeps ==
  ASSUME RestoreInv, Save
  PROVE  RestoreInv' /\ Same
<1>1. /\ proc.pc = "save" /\ proc' = [proc EXCEPT !.pc = "note"]
      /\ copies' = [copies EXCEPT ![File] = main[File]]
      /\ ownCopy' = IF File = Env THEN own ELSE ownCopy
      /\ UNCHANGED <<main, wal, own, bak, journal, up, work, restores, faults>>
  BY DEF Save, Goto, At, stack, others
<1>2. /\ proc.at \in 1..Len(Archived) /\ Len(journal.operations) = proc.at - 1
      /\ proc.undo = journal.operations /\ proc.ops = journal.operations /\ ~proc.errors
      /\ (\A i \in Noting : Archived[i] = Env => own = CopiedOwn) /\ NoLog(File)
      /\ \A i \in 1..(proc.at - 1) : AsArchived(Archived[i])
  BY <1>1 DEF RestoreInv, Forth, Inside
<1>3. File \in Files /\ \A i \in 1..(proc.at - 1) : Archived[i] # File
  BY <1>2, ArchiveIs DEF File
<1>4. Noting = 1..(proc.at - 1) /\ Noting \subseteq 1..Len(Archived)
  BY <1>2, NotingIs DEF RestoreInv
<1>5. /\ copies' \in [Files -> Held] /\ copies'[File] = main[File]
      /\ \A f \in Files : f # File => copies'[f] = copies[f]
  BY <1>1, <1>3 DEF RestoreInv, RestoreTypeOK
<1>6. \A i \in Noting : copies'[Archived[i]] = copies[Archived[i]]
  BY <1>3, <1>4, <1>5, ArchiveIs
<1>7. proc' \in Proc /\ proc'.pc = "note" /\ proc'.at = proc.at /\ proc'.undo = proc.undo
      /\ proc'.ops = proc.ops /\ proc'.errors = proc.errors
  BY <1>1 DEF RestoreInv, RestoreTypeOK, Proc
<1>8. RestoreTypeOK'
  BY <1>1, <1>5, <1>7 DEF RestoreInv, RestoreTypeOK
<1>9. Journalled'
  <2>1. \A i \in Noting' : Describes(journal.operations[i], i)'
    BY <1>1, <1>6 DEF RestoreInv, Journalled, Describes, Noting
  <2> QED BY <1>1, <1>7, <2>1 DEF RestoreInv, Journalled, Noting, Pending, At
<1>10. \A i \in Noting : Archived[i] = Env => CopiedOwn' = CopiedOwn
  BY <1>1, <1>3, <1>4, <1>6 DEF CopiedOwn
<1>11. Forth'
  <2>1. \A i \in Noting' : Archived[i] = Env => own' = CopiedOwn'
    BY <1>1, <1>2, <1>10 DEF Noting
  <2> QED BY <1>1, <1>2, <1>5, <1>7, <2>1 DEF Forth, File, At, AsArchived, NoLog
<1>12. Back'
  BY <1>7 DEF Back
<1>13. Same
  <2>1. KeptOwn' = KeptOwn
    BY <1>1, <1>10 DEF KeptOwn, NotedFiles, Noting, Pending
  <2> QED BY <1>1, <1>6, <2>1 DEF Same, Kept, NotedFiles, Noting, Pending, Content
<1> QED BY <1>8, <1>9, <1>11, <1>12, <1>13 DEF RestoreInv

\* From here on the copy stands for the file, which is as the copy is.
LEMMA NoteKeeps ==
  ASSUME RestoreInv, Note
  PROVE  RestoreInv' /\ Same
<1> DEFINE n == Len(journal.operations)
<1>1. PICK op : op = [file |-> File, had |-> HasCopy]
  OBVIOUS
<1>2. PICK os : os = Append(journal.operations, op)
  OBVIOUS
<1>3. /\ proc.pc = "note" /\ UNCHANGED <<main, wal, own, copies, ownCopy, bak>>
      /\ UNCHANGED <<up, work, restores, faults>>
      /\ journal' = [journal EXCEPT !.operations = os]
      /\ proc' = [proc EXCEPT !.ops = Append(proc.ops, op), !.undo = Append(proc.undo, op),
                              !.pc = IF File = Env THEN "bak" ELSE "replace"]
  BY <1>1, <1>2 DEF Note, At, stack, others
<1>4. /\ proc.at \in 1..Len(Archived) /\ n = proc.at - 1
      /\ proc.undo = journal.operations /\ proc.ops = journal.operations /\ ~proc.errors
      /\ (\A i \in Noting : Archived[i] = Env => own = CopiedOwn) /\ NoLog(File)
      /\ main[File] = copies[File] /\ (File = Env => ownCopy = own)
      /\ \A i \in 1..(proc.at - 1) : AsArchived(Archived[i])
  BY <1>3 DEF RestoreInv, Forth, Inside, At
<1>5. Pending /\ journal.operations \in Seq(Operation)
  BY <1>3 DEF RestoreInv, Journalled, RestoreTypeOK, At
<1>6. op \in Operation /\ op.file = File /\ (op.had <=> copies[File] # NoFile)
  <2>1. HasCopy \in BOOLEAN /\ (HasCopy <=> copies[File] # NoFile)
    BY DEF HasCopy
  <2>2. File \in Files
    BY <1>4, ArchiveIs DEF File
  <2> QED BY <1>1, <2>1, <2>2 DEF Operation
<1>7. /\ os \in Seq(Operation) /\ Len(os) = proc.at /\ DOMAIN os = 1..proc.at
      /\ os[proc.at] = op /\ \A i \in 1..(proc.at - 1) : os[i] = journal.operations[i]
      /\ Noting = 1..(proc.at - 1)
  BY <1>2, <1>4, <1>5, <1>6, NotingIs DEF RestoreInv
<1>8. proc' = [proc EXCEPT !.ops = os, !.undo = os,
                           !.pc = IF File = Env THEN "bak" ELSE "replace"]
  BY <1>2, <1>3, <1>4
<1>9. /\ proc' \in Proc /\ proc'.at = proc.at /\ proc'.undo = os /\ proc'.ops = os
      /\ proc'.errors = proc.errors
      /\ proc'.pc \in {"bak", "replace"}
  BY <1>7, <1>8 DEF RestoreInv, RestoreTypeOK, Proc
<1>10. journal'.operations = os /\ journal'.status = journal.status
  BY <1>3 DEF RestoreInv, RestoreTypeOK
<1>11. RestoreTypeOK'
  <2>1. journal' \in [status: Closed \cup {"prepared", "rollback_incomplete"},
                      operations: Seq(Operation)]
    BY <1>3, <1>7 DEF RestoreInv, RestoreTypeOK
  <2> QED BY <1>3, <1>9, <2>1 DEF RestoreInv, RestoreTypeOK
<1>12. \A i \in 1..proc.at : Describes(os[i], i)
  <2> SUFFICES ASSUME NEW i \in 1..proc.at PROVE Describes(os[i], i)
    OBVIOUS
  <2>1. i = proc.at \/ i \in 1..(proc.at - 1)
    BY <1>4
  <2>2. CASE i = proc.at
    BY <1>6, <1>7, <2>2 DEF Describes, File
  <2>3. CASE i \in 1..(proc.at - 1)
    BY <1>7, <2>3 DEF RestoreInv, Journalled
  <2> QED BY <2>1, <2>2, <2>3
<1>13. ASSUME NEW i \in 1..proc.at, Archived[i] = Env PROVE own = CopiedOwn
  <2>1. i = proc.at \/ i \in 1..(proc.at - 1)
    BY <1>4
  <2>2. CASE i = proc.at
    BY <1>4, <1>13, <2>2 DEF File, CopiedOwn, RestoreInv, Journalled
  <2>3. CASE i \in 1..(proc.at - 1)
    BY <1>4, <1>7, <1>13, <2>3
  <2> QED BY <2>1, <2>2, <2>3
<1>14. Journalled'
  BY <1>3, <1>4, <1>5, <1>7, <1>9, <1>10, <1>12, ArchiveIs
     DEF RestoreInv, Journalled, Noting, Describes, Pending, At
<1>15. Forth'
  <2>1. \A i \in Noting' : Archived[i] = Env => own' = CopiedOwn'
    BY <1>3, <1>7, <1>10, <1>13 DEF Noting, CopiedOwn
  <2> QED BY <1>3, <1>4, <1>7, <1>9, <1>10, <2>1 DEF Forth, At, AsArchived, NoLog
<1>16. Back'
  BY <1>9 DEF Back
<1>17. NotedFiles' = NotedFiles \cup {File}
  <2>1. NotedFiles' = {Archived[i] : i \in 1..proc.at}
    BY <1>7, <1>10 DEF NotedFiles, Noting
  <2>2. NotedFiles = {Archived[i] : i \in 1..(proc.at - 1)}
    BY <1>7 DEF NotedFiles
  <2>3. \A i \in 1..proc.at : i \in 1..(proc.at - 1) \/ i = proc.at
    BY <1>4
  <2>4. proc.at \in 1..proc.at /\ \A i \in 1..(proc.at - 1) : i \in 1..proc.at
    BY <1>4
  <2> QED BY <2>1, <2>2, <2>3, <2>4 DEF File
<1>18. Same
  <2>1. Pending' /\ Pending
    BY <1>5, <1>10 DEF Pending
  <2>2. ASSUME NEW f \in Files
        PROVE  (IF Pending' /\ f \in NotedFiles' THEN copies'[f] ELSE Content(f)')
               = IF Pending /\ f \in NotedFiles THEN copies[f] ELSE Content(f)
    <3>1. copies'[f] = copies[f] /\ Content(f)' = Content(f)
      BY <1>3 DEF Content
    <3>2. f = File => Content(f) = copies[f]
      BY <1>4 DEF Content, NoLog
    <3> QED BY <1>17, <2>1, <3>1, <3>2
  <2>3. KeptOwn' = KeptOwn
    <3>1. Env \in NotedFiles' => own = CopiedOwn
      BY <1>7, <1>10, <1>13 DEF NotedFiles, Noting
    <3>2. CopiedOwn' = CopiedOwn /\ own' = own
      BY <1>3 DEF CopiedOwn
    <3> QED BY <1>17, <2>1, <3>1, <3>2 DEF KeptOwn
  <2> QED BY <2>2, <2>3 DEF Same, Kept
<1> QED BY <1>11, <1>14, <1>15, <1>16, <1>18 DEF RestoreInv

\* What is replaced is noted.
LEMMA ReplaceFileKeeps ==
  ASSUME RestoreInv, ReplaceFile
  PROVE  RestoreInv' /\ Same
<1>1. /\ proc.pc = "replace"
      /\ proc' = [proc EXCEPT !.pc = IF File = Env THEN "unlink" ELSE "done"]
      /\ main' = [main EXCEPT ![File] = Backup]
      /\ UNCHANGED <<own, bak, journal, copies, ownCopy, up, work, restores, faults>>
  BY DEF ReplaceFile, Goto, At, saved, others
<1>2. /\ proc.at \in 1..Len(Archived) /\ Len(journal.operations) = proc.at
      /\ proc.undo = journal.operations /\ proc.ops = journal.operations /\ ~proc.errors
      /\ \A i \in Noting : Archived[i] = Env => own = CopiedOwn
      /\ \A i \in 1..(proc.at - 1) : AsArchived(Archived[i])
  BY <1>1 DEF RestoreInv, Forth, Inside
<1>3. File \in Files /\ (\A i \in 1..(proc.at - 1) : Archived[i] # File) /\ File \in NotedFiles
  BY <1>2, ArchiveIs, NotingIs DEF File, NotedFiles, RestoreInv
<1>4. Pending
  BY <1>1 DEF RestoreInv, Journalled, At
<1>5. /\ wal' \in [Databases -> Held] /\ NoLog(File)'
      /\ \A d \in Databases : wal'[d] = IF d = File THEN NoFile ELSE wal[d]
  BY <1>1 DEF ReplaceFile, Folded, NoLog, RestoreInv, RestoreTypeOK, Held, File
<1>6. /\ main' \in [Files -> Held] /\ main'[File] = Backup
      /\ \A f \in Files : f # File => main'[f] = main[f]
  BY <1>1, <1>3 DEF RestoreInv, RestoreTypeOK, Held
<1>7. \A f \in Files : f # File => Content(f)' = Content(f)
  BY <1>5, <1>6 DEF Content
<1>8. main'[Env] = NoFile => own' = NoFile
  BY <1>1, <1>6, ArchiveIs, RestoreAssumption DEF RestoreInv, Journalled
<1>9. \A d \in Databases : main'[d] = NoFile => wal'[d] = NoFile
  BY <1>5, <1>6, ArchiveIs DEF RestoreInv, RestoreTypeOK
<1>10. /\ proc' \in Proc /\ proc'.pc = (IF File = Env THEN "unlink" ELSE "done")
       /\ proc'.at = proc.at /\ proc'.undo = proc.undo /\ proc'.ops = proc.ops
       /\ proc'.errors = proc.errors
  BY <1>1 DEF RestoreInv, RestoreTypeOK, Proc
<1>11. RestoreTypeOK'
  BY <1>1, <1>5, <1>6, <1>9, <1>10 DEF RestoreInv, RestoreTypeOK
<1>12. Journalled'
  BY <1>1, <1>4, <1>8 DEF RestoreInv, Journalled, Noting, Describes, Pending, At
<1>13. \A i \in 1..(proc.at - 1) : AsArchived(Archived[i])'
  BY <1>2, <1>3, <1>5, <1>6, ArchiveIs DEF AsArchived, NoLog
<1>14. Forth'
  BY <1>1, <1>2, <1>5, <1>6, <1>10, <1>13 DEF Forth, Noting, CopiedOwn, File, At, AsArchived
<1>15. Back'
  BY <1>10 DEF Back
<1>16. Same
  BY <1>1, <1>3, <1>4, <1>7 DEF Same, Kept, KeptOwn, CopiedOwn, NotedFiles, Noting, Pending
<1> QED BY <1>11, <1>12, <1>14, <1>15, <1>16 DEF RestoreInv

\* What is undone is noted, or is as it was.
LEMMA UndoKeeps ==
  ASSUME RestoreInv, Undo
  PROVE  RestoreInv' /\ Same
<1> DEFINE k == Len(proc.undo)
           m == Len(proc.ops)
           n == Len(journal.operations)
<1>1. /\ proc.pc = "undo" /\ proc.undo # <<>> /\ proc' = [proc EXCEPT !.undo = Front(proc.undo)]
      /\ main' = [main EXCEPT ![Latest.file] = Undone(Latest)] /\ wal' = Folded(Latest.file)
      /\ own' = IF Latest.file = Env THEN (IF Latest.had THEN ownCopy ELSE NoFile) ELSE own
      /\ UNCHANGED <<bak, journal, copies, ownCopy, up, work, restores, faults>>
  BY DEF Undo, At, saved, others
<1>2. /\ m <= Len(Archived) /\ k <= m /\ m \in {n, n + 1}
      /\ \A i \in DOMAIN proc.ops : Describes(proc.ops[i], i)
      /\ \A i \in DOMAIN proc.undo : Describes(proc.undo[i], i)
      /\ m > n => AsCopied(Archived[m])
      /\ ~proc.errors => \A i \in Noting : i > k => AsCopied(Archived[i])
  BY <1>1 DEF RestoreInv, Back
<1>3. proc.undo \in Seq(Operation) /\ proc \in Proc /\ m \in Nat /\ n \in Nat
  BY NotingIs DEF RestoreInv, RestoreTypeOK, Proc
<1>4. PICK u : u = Front(proc.undo)
  OBVIOUS
<1>5. /\ u \in Seq(Operation) /\ Len(u) = k - 1 /\ k \in 1..Len(Archived) /\ Len(u) \in Nat
      /\ DOMAIN u = 1..(k - 1) /\ DOMAIN proc.undo = 1..k
      /\ \A i \in DOMAIN u : u[i] = proc.undo[i]
      /\ Latest = proc.undo[k]
  BY <1>1, <1>2, <1>3, <1>4, ArchiveIs DEF Front, Last, Latest
<1>6. PICK f \in Files : f = Archived[k]
  BY <1>5, ArchiveIs
<1>7. Latest.file = f /\ (Latest.had <=> copies[f] # NoFile)
  BY <1>2, <1>5, <1>6 DEF Describes
<1>8. Undone(Latest) = copies[f] /\ (f = Env => own' = CopiedOwn)
  BY <1>1, <1>7 DEF Undone, CopiedOwn
<1>9. Pending /\ ~up
  BY <1>1 DEF RestoreInv, Journalled, At
<1>10. f \in NotedFiles \/ AsCopied(f)
  <2>1. CASE k > n
    <3>1. k = m
      BY <1>2, <1>3, <1>5, <2>1
    <3> QED BY <1>2, <1>6, <2>1, <3>1
  <2>2. CASE ~(k > n)
    <3>1. k \in Noting
      BY <1>5, <2>2, NotingIs DEF RestoreInv
    <3> QED BY <1>6, <3>1 DEF NotedFiles
  <2> QED BY <2>1, <2>2
<1>11. /\ f # Env => own' = own
       /\ own' \in Own \cup {NoFile}
  <2>1. f # Env => own' = own
    BY <1>1, <1>7
  <2>2. own \in Own \cup {NoFile} /\ ownCopy \in Own \cup {NoFile}
    BY DEF RestoreInv, RestoreTypeOK
  <2> QED BY <1>8, <2>1, <2>2 DEF CopiedOwn
<1>12. /\ main' \in [Files -> Held] /\ main'[f] = copies[f]
       /\ \A g \in Files : g # f => main'[g] = main[g]
  BY <1>1, <1>7, <1>8 DEF RestoreInv, RestoreTypeOK
<1>13. /\ wal' \in [Databases -> Held] /\ NoLog(f)'
       /\ \A d \in Databases : wal'[d] = IF d = f THEN NoFile ELSE wal[d]
  BY <1>1, <1>7 DEF Folded, NoLog, RestoreInv, RestoreTypeOK, Held
<1>14. \A g \in Files : g \notin NotedFiles => Content(g)' = Content(g)
  <2> SUFFICES ASSUME NEW g \in Files, g \notin NotedFiles PROVE Content(g)' = Content(g)
    OBVIOUS
  <2>1. CASE g = f
    BY <1>10, <1>12, <1>13, <2>1 DEF Content, NoLog, AsCopied
  <2>2. CASE g # f
    BY <1>12, <1>13, <2>2 DEF Content
  <2> QED BY <2>1, <2>2
<1>15. main'[Env] = NoFile => own' = NoFile
  <2>1. CASE f = Env
    BY <1>8, <1>12, <2>1 DEF CopiedOwn
  <2>2. CASE f # Env
    BY <1>11, <1>12, <2>2, ArchiveIs DEF RestoreInv, Journalled
  <2> QED BY <2>1, <2>2
<1>16. \A d \in Databases : main'[d] = NoFile => wal'[d] = NoFile
  BY <1>12, <1>13, ArchiveIs DEF RestoreInv, RestoreTypeOK
<1>17. /\ proc' \in Proc /\ proc'.pc = "undo" /\ proc'.undo = u /\ proc'.ops = proc.ops
       /\ proc'.errors = proc.errors
  BY <1>1, <1>3, <1>4, <1>5 DEF Proc
<1>18. RestoreTypeOK'
  BY <1>1, <1>11, <1>12, <1>13, <1>16, <1>17 DEF RestoreInv, RestoreTypeOK
<1>19. Journalled'
  BY <1>1, <1>9, <1>15 DEF RestoreInv, Journalled, Noting, Describes, Pending, At
<1>20. CopiedOwn' = CopiedOwn
  BY <1>1 DEF CopiedOwn
<1>21. AsCopied(f)' /\ \A g \in Files : AsCopied(g) => AsCopied(g)'
  <2>1. AsCopied(f)'
    BY <1>1, <1>8, <1>12, <1>13, <1>20 DEF AsCopied, NoLog
  <2>2. ASSUME NEW g \in Files, AsCopied(g), g # f PROVE AsCopied(g)'
    BY <1>1, <1>11, <1>12, <1>13, <1>20, <2>2 DEF AsCopied, NoLog
  <2> QED BY <2>1, <2>2
<1>22. Back'
  <2>1. Noting' = Noting /\ journal' = journal /\ copies' = copies
    BY <1>1 DEF Noting
  <2>2. \A i \in DOMAIN u : Describes(u[i], i)
    BY <1>2, <1>5
  <2>3. ASSUME ~proc.errors, NEW i \in Noting, i > Len(u) PROVE AsCopied(Archived[i])'
    <3>1. Archived[i] \in Files /\ (i = k \/ i > k)
      BY <1>5, <2>3, NotingIs, ArchiveIs DEF RestoreInv
    <3> QED BY <1>2, <1>6, <1>21, <2>3, <3>1
  <2>4. PICK g : g = Archived[m]
    OBVIOUS
  <2>5. m > n => AsCopied(g)'
    <3>1. m > n => g \in Files
      BY <1>2, <1>3, <2>4, ArchiveIs
    <3> QED BY <1>2, <1>21, <2>4, <3>1
  <2>6. Len(u) <= m
    BY <1>2, <1>3, <1>5
  <2>7. /\ \A i \in DOMAIN proc.ops :
             proc.ops[i].file = Archived[i] /\ (proc.ops[i].had <=> copies'[Archived[i]] # NoFile)
        /\ \A i \in DOMAIN u :
             u[i].file = Archived[i] /\ (u[i].had <=> copies'[Archived[i]] # NoFile)
    BY <1>2, <2>1, <2>2 DEF Describes
  <2> QED BY <1>2, <1>17, <2>1, <2>3, <2>4, <2>5, <2>6, <2>7 DEF Back, Describes, At
<1>23. Forth'
  BY <1>17 DEF Forth, Inside
<1>24. Same
  <2>1. KeptOwn' = KeptOwn
    <3>1. Env \notin NotedFiles => own' = own
      BY <1>8, <1>10, <1>11 DEF AsCopied
    <3> QED BY <1>1, <1>9, <1>20, <3>1 DEF KeptOwn, NotedFiles, Noting, Pending
  <2> QED BY <1>1, <1>9, <1>14, <2>1 DEF Same, Kept, NotedFiles, Noting, Pending
<1> QED BY <1>18, <1>19, <1>22, <1>23, <1>24 DEF RestoreInv

LEMMA BeginKeeps ==
  ASSUME RestoreInv, BeginRestore
  PROVE  RestoreInv' /\ Same /\ ~up'
<1>1. /\ ~Pending /\ UNCHANGED <<main, wal, own, bak, work, faults>> /\ up' = FALSE
      /\ journal' = [status |-> "prepared", operations |-> <<>>]
      /\ copies' = [f \in Files |-> NoFile] /\ ownCopy' = NoFile
      /\ proc' = [Off EXCEPT !.pc = "prepare", !.at = 1]
  BY DEF BeginRestore, stack
<1>2. restores' \in 0..MaxRestores
  BY RestoreAssumption DEF BeginRestore, RestoreInv, RestoreTypeOK
<1>3. proc' = [pc |-> "prepare", at |-> 1, ops |-> <<>>, undo |-> <<>>, errors |-> FALSE,
               recovering |-> FALSE]
  BY <1>1 DEF Off
<1>4. proc' \in Proc
  BY <1>3, ArchiveIs DEF Proc
<1>5. journal' \in [status: Closed \cup {"prepared", "rollback_incomplete"},
                    operations: Seq(Operation)]
  BY <1>1
<1>6. copies' \in [Files -> Held]
  BY <1>1 DEF Held
<1>7. RestoreTypeOK'
  BY <1>1, <1>2, <1>4, <1>5, <1>6 DEF RestoreInv, RestoreTypeOK
<1>8. Journalled'
  BY <1>1, ArchiveIs DEF RestoreInv, Journalled, Noting, Pending, Closed
<1>9. Forth'
  <2>1. proc'.pc = "prepare" /\ proc'.at = 1 /\ proc'.errors = FALSE
    BY <1>3
  <2>2. proc'.undo = <<>> /\ proc'.ops = <<>>
    BY <1>3
  <2>3. journal'.operations = <<>>
    BY <1>1
  <2>4. 1 \in 1..Len(Archived) /\ \A i \in 1..(1 - 1) : FALSE
    BY ArchiveIs
  <2>5. Len(<<>>) = 1 - 1
    OBVIOUS
  <2> QED BY <2>1, <2>2, <2>3, <2>4, <2>5 DEF Forth, Noting, At
<1>10. Back'
  BY <1>3 DEF Back
<1>11. Same
  BY <1>1 DEF Same, Kept, KeptOwn, NotedFiles, Noting, Pending, Content
<1> QED BY <1>1, <1>7, <1>8, <1>9, <1>10, <1>11 DEF RestoreInv

\* The end of a rollback: the copies are what the files are, and an operation
\* that the journal gets only now is of a file that is as it was.
LEMMA ReportKeeps ==
  ASSUME RestoreInv, Report
  PROVE  RestoreInv' /\ Same /\ ~bak'
<1> DEFINE m == Len(proc.ops)
           n == Len(journal.operations)
<1>1. /\ proc.pc = "report" /\ proc' = Off
      /\ UNCHANGED <<main, wal, own, bak, copies, ownCopy, up, work, restores, faults>>
      /\ journal' = [status |-> IF proc.errors THEN "rollback_incomplete" ELSE "rolled_back",
                     operations |-> proc.ops]
  BY DEF Report, At, stack, others
<1>2. /\ proc.undo = <<>> /\ ~bak
      /\ m <= Len(Archived) /\ m \in {n, n + 1}
      /\ \A i \in DOMAIN proc.ops : Describes(proc.ops[i], i)
      /\ m > n => AsCopied(Archived[m])
      /\ ~proc.errors => \A i \in Noting : i > 0 => AsCopied(Archived[i])
  BY <1>1 DEF RestoreInv, Back, At
<1>3. Pending /\ ~up
  BY <1>1 DEF RestoreInv, Journalled, At
<1>4. proc' \in Proc /\ proc'.pc = "off"
  BY <1>1, ArchiveIs DEF Off, Proc
<1>5. /\ proc.ops \in Seq(Operation) /\ m \in Nat /\ DOMAIN proc.ops = 1..m
      /\ n \in Nat /\ Noting = 1..n
  BY NotingIs DEF RestoreInv, RestoreTypeOK, Proc
<1>6. /\ journal'.operations = proc.ops
      /\ journal'.status = IF proc.errors THEN "rollback_incomplete" ELSE "rolled_back"
      /\ journal' \in [status: Closed \cup {"prepared", "rollback_incomplete"},
                       operations: Seq(Operation)]
  BY <1>1, <1>5 DEF Closed
<1>7. RestoreTypeOK'
  BY <1>1, <1>4, <1>6 DEF RestoreInv, RestoreTypeOK
<1>8. Journalled'
  <2>1. \A i \in DOMAIN proc.ops :
          proc.ops[i].file = Archived[i] /\ (proc.ops[i].had <=> copies'[Archived[i]] # NoFile)
    BY <1>1, <1>2 DEF Describes
  <2> QED BY <1>1, <1>2, <1>3, <1>4, <1>6, <2>1 DEF RestoreInv, Journalled, Noting, Describes, At
<1>9. Same
  <2>1. /\ \A f \in Files : Content(f)' = Content(f)
        /\ copies' = copies /\ CopiedOwn' = CopiedOwn /\ own' = own
    BY <1>1 DEF Content, CopiedOwn
  <2>2. CASE proc.errors
    <3>1. Pending'
      BY <1>6, <2>2 DEF Pending, Closed
    <3>2. NotedFiles' = {Archived[i] : i \in 1..m} /\ NotedFiles = {Archived[i] : i \in 1..n}
      BY <1>5, <1>6 DEF NotedFiles, Noting
    <3>3. \A i \in 1..m : i \in 1..n \/ (i = m /\ m > n)
      BY <1>2, <1>5
    <3>4. \A i \in 1..n : i \in 1..m
      BY <1>2, <1>5
    <3>5. \A f \in NotedFiles' : f \in NotedFiles \/ AsCopied(f)
      BY <1>2, <3>2, <3>3
    <3>6. \A f \in NotedFiles : f \in NotedFiles'
      BY <3>2, <3>4
    <3>7. \A f \in Files : AsCopied(f) => Content(f) = copies[f]
      BY DEF AsCopied, NoLog, Content
    <3>8. Kept' = Kept
      <4> SUFFICES ASSUME NEW f \in Files
                    PROVE  (IF f \in NotedFiles' THEN copies[f] ELSE Content(f))
                           = IF f \in NotedFiles THEN copies[f] ELSE Content(f)
        BY <1>3, <2>1, <3>1 DEF Kept
      <4> QED BY <3>5, <3>6, <3>7
    <3>9. KeptOwn' = KeptOwn
      BY <1>3, <2>1, <3>1, <3>5, <3>6 DEF KeptOwn, AsCopied
    <3> QED BY <3>8, <3>9 DEF Same
  <2>3. CASE ~proc.errors
    <3>1. ~Pending'
      BY <1>6, <2>3 DEF Pending, Closed
    <3>2. \A f \in NotedFiles : AsCopied(f)
      BY <1>2, <1>5, <2>3 DEF NotedFiles
    <3>3. \A f \in NotedFiles : Content(f) = copies[f] /\ (f = Env => own = CopiedOwn)
      BY <3>2 DEF AsCopied, NoLog, Content
    <3>4. Kept' = Kept
      BY <1>3, <2>1, <3>1, <3>3 DEF Kept
    <3> QED BY <1>3, <2>1, <3>1, <3>3, <3>4 DEF Same, KeptOwn
  <2> QED BY <2>2, <2>3
<1> QED BY <1>1, <1>2, <1>4, <1>7, <1>8, <1>9 DEF RestoreInv, Forth, Back, Inside

\* The end of a restore: what the archive has is installed, and nothing else.
LEMMA FinishKeeps ==
  ASSUME RestoreInv, Finish
  PROVE  /\ RestoreInv'
         /\ Kept' = [f \in Files |-> IF f \in Range(Archived) THEN Backup ELSE Kept[f]]
         /\ KeptOwn' = KeptOwn
         /\ ~up /\ ~up'
         /\ Env \in Range(Archived) => ~bak'
<1>1. /\ proc.pc = "finish" /\ proc' = Off
      /\ UNCHANGED <<main, wal, own, bak, copies, ownCopy, up, work, restores, faults>>
      /\ journal' = [journal EXCEPT !.status = "complete"]
  BY DEF Finish, At, stack, others
<1>2. /\ proc.at = Len(Archived) /\ Len(journal.operations) = Len(Archived)
      /\ \A i \in 1..(proc.at - 1) : AsArchived(Archived[i])
      /\ AsArchived(File) /\ (File = Env => ~bak)
      /\ \A i \in Noting : Archived[i] = Env => own = CopiedOwn
  BY <1>1 DEF RestoreInv, Forth, Inside, At
<1>3. proc' \in Proc /\ proc'.pc = "off"
  BY <1>1, ArchiveIs DEF Off, Proc
<1>4. /\ journal'.operations = journal.operations /\ journal'.status = "complete"
      /\ journal' \in [status: Closed \cup {"prepared", "rollback_incomplete"},
                       operations: Seq(Operation)]
  BY <1>1 DEF RestoreInv, RestoreTypeOK, Closed
<1>5. RestoreTypeOK'
  BY <1>1, <1>3, <1>4 DEF RestoreInv, RestoreTypeOK
<1>6. ~Pending'
  BY <1>4 DEF Pending, Closed
<1>7. Journalled'
  BY <1>1, <1>3, <1>4, <1>6 DEF RestoreInv, Journalled, Noting, Describes, At
<1>8. \A f \in Range(Archived) : AsArchived(f)
  <2>1. \A i \in 1..Len(Archived) : i = Len(Archived) \/ i \in 1..(Len(Archived) - 1)
    BY ArchiveIs
  <2> QED BY <1>2, <2>1, ArchiveIs DEF File
<1>9. NotedFiles = Range(Archived)
  BY <1>2, NotingIs, ArchiveIs DEF NotedFiles, RestoreInv
<1>10. Kept' = [f \in Files |-> IF f \in Range(Archived) THEN Backup ELSE Kept[f]]
  <2>1. \A f \in Files : Content(f)' = IF f \in Range(Archived) THEN Backup ELSE Kept[f]
    BY <1>1, <1>8, <1>9 DEF Content, AsArchived, NoLog, Kept
  <2> QED BY <1>6, <2>1 DEF Kept
<1>11. Env \in Range(Archived) => ~bak'
  BY <1>1, <1>2, ArchiveIs DEF File
<1>12. KeptOwn' = KeptOwn
  BY <1>1, <1>2, <1>6 DEF KeptOwn, NotedFiles
<1>13. ~up
  BY <1>1 DEF RestoreInv, Journalled, At
<1> QED BY <1>1, <1>3, <1>5, <1>7, <1>10, <1>11, <1>12, <1>13 DEF RestoreInv, Forth, Back, Inside

\* The memory gateway comes and goes.
LEMMA GatewayKeeps ==
  ASSUME RestoreInv, StartGateway \/ StopGateway
  PROVE  RestoreInv' /\ Same
<1>1. UNCHANGED <<main, wal, own, bak, journal, copies, ownCopy, proc, work, restores, faults>>
  BY DEF StartGateway, StopGateway, stack, saved
<1>2. up' \in BOOLEAN /\ (up' => ~Pending)
  BY DEF StartGateway, StopGateway
<1>3. RestoreTypeOK'
  BY <1>1, <1>2 DEF RestoreInv, RestoreTypeOK
<1>4. Journalled'
  BY <1>1, <1>2 DEF RestoreInv, Journalled, Noting, Describes, Pending, At
<1>5. Forth' /\ Back'
  BY <1>1 DEF RestoreInv, Forth, Back, Noting, Describes, CopiedOwn, AsArchived, AsCopied, NoLog,
     File, At
<1>6. Same
  BY <1>1 DEF Same, Kept, KeptOwn, CopiedOwn, NotedFiles, Noting, Pending, Content
<1> QED BY <1>3, <1>4, <1>5, <1>6 DEF RestoreInv

\* What is written is found, unless it is written into a file that a pending
\* journal names.
LEMMA WorkKeeps ==
  ASSUME RestoreInv, Work
  PROVE  /\ RestoreInv' /\ up' = up
         /\ \/ Same /\ ~up
            \/ \E f \in Files, v \in Written :
                 /\ Kept' = [Kept EXCEPT ![f] = v]
                 /\ IF f = Env THEN KeptOwn' \in Own ELSE KeptOwn' = KeptOwn
<1>1. /\ At("off") /\ UNCHANGED <<journal, copies, ownCopy, proc, up, restores, faults>>
  BY DEF Work, saved
<1>2. /\ Pending' = Pending /\ NotedFiles' = NotedFiles /\ CopiedOwn' = CopiedOwn
      /\ (up => ~Pending)
  BY <1>1 DEF Pending, NotedFiles, Noting, CopiedOwn, RestoreInv, Journalled
<1>3. work' \in 0..MaxWork
  BY RestoreAssumption DEF Work, RestoreInv, RestoreTypeOK
<1>4. PICK f \in Files, v \in Written :
        \/ /\ main' = [main EXCEPT ![f] = v] /\ wal' = Folded(f)
           /\ IF f = Env THEN own' \in Own /\ bak' = (main[Env] # NoFile)
                         ELSE UNCHANGED <<own, bak>>
        \/ /\ f \in Databases /\ main[f] # NoFile
           /\ wal' = [wal EXCEPT ![f] = v]
           /\ UNCHANGED <<main, own, bak>>
  BY DEF Work
<1>5. v # NoFile /\ v \in Held
  BY RestoreAssumption DEF Held
<1>6. /\ main' \in [Files -> Held] /\ wal' \in [Databases -> Held]
      /\ Content(f)' = v /\ (main'[f] # NoFile)
      /\ \A g \in Files : g # f => Content(g)' = Content(g) /\ main'[g] = main[g]
      /\ \A d \in Databases : d # f => wal'[d] = wal[d]
  <2>1. CASE main' = [main EXCEPT ![f] = v] /\ wal' = Folded(f)
    <3>1. main' \in [Files -> Held] /\ main'[f] = v /\ \A g \in Files : g # f => main'[g] = main[g]
      BY <1>5, <2>1 DEF RestoreInv, RestoreTypeOK
    <3>2. /\ wal' \in [Databases -> Held]
          /\ \A d \in Databases : wal'[d] = IF d = f THEN NoFile ELSE wal[d]
      BY <2>1 DEF RestoreInv, RestoreTypeOK, Folded, Held
    <3> QED BY <1>5, <3>1, <3>2 DEF Content
  <2>2. CASE /\ f \in Databases /\ main[f] # NoFile
             /\ wal' = [wal EXCEPT ![f] = v] /\ main' = main
    <3>1. /\ wal' \in [Databases -> Held] /\ wal'[f] = v
          /\ \A d \in Databases : d # f => wal'[d] = wal[d]
      BY <1>5, <2>2 DEF RestoreInv, RestoreTypeOK
    <3> QED BY <1>5, <2>2, <3>1 DEF Content, RestoreInv, RestoreTypeOK
  <2> QED BY <1>4, <2>1, <2>2
<1>7. IF f = Env THEN own' \in Own ELSE own' = own
  BY <1>4, ArchiveIs
<1>8. bak' \in BOOLEAN
  <2>1. bak' = bak \/ bak' = (main[Env] # NoFile)
    BY <1>4
  <2>2. bak \in BOOLEAN
    BY DEF RestoreInv, RestoreTypeOK
  <2> QED BY <2>1, <2>2
<1>9. \A d \in Databases : main'[d] = NoFile => wal'[d] = NoFile
  BY <1>6, ArchiveIs DEF RestoreInv, RestoreTypeOK
<1>10. RestoreTypeOK'
  BY <1>1, <1>3, <1>6, <1>7, <1>8, <1>9 DEF RestoreInv, RestoreTypeOK
<1>11. main'[Env] = NoFile => own' = NoFile
  BY <1>6, <1>7, ArchiveIs DEF RestoreInv, Journalled
<1>12. Journalled'
  BY <1>1, <1>2, <1>11 DEF RestoreInv, Journalled, Noting, Describes, At
<1>13. Forth' /\ Back'
  BY <1>1 DEF Forth, Back, Inside, At
<1>14. \A g \in Files : Content(g)' = IF g = f THEN v ELSE Content(g)
  BY <1>6
<1>15. CASE Pending /\ f \in NotedFiles
  <2>1. Kept' = Kept
    BY <1>1, <1>2, <1>14, <1>15 DEF Kept
  <2>2. KeptOwn' = KeptOwn
    BY <1>2, <1>7, <1>15 DEF KeptOwn
  <2> QED BY <1>1, <1>2, <1>10, <1>12, <1>13, <1>15, <2>1, <2>2 DEF Same, RestoreInv
<1>16. CASE ~(Pending /\ f \in NotedFiles)
  <2>1. Kept' = [Kept EXCEPT ![f] = v]
    BY <1>1, <1>2, <1>14, <1>16 DEF Kept
  <2>2. IF f = Env THEN KeptOwn' \in Own ELSE KeptOwn' = KeptOwn
    BY <1>2, <1>7, <1>16 DEF KeptOwn
  <2> QED BY <1>1, <1>10, <1>12, <1>13, <2>1, <2>2 DEF RestoreInv
<1> QED BY <1>15, <1>16

-----------------------------------------------------------------------------
(* Theorems *)

\* While a restore or a rollback runs the memory gateway is down.
LEMMA StepKeeps ==
  ASSUME RestoreInv, Recover \/ Step \/ Fail \/ Die, ~Finish
  PROVE  RestoreInv' /\ Same /\ ~up /\ up' = up
<1>1. RestoreInv' /\ Same
  BY BakKeeps, UnlinkKeeps, DoneKeeps, DieKeeps, UnbakKeeps, UndoEndsKeeps, RecoverKeeps,
     UndoRefusedKeeps, FailKeeps, PrepareKeeps, SaveKeeps, NoteKeeps, ReplaceFileKeeps, UndoKeeps,
     ReportKeeps
     DEF Step
<1>2. up' = up
  BY DEF Recover, Step, Fail, Die, Prepare, Save, Note, Bak, ReplaceFile, Unlink, Done, Finish,
     Undo, UndoRefused, UndoEnds, Unbak, Report, others
<1>3. Pending
  <2>1. Recover \/ ~At("off")
    BY DEF Recover, Step, Fail, Die, Prepare, Save, Note, Bak, ReplaceFile, Unlink, Done, Finish,
       Undo, UndoRefused, UndoEnds, Unbak, Report, At, Inside
  <2> QED BY <2>1 DEF Recover, RestoreInv, Journalled
<1> QED BY <1>1, <1>2, <1>3 DEF RestoreInv, Journalled

LEMMA NextRestore == RestoreInv /\ [RestoreNext]_restoreVars => RestoreInv'
<1> SUFFICES ASSUME RestoreInv, [RestoreNext]_restoreVars PROVE RestoreInv'
  OBVIOUS
<1>1. CASE UNCHANGED restoreVars
  BY <1>1 DEF restoreVars, RestoreInv, RestoreTypeOK, Journalled, Forth, Back, Noting, Describes,
     CopiedOwn, Pending, At, AsArchived, AsCopied, NoLog, File
<1>2. CASE RestoreNext
  BY <1>2, StepKeeps, GatewayKeeps, WorkKeeps, BeginKeeps, FinishKeeps DEF RestoreNext
<1> QED BY <1>1, <1>2

\* The journal, the copies and the files fit each other at every step of a
\* restore and of a rollback (restore_stack_backup, _rollback_modified_targets).
THEOREM JournalFits == RestoreSpec => []RestoreInv
BY InitRestore, NextRestore, PTL DEF RestoreSpec

\* What a memory gateway that is up reads is what it found.
LEMMA ShownIs ==
  ASSUME RestoreInv, KeptIs
  PROVE  Shown = IF up THEN <<Found, FoundOwn>> ELSE <<>>
<1>1. up => ~Pending
  BY DEF RestoreInv, Journalled
<1>2. up => [f \in Files |-> Content(f)] = Kept /\ own = KeptOwn
  BY <1>1 DEF Kept, KeptOwn
<1> QED BY <1>2 DEF Shown, KeptIs

\* What a step is to the memory gateway.
LEMMA FoundStep ==
  ASSUME RestoreInv, RestoreInv', KeptIs, KeptIs', [RestoreNext]_restoreVars
  PROVE  [Contract!Next]_<<Found, FoundOwn, Shown>>
<1>1. /\ Shown = IF up THEN <<Found, FoundOwn>> ELSE <<>>
      /\ Shown' = IF up' THEN <<Found', FoundOwn'>> ELSE <<>>
  BY ShownIs DEF Shown, Content, RestoreInv, RestoreTypeOK, Journalled, Kept, KeptOwn, KeptIs
<1>2. Same => Found' = Found /\ FoundOwn' = FoundOwn
  BY DEF Same, KeptIs
<1>3. CASE Same /\ (up' = up \/ ~up')
  BY <1>1, <1>2, <1>3 DEF Contract!Next, Contract!Stop
<1>4. CASE StartGateway
  <2>1. ~up /\ up' /\ Same
    BY <1>4, GatewayKeeps DEF StartGateway
  <2>2. Contract!Start
    BY <1>1, <1>2, <2>1 DEF Contract!Start, Contract!Down
  <2> QED BY <2>2 DEF Contract!Next
<1>5. CASE StopGateway
  BY <1>3, <1>5, GatewayKeeps DEF StopGateway
<1>6. CASE Work
  <2>1. CASE Same /\ ~up
    BY <1>3, <1>6, <2>1, WorkKeeps
  <2>2. CASE ~(Same /\ ~up)
    <3>1. PICK f \in Files, v \in Written :
            /\ Kept' = [Kept EXCEPT ![f] = v]
            /\ IF f = Env THEN KeptOwn' \in Own ELSE KeptOwn' = KeptOwn
      BY <1>6, <2>2, WorkKeeps
    <3>2. /\ Found' = [Found EXCEPT ![f] = v]
          /\ IF f = Env THEN FoundOwn' \in Own ELSE FoundOwn' = FoundOwn
      BY <3>1 DEF KeptIs
    <3>3. Shown' = IF Shown = <<>> THEN <<>> ELSE <<Found', FoundOwn'>>
      <4>1. up' = up
        BY <1>6, WorkKeeps
      <4>2. <<Found, FoundOwn>> # <<>>
        OBVIOUS
      <4> QED BY <1>1, <4>1, <4>2
    <3>4. Contract!Change(f)
      BY <3>2, <3>3 DEF Contract!Change, Contract!Down
    <3> QED BY <3>4 DEF Contract!Next
  <2> QED BY <2>1, <2>2
<1>7. CASE Finish
  <2>1. Contract!Install
    <3>1. \A f \in Files : Kept[f] = Found[f]
      BY DEF KeptIs
    <3>2. Shown = <<>> /\ Shown' = <<>> /\ FoundOwn' = FoundOwn
      BY <1>1, <1>7, FinishKeeps DEF KeptIs
    <3> QED BY <1>7, <3>1, <3>2, FinishKeeps DEF Contract!Install, Contract!Down, KeptIs
  <2> QED BY <2>1 DEF Contract!Next
<1>8. CASE UNCHANGED restoreVars
  <2>1. Same /\ up' = up
    BY <1>8 DEF restoreVars, Same, Kept, KeptOwn, CopiedOwn, NotedFiles, Noting, Pending, Content
  <2> QED BY <1>3, <2>1
<1>9. CASE BeginRestore
  BY <1>3, <1>9, BeginKeeps
<1>10. CASE (Recover \/ Step \/ Fail \/ Die) /\ ~Finish
  BY <1>3, <1>10, StepKeeps
<1> QED BY <1>4, <1>5, <1>6, <1>7, <1>8, <1>9, <1>10 DEF RestoreNext, Step

\* Whatever dies or fails on the way, and whatever is written by those who do not
\* look at the journal, a restore of a backup is one step to the memory gateway,
\* or none (restore_stack_backup, recover_interrupted_stack_restores, lifespan).
THEOREM ImplementsAtomicRestore == RestoreSpec => RestoresAllOrNothing
<1>1. RestoreInit => Contract!Init
  <2> SUFFICES ASSUME RestoreInit PROVE Contract!Init
    OBVIOUS
  <2>1. ~Pending /\ KeptIs
    BY InitRestore, FoundIsKept DEF RestoreInit, Pending, Closed
  <2>2. Found[Env] = main[Env] /\ FoundOwn = own
    BY <2>1, ArchiveIs DEF KeptIs, Kept, KeptOwn, Content
  <2>3. Shown = <<>>
    BY DEF RestoreInit, Shown
  <2> QED BY <2>2, <2>3 DEF Contract!Init, Contract!Down, RestoreInit
<1>2. RestoreInv /\ RestoreInv' /\ KeptIs /\ KeptIs' /\ [RestoreNext]_restoreVars =>
        [Contract!Next]_<<Found, FoundOwn, Shown>>
  BY FoundStep
<1> QED BY <1>1, <1>2, JournalFits, FoundIsKept, PTL
        DEF RestoreSpec, RestoresAllOrNothing, Contract!Spec, Contract!vars

\* No end of a restore leaves the copy that write_env_atomic makes of the
\* secrets.
THEOREM NoSecondCopy == RestoreSpec => SecretsNotCopied
<1>1. RestoreInv /\ [RestoreNext]_restoreVars =>
        [Pending /\ ~Pending' /\ Env \in Range(Archived) => ~bak']_restoreVars
  <2> SUFFICES ASSUME RestoreInv, RestoreNext, Pending, ~Pending', Env \in Range(Archived)
                PROVE  ~bak'
    OBVIOUS
  <2>1. journal' # journal
    BY DEF Pending
  <2>2. CASE Note
    BY <2>2 DEF Note, RestoreInv, RestoreTypeOK, Pending
  <2>3. Report \/ Finish \/ Note
    BY <2>1 DEF RestoreNext, Step, StartGateway, StopGateway, Work, BeginRestore, Recover, Prepare, Save, Bak, ReplaceFile,
       Unlink, Done, Undo, UndoRefused, UndoEnds, Unbak, Fail, Die, saved
  <2> QED BY <2>2, <2>3, ReportKeeps, FinishKeeps
<1> QED BY <1>1, JournalFits, PTL DEF RestoreSpec, SecretsNotCopied

=============================================================================
