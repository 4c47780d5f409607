-------------------------- MODULE MemoryEditsProofs --------------------------
(***************************************************************************)
(* What the editors of memories can and cannot do to each other, for any   *)
(* number of memories, texts, clients and kinds of requests.               *)
(***************************************************************************)
EXTENDS MemoryEdits, TLAPS

-----------------------------------------------------------------------------
(* What a step does to the memories *)

\* Late: the evidence that the caller read some time before is written.
LateUpdate(p) == PatchWrite(p) \/ ReviewUpdate(p) \/ ReviewMerged(p)

Creates ==
  /\ Write
  /\ \E i \in Ids, t \in Texts, v \in Texts \cup {NoText} :
       /\ rows[i].place = "none" /\ v \in {t, NoText}
       /\ rows' = [rows EXCEPT ![i] = [place |-> "live", text |-> t, vector |-> v,
                     revision |-> 1, updated |-> writes + 1, evidence |-> {}]]

Merges ==
  /\ Write
  /\ \E S \in SUBSET Live(rows), text \in Texts : \E t \in S : rows' = Merged(S, t, text)

Moves ==
  /\ Write
  /\ \E i \in Kept(rows), place \in {"live", "trash"} : rows' = Placed(i, place)

Updates ==
  /\ Write
  /\ \E p \in Clients : LateUpdate(p)
  /\ \E i \in Live(rows), text \in Texts \cup {NoText}, vector \in Texts \cup {NoText},
        evidence \in SUBSET Ids : rows' = Updated(i, text, vector, evidence)

Embeds ==
  /\ Write
  /\ \E p \in Clients : EmbedWrite(p)
  /\ \E i \in Live(rows), text \in Texts \cup {NoText} :
       rows' = [rows EXCEPT ![i].vector = text, ![i].updated = writes + 1]

Purges ==
  /\ Write
  /\ \E S \in SUBSET Trash(rows) : Purge(Dependents(rows, S))

\* What a step does to the rows as a whole.
RowsStep ==
  \/ rows' = rows /\ writes' \in {writes, writes + 1} /\ writes' \in 0..MaxWrites
  \/ Creates \/ Merges \/ Moves \/ Updates \/ Embeds \/ Purges

\* What a request holds of a memory is a row.
LEMMA ReadType ==
  ASSUME TypeOK, NEW p \in Clients
  PROVE  /\ Has(p) \subseteq Ids
         /\ \A i \in Has(p) : ops[p].read[i] \in Row
         /\ ops[p] \in Op
<1>1. ops[p] \in Op  BY DEF TypeOK
<1>2. PICK S \in SUBSET Ids : ops[p].read \in [S -> Row]  BY <1>1 DEF Op
<1> QED BY <1>1, <1>2 DEF Has

\* A step writes at most the rows, and in one of seven ways.
LEMMA RowKinds ==
  ASSUME TypeOK, [Next]_vars
  PROVE  RowsStep
<1> USE DEF Write
<1>0. writes \in 0..MaxWrites /\ MaxWrites \in Nat  BY EditsAssumption DEF TypeOK
<1>1. CASE UNCHANGED vars  BY <1>1, <1>0 DEF vars, RowsStep
<1>2. CASE Create  BY <1>2 DEF Create, Creates, RowsStep
<1>3. CASE Merge  BY <1>3 DEF Merge, Merges, RowsStep
<1>4. CASE Restore
  BY <1>4 DEF Restore, Moves, RowsStep, Kept
<1>5. CASE ArchiveSection  BY <1>5, <1>0 DEF ArchiveSection, RowsStep
<1>6. CASE PurgeOne
  <2>1. PICK i \in Trash(rows) : Purge(Dependents(rows, {i}))  BY <1>6 DEF PurgeOne
  <2>2. {i} \in SUBSET Trash(rows)  BY <2>1
  <2> QED BY <2>1, <2>2, <1>6 DEF PurgeOne, Purges, RowsStep
<1>7. ASSUME NEW p \in Clients, Step(p)  PROVE RowsStep
  <2>0. ops[p] \in Op /\ Has(p) \subseteq Ids /\ \A i \in Has(p) : ops[p].read[i] \in Row
    BY ReadType
  <2>1. CASE Open(p) \/ PatchRead(p) \/ EmbedRead(p) \/ ConsolidateRead(p) \/ SectionRead(p)
             \/ Preview(p) \/ ReviewLoad(p) \/ PurgePreview(p) \/ Drop(p)
    BY <2>1, <1>0 DEF Open, PatchRead, EmbedRead, ConsolidateRead, SectionRead, Preview,
       ReviewLoad, PurgePreview, Drop, RowsStep
  <2>2. CASE ConsolidateWrite(p) \/ SectionWrite(p) \/ SectionCite(p)
    BY <2>2, <1>0 DEF ConsolidateWrite, SectionWrite, SectionCite, Patch, RowsStep
  <2>3. CASE PatchWrite(p)
    <3>1. PICK i \in Has(p) \cap Live(rows), text \in Texts :
            \E vector \in {ops[p].read[i].vector, NoText} :
              rows' = Updated(i, text, vector, ops[p].read[i].evidence)
      BY <2>3 DEF PatchWrite
    <3>2. /\ ops[p].read[i].vector \in Texts \cup {NoText}
          /\ ops[p].read[i].evidence \in SUBSET Ids
      BY <3>1, <2>0 DEF Row
    <3> QED BY <3>1, <3>2, <2>3 DEF PatchWrite, Updates, LateUpdate, RowsStep
  <2>4. CASE Archive(p)
    BY <2>4 DEF Archive, Moves, RowsStep, Kept
  <2>5. CASE EmbedWrite(p)
    <3>1. PICK i \in Has(p) \cap Live(rows) :
            rows' = [rows EXCEPT ![i].vector = ops[p].read[i].text, ![i].updated = writes + 1]
      BY <2>5 DEF EmbedWrite
    <3>2. ops[p].read[i].text \in Texts \cup {NoText}  BY <3>1, <2>0 DEF Row
    <3> QED BY <3>1, <3>2, <2>5 DEF EmbedWrite, Embeds, RowsStep
  <2>6. CASE ReviewUpdate(p)
    <3>1. PICK i \in Has(p) \cap Live(rows), text \in Texts :
            \E vector \in {ops[p].read[i].vector, NoText} :
              rows' = Updated(i, text, vector, ops[p].read[i].evidence)
      BY <2>6 DEF ReviewUpdate
    <3>2. /\ ops[p].read[i].vector \in Texts \cup {NoText}
          /\ ops[p].read[i].evidence \in SUBSET Ids
      BY <3>1, <2>0 DEF Row
    <3> QED BY <3>1, <3>2, <2>6 DEF ReviewUpdate, Updates, LateUpdate, RowsStep
  <2>7. CASE ReviewArchive(p)
    BY <2>7, <1>0 DEF ReviewArchive, Moves, RowsStep, Kept
  <2>8. CASE ReviewMerge(p)
    <3>1. Has(p) \in SUBSET Live(rows)  BY <2>8 DEF ReviewMerge
    <3> QED BY <2>8, <3>1 DEF ReviewMerge, Merges, RowsStep
  <2>9. CASE ReviewMerged(p)
    <3>1. PICK i \in Has(p) \cap Live(rows) :
            rows' = Updated(i, ops[p].read[i].text, NoText, ops[p].read[i].evidence)
      BY <2>9 DEF ReviewMerged
    <3>2. ops[p].read[i].text \in Texts \cup {NoText} /\ ops[p].read[i].evidence \in SUBSET Ids
      BY <3>1, <2>0 DEF Row
    <3> QED BY <3>1, <3>2, <2>9 DEF ReviewMerged, Updates, LateUpdate, RowsStep
  <2>10. CASE PurgeCommit(p)
    <3>1. PICK S \in SUBSET (Has(p) \cap Trash(rows)) : Purge(Dependents(rows, S))
      BY <2>10 DEF PurgeCommit
    <3>2. S \in SUBSET Trash(rows)  OBVIOUS
    <3> QED BY <3>1, <3>2, <2>10 DEF PurgeCommit, Purges, RowsStep
  <2> QED BY <1>7, <2>1, <2>2, <2>3, <2>4, <2>5, <2>6, <2>7, <2>8, <2>9, <2>10 DEF Step
<1> QED BY <1>1, <1>2, <1>3, <1>4, <1>5, <1>6, <1>7 DEF Next

-----------------------------------------------------------------------------
(* The written row, field by field *)

PlacedForm(i, place) == [j \in Ids |->
  IF j = i THEN [place |-> place, text |-> rows[i].text, vector |-> rows[i].vector,
                 revision |-> rows[i].revision + 1, updated |-> writes + 1,
                 evidence |-> rows[i].evidence]
  ELSE rows[j]]

UpdatedForm(i, text, vector, evidence) == [j \in Ids |->
  IF j = i THEN [place |-> rows[i].place, text |-> text,
                 vector |-> VectorKept(i, text, vector),
                 revision |-> rows[i].revision + 1, updated |-> writes + 1,
                 evidence |-> evidence]
  ELSE rows[j]]

EmbeddedForm(i, text) == [j \in Ids |->
  IF j = i THEN [place |-> rows[i].place, text |-> rows[i].text, vector |-> text,
                 revision |-> rows[i].revision, updated |-> writes + 1,
                 evidence |-> rows[i].evidence]
  ELSE rows[j]]

MergedForm(S, t, text) == [j \in Ids |->
  IF j = t THEN [place |-> rows[t].place, text |-> text, vector |-> NoText,
                 revision |-> rows[t].revision, updated |-> writes + 1,
                 evidence |-> S \cup UNION {rows[k].evidence : k \in S}]
  ELSE IF j \in S THEN [place |-> "trash", text |-> rows[j].text,
                 vector |-> rows[j].vector, revision |-> rows[j].revision,
                 updated |-> writes + 1, evidence |-> rows[j].evidence]
  ELSE rows[j]]

\* One row moves: its text, vector and evidence stay.
LEMMA PlacedRow ==
  ASSUME rows \in [Ids -> Row], NEW i \in Ids, NEW place
  PROVE  Placed(i, place) = PlacedForm(i, place)
<1>0. rows[i] = [place |-> rows[i].place, text |-> rows[i].text, vector |-> rows[i].vector,
        revision |-> rows[i].revision, updated |-> rows[i].updated, evidence |-> rows[i].evidence]
  BY DEF Row
<1>1. Placed(i, place)[i] = [[[rows[i] EXCEPT !.place = place]
        EXCEPT !.revision = rows[i].revision + 1] EXCEPT !.updated = writes + 1]
  BY DEF Placed, Row
<1>2. \A j \in Ids \ {i} : Placed(i, place)[j] = rows[j] BY DEF Placed
<1>3. Placed(i, place) = [j \in Ids |-> Placed(i, place)[j]] BY DEF Placed
<1> QED BY <1>0, <1>1, <1>2, <1>3 DEF PlacedForm

\* One row takes the text and the evidence of its caller.
LEMMA UpdatedRow ==
  ASSUME rows \in [Ids -> Row], NEW i \in Ids, NEW text, NEW vector, NEW evidence
  PROVE  Updated(i, text, vector, evidence) = UpdatedForm(i, text, vector, evidence)
<1>0. rows[i] = [place |-> rows[i].place, text |-> rows[i].text, vector |-> rows[i].vector,
        revision |-> rows[i].revision, updated |-> rows[i].updated, evidence |-> rows[i].evidence]
  BY DEF Row
<1>1. Updated(i, text, vector, evidence)[i] = [[[[[rows[i] EXCEPT !.text = text]
        EXCEPT !.vector = VectorKept(i, text, vector)] EXCEPT !.evidence = evidence]
        EXCEPT !.revision = rows[i].revision + 1] EXCEPT !.updated = writes + 1]
  BY DEF Updated, Row
<1>2. \A j \in Ids \ {i} : Updated(i, text, vector, evidence)[j] = rows[j]  BY DEF Updated
<1>3. Updated(i, text, vector, evidence) = [j \in Ids |-> Updated(i, text, vector, evidence)[j]]
  BY DEF Updated
<1> QED BY <1>0, <1>1, <1>2, <1>3 DEF UpdatedForm

\* One row takes a vector.
LEMMA EmbeddedRow ==
  ASSUME rows \in [Ids -> Row], NEW i \in Ids, NEW text
  PROVE  [rows EXCEPT ![i].vector = text, ![i].updated = writes + 1] = EmbeddedForm(i, text)
<1> DEFINE new == [rows EXCEPT ![i].vector = text, ![i].updated = writes + 1]
<1>0. rows[i] = [place |-> rows[i].place, text |-> rows[i].text, vector |-> rows[i].vector,
        revision |-> rows[i].revision, updated |-> rows[i].updated, evidence |-> rows[i].evidence]
  BY DEF Row
<1>1. new[i] = [[rows[i] EXCEPT !.vector = text] EXCEPT !.updated = writes + 1]
  BY DEF Row
<1>2. \A j \in Ids \ {i} : new[j] = rows[j]  OBVIOUS
<1>3. new = [j \in Ids |-> new[j]]  OBVIOUS
<1>4. SUFFICES new = EmbeddedForm(i, text)
  OBVIOUS
<1> HIDE DEF new
<1> QED BY <1>0, <1>1, <1>2, <1>3 DEF EmbeddedForm

\* One row takes a merged text; the others of the merge go to the trash.
LEMMA MergedRow ==
  ASSUME rows \in [Ids -> Row], NEW S \in SUBSET Ids, NEW t \in S, NEW text
  PROVE  Merged(S, t, text) = MergedForm(S, t, text)
<1> DEFINE E == S \cup UNION {rows[k].evidence : k \in S}
<1>0. Merged(S, t, text) = [i \in Ids |->
        IF i = t THEN [rows[t] EXCEPT !.text = text, !.vector = NoText, !.evidence = E,
                         !.updated = writes + 1]
        ELSE IF i \in S THEN [rows[i] EXCEPT !.place = "trash", !.updated = writes + 1]
        ELSE rows[i]]
  BY DEF Merged
<1>a. \A i \in Ids : rows[i] \in Row  OBVIOUS
<1> HIDE DEF E
<1>1. ASSUME NEW r \in Row
      PROVE  [r EXCEPT !.text = text, !.vector = NoText, !.evidence = E, !.updated = writes + 1]
        = [place |-> r.place, text |-> text, vector |-> NoText, revision |-> r.revision,
           updated |-> writes + 1, evidence |-> E]
  <2> DEFINE n == [r EXCEPT !.text = text, !.vector = NoText, !.evidence = E,
                             !.updated = writes + 1]
  <2>1. DOMAIN r = {"place", "text", "vector", "revision", "updated", "evidence"}
    BY DEF Row
  <2>2. /\ n.place = r.place /\ n.text = text /\ n.vector = NoText
        /\ n.revision = r.revision /\ n.updated = writes + 1 /\ n.evidence = E
    BY <2>1
  <2>3. n = [f \in DOMAIN r |-> n[f]]
    OBVIOUS
  <2> HIDE DEF n
  <2>4. n = [place |-> r.place, text |-> text, vector |-> NoText, revision |-> r.revision,
           updated |-> writes + 1, evidence |-> E]
    BY <2>1, <2>2, <2>3
  <2> QED BY <2>4 DEF n
<1>2. ASSUME NEW r \in Row
      PROVE  [r EXCEPT !.place = "trash", !.updated = writes + 1]
        = [place |-> "trash", text |-> r.text, vector |-> r.vector, revision |-> r.revision,
           updated |-> writes + 1, evidence |-> r.evidence]
  <2> DEFINE n == [r EXCEPT !.place = "trash", !.updated = writes + 1]
  <2>1. DOMAIN r = {"place", "text", "vector", "revision", "updated", "evidence"}
    BY DEF Row
  <2>2. /\ n.place = "trash" /\ n.text = r.text /\ n.vector = r.vector
        /\ n.revision = r.revision /\ n.updated = writes + 1 /\ n.evidence = r.evidence
    BY <2>1
  <2>3. n = [f \in DOMAIN r |-> n[f]]
    OBVIOUS
  <2> HIDE DEF n
  <2>4. n = [place |-> "trash", text |-> r.text, vector |-> r.vector, revision |-> r.revision,
           updated |-> writes + 1, evidence |-> r.evidence]
    BY <2>1, <2>2, <2>3
  <2> QED BY <2>4 DEF n
<1>3. t \in Ids  OBVIOUS
<1>4. [rows[t] EXCEPT !.text = text, !.vector = NoText, !.evidence = E, !.updated = writes + 1]
        = [place |-> rows[t].place, text |-> text, vector |-> NoText, revision |-> rows[t].revision,
           updated |-> writes + 1, evidence |-> E]
  BY <1>1, <1>3, <1>a
<1>5. \A i \in S : [rows[i] EXCEPT !.place = "trash", !.updated = writes + 1]
        = [place |-> "trash", text |-> rows[i].text, vector |-> rows[i].vector,
           revision |-> rows[i].revision, updated |-> writes + 1, evidence |-> rows[i].evidence]
  BY <1>2, <1>a
<1>6. Merged(S, t, text) = [j \in Ids |->
           IF j = t THEN [place |-> rows[t].place, text |-> text, vector |-> NoText,
                          revision |-> rows[t].revision, updated |-> writes + 1,
                          evidence |-> E]
           ELSE IF j \in S THEN [place |-> "trash", text |-> rows[j].text,
                          vector |-> rows[j].vector, revision |-> rows[j].revision,
                          updated |-> writes + 1, evidence |-> rows[j].evidence]
           ELSE rows[j]]
  BY <1>0, <1>4, <1>5
<1> QED BY <1>6 DEF E, MergedForm

-----------------------------------------------------------------------------
(* Types *)

\* Each write has its own instant, so that no revision exceeds the writes.
Bounds ==
  /\ \A i \in Ids : rows[i].revision <= writes /\ rows[i].updated <= writes
  /\ core.revision <= writes

TypeInv == TypeOK /\ Bounds

\* Rows stay typed, and no revision or instant exceeds the writes.
LEMMA RowsType ==
  ASSUME TypeInv, RowsStep
  PROVE  /\ rows' \in [Ids -> Row]
         /\ writes' \in 0..MaxWrites
         /\ writes <= writes'
         /\ \A i \in Ids : rows'[i].revision <= writes' /\ rows'[i].updated <= writes'
<1> USE DEF Write
<1>0. /\ writes \in 0..MaxWrites /\ MaxWrites \in Nat
      /\ rows \in [Ids -> Row]
      /\ \A i \in Ids : rows[i].revision <= writes /\ rows[i].updated <= writes
  BY EditsAssumption DEF TypeInv, TypeOK, Bounds
<1>a. \A i \in Ids : /\ rows[i].place \in Places
                     /\ rows[i].text \in Texts \cup {NoText}
                     /\ rows[i].vector \in Texts \cup {NoText}
                     /\ rows[i].evidence \in SUBSET Ids
                     /\ rows[i].revision \in 0..writes
                     /\ rows[i].updated \in 0..writes
  BY <1>0 DEF Row
<1>1. CASE rows' = rows /\ writes' \in {writes, writes + 1} /\ writes' \in 0..MaxWrites
  BY <1>1, <1>0, <1>a
<1>2. CASE Creates
  BY <1>2, <1>0, <1>a DEF Creates, Row, Places
<1>3. CASE Merges
  <2>1. PICK S \in SUBSET Live(rows), text \in Texts :
           \E t \in S : rows' = Merged(S, t, text)
    BY <1>3 DEF Merges
  <2>2. PICK t \in S : rows' = Merged(S, t, text)
    BY <2>1
  <2>3. S \in SUBSET Ids  BY DEF Live
  <2> DEFINE E == S \cup UNION {rows[k].evidence : k \in S}
  <2>4. E \in SUBSET Ids  BY <2>3, <1>a
  <2>5. rows' = [j \in Ids |->
           IF j = t THEN [place |-> rows[t].place, text |-> text, vector |-> NoText,
                          revision |-> rows[t].revision, updated |-> writes + 1,
                          evidence |-> E]
           ELSE IF j \in S THEN [place |-> "trash", text |-> rows[j].text,
                          vector |-> rows[j].vector, revision |-> rows[j].revision,
                          updated |-> writes + 1, evidence |-> rows[j].evidence]
           ELSE rows[j]]
    <3>1. rows \in [Ids -> Row]  BY <1>0
    <3>2. t \in S  OBVIOUS
    <3>3. Merged(S, t, text) = MergedForm(S, t, text)
      BY <2>3, <3>1, <3>2, MergedRow
    <3> QED BY <2>2, <3>3 DEF MergedForm
  <2> HIDE DEF E
  <2>6. writes' = writes + 1 /\ writes + 1 \in 0..MaxWrites  BY <1>3, <1>0 DEF Merges
  <2> QED BY <2>3, <2>4, <2>5, <2>6, <1>0, <1>a DEF Row, Places
<1>4. CASE Moves
  <2>1. PICK i \in Kept(rows), place \in {"live", "trash"} : rows' = Placed(i, place)
    BY <1>4 DEF Moves
  <2>2. i \in Ids  BY DEF Kept, Live, Trash
  <2>3. rows' = PlacedForm(i, place)
    BY <2>1, <2>2, <1>0, PlacedRow
  <2>4. writes' = writes + 1 /\ writes + 1 \in 0..MaxWrites  BY <1>4, <1>0 DEF Moves
  <2> QED BY <2>2, <2>3, <2>4, <1>0, <1>a DEF PlacedForm, Row, Places
<1>5. CASE Updates
  <2>1. PICK i \in Live(rows), text \in Texts \cup {NoText}, vector \in Texts \cup {NoText},
             evidence \in SUBSET Ids : rows' = Updated(i, text, vector, evidence)
    BY <1>5 DEF Updates
  <2>2. VectorKept(i, text, vector) \in Texts \cup {NoText}
    BY DEF VectorKept
  <2>3. i \in Ids  BY DEF Live
  <2>4. rows' = UpdatedForm(i, text, vector, evidence)
    BY <2>1, <2>3, <1>0, UpdatedRow
  <2>5. writes' = writes + 1 /\ writes + 1 \in 0..MaxWrites  BY <1>5, <1>0 DEF Updates
  <2> QED BY <2>2, <2>3, <2>4, <2>5, <1>0, <1>a DEF UpdatedForm, Row, Places
<1>6. CASE Embeds
  <2>1. PICK i \in Live(rows), text \in Texts \cup {NoText} :
          rows' = [rows EXCEPT ![i].vector = text, ![i].updated = writes + 1]
    BY <1>6 DEF Embeds
  <2>2. i \in Ids  BY DEF Live
  <2>3. rows' = EmbeddedForm(i, text)
    BY <2>1, <2>2, <1>0, EmbeddedRow
  <2>4. writes' = writes + 1 /\ writes + 1 \in 0..MaxWrites  BY <1>6, <1>0 DEF Embeds
  <2> QED BY <2>2, <2>3, <2>4, <1>0, <1>a DEF EmbeddedForm, Row, Places
<1>7. CASE Purges
  BY <1>7, <1>0, <1>a DEF Purges, Purge, Without, Absent, Row, Places
<1> QED BY <1>1, <1>2, <1>3, <1>4, <1>5, <1>6, <1>7 DEF RowsStep

\* What a step does to the section and to the versions that are kept of it.
CoreStep ==
  \/ UNCHANGED <<core, past>>
  \/ \E p \in Clients, cites \in SUBSET Ids :
       /\ Write /\ Upsert(cites) /\ UNCHANGED rows
       /\ \/ ConsolidateWrite(p) /\ cites \subseteq Has(p)
          \/ SectionWrite(p) /\ cites = ops[p].section.cites
          \/ SectionCite(p)
  \/ /\ past' = past \cup {core.cites}
     /\ core' = NoSection
     /\ UNCHANGED rows
  \/ \E S \in SUBSET Trash(rows) : Purge(Dependents(rows, S))

\* The section and its versions change only by an upsert, an archive or a purge.
LEMMA CoreKinds ==
  ASSUME TypeOK, [Next]_vars
  PROVE  CoreStep
<1>1. CASE UNCHANGED vars  BY <1>1 DEF vars, CoreStep
<1>2. CASE Create \/ Merge \/ Restore  BY <1>2 DEF Create, Merge, Restore, CoreStep
<1>3. CASE ArchiveSection  BY <1>3 DEF ArchiveSection, CoreStep
<1>4. CASE PurgeOne
  <2>1. PICK i \in Trash(rows) : Purge(Dependents(rows, {i}))  BY <1>4 DEF PurgeOne
  <2>2. {i} \in SUBSET Trash(rows)  OBVIOUS
  <2> QED BY <2>1, <2>2 DEF CoreStep
<1>5. ASSUME NEW p \in Clients, Step(p)  PROVE CoreStep
  <2>0. Has(p) \subseteq Ids /\ ops[p] \in Op  BY ReadType
  <2>1. CASE ConsolidateWrite(p)
    <3>1. PICK cites \in SUBSET Has(p) : Upsert(cites)  BY <2>1 DEF ConsolidateWrite
    <3>2. cites \in SUBSET Ids  BY <2>0
    <3>3. Write /\ UNCHANGED rows  BY <2>1 DEF ConsolidateWrite
    <3> QED BY <2>1, <3>1, <3>2, <3>3 DEF CoreStep
  <2>2. CASE SectionWrite(p)
    <3>1. ops[p].section.cites \in SUBSET Ids  BY <2>0 DEF Op, Section
    <3>2. Write /\ Upsert(ops[p].section.cites) /\ UNCHANGED rows
      BY <2>2 DEF SectionWrite, Patch
    <3> QED BY <2>2, <3>1, <3>2 DEF CoreStep
  <2>6. CASE SectionCite(p)
    <3>1. PICK cites \in SUBSET Known : Patch(p, cites)  BY <2>6 DEF SectionCite
    <3>2. cites \in SUBSET Ids  BY DEF Known
    <3>3. Write /\ Upsert(cites) /\ UNCHANGED rows  BY <3>1 DEF Patch
    <3> QED BY <2>6, <3>2, <3>3 DEF CoreStep
  <2>3. CASE PurgeCommit(p)
    <3>1. PICK S \in SUBSET (Has(p) \cap Trash(rows)) : Purge(Dependents(rows, S))
      BY <2>3 DEF PurgeCommit
    <3>2. S \in SUBSET Trash(rows)  OBVIOUS
    <3> QED BY <3>1, <3>2 DEF CoreStep
  <2>4. CASE Open(p) \/ PatchRead(p) \/ EmbedRead(p) \/ ConsolidateRead(p) \/ SectionRead(p)
             \/ Preview(p) \/ ReviewLoad(p) \/ PurgePreview(p) \/ Drop(p)
    BY <2>4 DEF Open, PatchRead, EmbedRead, ConsolidateRead, SectionRead, Preview,
       ReviewLoad, PurgePreview, Drop, CoreStep
  <2>5. CASE PatchWrite(p) \/ Archive(p) \/ EmbedWrite(p) \/ ReviewUpdate(p)
             \/ ReviewArchive(p) \/ ReviewMerge(p) \/ ReviewMerged(p)
    BY <2>5 DEF PatchWrite, Archive, EmbedWrite, ReviewUpdate, ReviewArchive, ReviewMerge,
       ReviewMerged, CoreStep
  <2> QED BY <1>5, <2>1, <2>2, <2>3, <2>4, <2>5, <2>6 DEF Step
<1> QED BY <1>1, <1>2, <1>3, <1>4, <1>5 DEF Next

\* Only memories that are kept are deleted for good.
LEMMA DependentsKept ==
  ASSUME NEW S \in SUBSET Trash(rows)
  PROVE  Dependents(rows, S) \subseteq Kept(rows)
BY DEF Dependents, Kept

\* The section stays typed, and its revision does not exceed the writes.
LEMMA CoreType ==
  ASSUME TypeInv, CoreStep, writes' \in 0..MaxWrites, writes <= writes'
  PROVE  core' \in Section /\ past' \subseteq SUBSET Ids /\ core'.revision <= writes'
<1>0. /\ writes \in 0..MaxWrites /\ MaxWrites \in Nat
      /\ core \in Section /\ core.revision <= writes /\ past \subseteq SUBSET Ids
  BY EditsAssumption DEF TypeInv, TypeOK, Bounds
<1>1. core.cites \in SUBSET Ids /\ core.revision \in 0..writes
  BY <1>0 DEF Section
<1>2. NoSection \in Section /\ NoSection.revision = 0
  BY <1>0 DEF Section, NoSection
<1>3. CASE UNCHANGED <<core, past>>
  BY <1>3, <1>0, <1>1
<1>4. ASSUME Write, NEW cites \in SUBSET Ids, Upsert(cites)
      PROVE  core' \in Section /\ past' \subseteq SUBSET Ids /\ core'.revision <= writes'
  BY <1>4, <1>0, <1>1 DEF Write, Upsert, Section
<1>5. CASE past' = past \cup {core.cites} /\ core' = NoSection
  BY <1>5, <1>0, <1>1, <1>2
<1>6. ASSUME NEW S \in SUBSET Trash(rows), Purge(Dependents(rows, S))
      PROVE  core' \in Section /\ past' \subseteq SUBSET Ids /\ core'.revision <= writes'
  BY <1>6, <1>0, <1>1, <1>2 DEF Purge, Scrubbed
<1> QED BY <1>3, <1>4, <1>5, <1>6 DEF CoreStep

\* The request that a step leaves a client with is a new read of an editor or of
\* someone who plans a deletion, or of another kind.
OpsStep ==
  \/ UNCHANGED ops
  \/ \E p \in Clients, op \in Op :
       /\ ops' = [ops EXCEPT ![p] = op]
       /\ op.pc \in {"open", "patch", "preview"} => Open(p) \/ PatchRead(p) \/ PurgePreview(p)

\* The fields that a request keeps of a row make a row.
LEMMA SeenType ==
  ASSUME TypeOK, NEW i \in Ids, NEW fields
  PROVE  Seen(i, fields) \in Row
<1>1. rows[i] \in Row /\ Absent \in Row
  BY EditsAssumption DEF TypeOK, Row, Absent, Places
<1>2. DOMAIN Absent = {"place", "text", "vector", "revision", "updated", "evidence"}
  BY DEF Absent
<1> QED BY <1>1, <1>2 DEF Seen, Row

\* A client without a request, and no section, are typed.
LEMMA IdleType ==
  ASSUME TypeOK
  PROVE  Idle \in Op /\ NoSection \in Section
<1>1. NoSection \in Section  BY EditsAssumption DEF Section, NoSection
<1>2. Nothing \in [{} -> Row]  BY DEF Nothing
<1>3. Nothing \in UNION {[S -> Row] : S \in SUBSET Ids}  BY <1>2
<1> QED BY <1>1, <1>3, EditsAssumption DEF Idle, Op, Stages

\* A new request is typed.
LEMMA BeginType ==
  ASSUME TypeOK, NEW p \in Clients, NEW pc \in Stages, NEW S \in SUBSET Ids, NEW fields
  PROVE  [Idle EXCEPT !.pc = pc, !.read = [i \in S |-> Seen(i, fields)]] \in Op
<1>1. [i \in S |-> Seen(i, fields)] \in [S -> Row]  BY SeenType
<1>2. [i \in S |-> Seen(i, fields)] \in UNION {[T -> Row] : T \in SUBSET Ids}  BY <1>1
<1> DEFINE f == [i \in S |-> Seen(i, fields)]
<1> HIDE DEF f
<1>3. f \in UNION {[T -> Row] : T \in SUBSET Ids}  BY <1>2 DEF f
<1>4. [Idle EXCEPT !.pc = pc, !.read = f] \in Op
  BY <1>3, IdleType DEF Op
<1> QED BY <1>4 DEF f

\* A new request holds what it was begun with.
LEMMA SeenFields ==
  ASSUME TypeOK, NEW p \in Clients, NEW pc, NEW S, NEW fields, Begin(p, pc, S, fields)
  PROVE  ops'[p].pc = pc /\ ops'[p].read = [i \in S |-> Seen(i, fields)]
<1>1. ops \in [Clients -> Op]  BY DEF TypeOK
<1> QED BY <1>1 DEF Begin, Idle

\* A request that ends leaves its client idle.
LEMMA Finishes ==
  ASSUME TypeOK, NEW p \in Clients, Finish(p)
  PROVE  OpsStep
<1>1. Idle \in Op /\ Idle.pc \notin {"open", "patch", "preview"}
  BY IdleType DEF Idle
<1> QED BY <1>1 DEF Finish, OpsStep

\* A request that begins has the kind it was begun with.
LEMMA Begins ==
  ASSUME TypeOK, NEW p \in Clients, NEW pc \in Stages, NEW S \in SUBSET Ids, NEW fields,
         Begin(p, pc, S, fields),
         pc \in {"open", "patch", "preview"} => Open(p) \/ PatchRead(p) \/ PurgePreview(p)
  PROVE  OpsStep
<1> DEFINE op == [Idle EXCEPT !.pc = pc, !.read = [i \in S |-> Seen(i, fields)]]
<1>1. op \in Op  BY BeginType
<1>2. op.pc = pc  BY DEF Idle
<1>3. ops' = [ops EXCEPT ![p] = op]  BY DEF Begin
<1> HIDE DEF op
<1> QED BY <1>1, <1>2, <1>3 DEF OpsStep

\* A review goes on with the memories it has not dealt with.
LEMMA Rests ==
  ASSUME TypeOK, NEW p \in Clients, NEW i, Rest(p, i, "each")
  PROVE  OpsStep
<1>1. CASE Has(p) = {i}  BY <1>1, Finishes DEF Rest
<1>2. CASE Has(p) # {i}
  <2> DEFINE f == [j \in Has(p) \ {i} |-> ops[p].read[j]]
  <2> DEFINE op == [[ops[p] EXCEPT !.pc = "each"] EXCEPT !.read = f]
  <2>1. ops \in [Clients -> Op] /\ ops[p] \in Op  BY DEF TypeOK
  <2>2. f \in [Has(p) \ {i} -> Row]  BY ReadType
  <2>3. Has(p) \ {i} \in SUBSET Ids  BY ReadType
  <2>4. f \in UNION {[S -> Row] : S \in SUBSET Ids}  BY <2>2, <2>3
  <2> HIDE DEF f
  <2>5. op \in Op /\ op.pc = "each"  BY <2>1, <2>4 DEF Op, Stages
  <2>6. ops' = [ops EXCEPT ![p] = op]  BY <1>2, <2>1 DEF Rest, f
  <2> HIDE DEF op
  <2> QED BY <2>5, <2>6 DEF OpsStep
<1> QED BY <1>1, <1>2

\* A step gives at most one client another request, of the right type.
LEMMA OpsKinds ==
  ASSUME TypeInv, [Next]_vars
  PROVE  OpsStep
<1>0. TypeOK  BY DEF TypeInv
<1>1. CASE UNCHANGED vars  BY <1>1 DEF vars, OpsStep
<1>2. CASE Create \/ Merge \/ Restore \/ ArchiveSection \/ PurgeOne
  BY <1>2 DEF Create, Merge, Restore, ArchiveSection, PurgeOne, OpsStep
<1>3. ASSUME NEW p \in Clients, Step(p)  PROVE OpsStep
  <2>0. /\ Has(p) \subseteq Ids /\ ops[p] \in Op /\ ops \in [Clients -> Op]
        /\ \A i \in Has(p) : ops[p].read[i] \in Row
        /\ Live(rows) \subseteq Ids
    BY <1>0, ReadType DEF TypeOK, Live
  <2>1. CASE Open(p)
    <3>1. PICK i \in Live(rows) : Begin(p, "open", {i}, {"text", "revision"})
      BY <2>1 DEF Open
    <3>2. {i} \in SUBSET Ids /\ "open" \in Stages  BY <2>0 DEF Stages
    <3> QED BY <1>0, <2>1, <3>1, <3>2, Begins
  <2>2. CASE EmbedRead(p)
    <3>1. PICK i \in Live(rows) : Begin(p, "embed", {i}, {"text"})
      BY <2>2 DEF EmbedRead
    <3>2. {i} \in SUBSET Ids /\ "embed" \in Stages  BY <2>0 DEF Stages
    <3> QED BY <1>0, <3>1, <3>2, Begins
  <2>3. CASE ConsolidateRead(p)
    <3>1. Begin(p, "sources", Live(rows), {})  BY <2>3 DEF ConsolidateRead
    <3>2. "sources" \in Stages  BY DEF Stages
    <3> QED BY <1>0, <2>0, <3>1, <3>2, Begins
  <2>4. CASE Preview(p)
    <3>1. PICK S \in SUBSET Live(rows) : Begin(p, "token", S, {"updated"})
      BY <2>4 DEF Preview
    <3>2. S \in SUBSET Ids /\ "token" \in Stages  BY <2>0 DEF Stages
    <3> QED BY <1>0, <3>1, <3>2, Begins
  <2>5. CASE ReviewLoad(p)
    <3>1. PICK pc \in {"each", "merge"} : Begin(p, pc, Has(p), {"text", "vector", "evidence"})
      BY <2>5 DEF ReviewLoad
    <3>2. pc \in Stages /\ pc \notin {"open", "patch", "preview"}  BY <3>1 DEF Stages
    <3> QED BY <1>0, <2>0, <3>1, <3>2, Begins
  <2>6. CASE PatchRead(p)
    <3>1. PICK i \in Has(p) \cap Live(rows) : \E guard \in {0, ops[p].read[i].revision} :
            ops' = [ops EXCEPT ![p] =
              [Idle EXCEPT !.pc = "patch", !.saw = ops[p].read[i].text, !.guard = guard,
                           !.read = [j \in {i} |-> Seen(j, {"text", "vector", "evidence"})]]]
      BY <2>6 DEF PatchRead
    <3>2. PICK guard \in {0, ops[p].read[i].revision} :
            ops' = [ops EXCEPT ![p] =
              [Idle EXCEPT !.pc = "patch", !.saw = ops[p].read[i].text, !.guard = guard,
                           !.read = [j \in {i} |-> Seen(j, {"text", "vector", "evidence"})]]]
      BY <3>1
    <3> DEFINE f == [j \in {i} |-> Seen(j, {"text", "vector", "evidence"})]
    <3> DEFINE op == [Idle EXCEPT !.pc = "patch", !.saw = ops[p].read[i].text, !.guard = guard,
                                  !.read = f]
    <3>3. f \in [{i} -> Row] /\ {i} \in SUBSET Ids  BY <1>0, <2>0, SeenType
    <3>4. f \in UNION {[S -> Row] : S \in SUBSET Ids}  BY <3>3
    <3>5. ops[p].read[i].text \in Texts \cup {NoText} /\ guard \in 0..(MaxWrites + 1)
      BY <2>0, <3>2, EditsAssumption DEF Row
    <3>6. ops' = [ops EXCEPT ![p] = op]  BY <3>2
    <3> HIDE DEF f
    <3>7. op \in Op  BY <1>0, <3>4, <3>5, IdleType DEF Op, Stages
    <3> HIDE DEF op
    <3> QED BY <2>6, <3>6, <3>7 DEF OpsStep
  <2>7. CASE SectionRead(p)
    <3>1. PICK guard \in {0, core.revision} :
            ops' = [ops EXCEPT ![p] =
              [Idle EXCEPT !.pc = "section", !.section = core, !.guard = guard]]
      BY <2>7 DEF SectionRead
    <3> DEFINE op == [Idle EXCEPT !.pc = "section", !.section = core, !.guard = guard]
    <3>2. core \in Section /\ guard \in 0..(MaxWrites + 1)
      BY <1>0, EditsAssumption DEF TypeOK, Section
    <3>3. op \in Op /\ op.pc = "section"  BY <1>0, <3>2, IdleType DEF Op, Stages
    <3> QED BY <3>1, <3>3 DEF OpsStep
  <2>8. CASE ReviewMerge(p)
    <3>1. PICK t \in Has(p) :
            ops' = [ops EXCEPT ![p].pc = "merged", ![p].read = [i \in {t} |-> rows'[t]]]
      BY <2>8 DEF ReviewMerge
    <3> DEFINE f == [i \in {t} |-> rows'[t]]
    <3> DEFINE op == [[ops[p] EXCEPT !.pc = "merged"] EXCEPT !.read = f]
    <3>2. rows' \in [Ids -> Row]  BY <1>0, <1>3, RowKinds, RowsType DEF TypeInv
    <3>3. f \in [{t} -> Row] /\ {t} \in SUBSET Ids  BY <2>0, <3>2
    <3>4. f \in UNION {[S -> Row] : S \in SUBSET Ids}  BY <3>3
    <3> HIDE DEF f
    <3>5. op \in Op /\ op.pc = "merged"  BY <2>0, <3>4 DEF Op, Stages
    <3>6. ops' = [ops EXCEPT ![p] = op]  BY <2>0, <3>1 DEF f
    <3> HIDE DEF op
    <3> QED BY <3>5, <3>6 DEF OpsStep
  <2>9. CASE PurgePreview(p)
    <3>1. PICK S \in SUBSET Trash(rows) : LET gone == Dependents(rows, S) IN
            ops' = [ops EXCEPT ![p] =
              [Idle EXCEPT !.pc = "preview", !.read = [i \in gone |-> rows[i]],
                 !.section = IF core.cites \cap gone # {} THEN core ELSE NoSection,
                 !.past = past \ Scrubbed(gone)]]
      BY <2>9 DEF PurgePreview
    <3> DEFINE gone == Dependents(rows, S)
    <3> DEFINE f == [i \in gone |-> rows[i]]
    <3> DEFINE section == IF core.cites \cap gone # {} THEN core ELSE NoSection
    <3> DEFINE op == [Idle EXCEPT !.pc = "preview", !.read = f, !.section = section,
                                  !.past = past \ Scrubbed(gone)]
    <3>2. gone \in SUBSET Ids  BY DependentsKept DEF Kept, Live, Trash
    <3>3. ops' = [ops EXCEPT ![p] = op]  BY <3>1
    <3> HIDE DEF gone
    <3>4. f \in [gone -> Row]  BY <1>0, <3>2 DEF TypeOK
    <3>5. f \in UNION {[T -> Row] : T \in SUBSET Ids}  BY <3>2, <3>4
    <3>6. section \in Section /\ past \ Scrubbed(gone) \in SUBSET SUBSET Ids
      BY <1>0, IdleType DEF TypeOK
    <3> HIDE DEF f, section
    <3>7. op \in Op  BY <1>0, <3>5, <3>6, IdleType DEF Op, Stages
    <3> HIDE DEF op
    <3> QED BY <2>9, <3>3, <3>7 DEF OpsStep
  <2>10. CASE PatchWrite(p) \/ Archive(p) \/ EmbedWrite(p) \/ ConsolidateWrite(p)
              \/ SectionWrite(p) \/ SectionCite(p) \/ ReviewMerged(p) \/ PurgeCommit(p)
              \/ Drop(p)
    <3>1. Finish(p)
      BY <2>10 DEF PatchWrite, Archive, EmbedWrite, ConsolidateWrite, SectionWrite,
         SectionCite, Patch, ReviewMerged, PurgeCommit, Drop
    <3> QED BY <1>0, <3>1, Finishes
  <2>11. CASE ReviewUpdate(p)
    <3>1. PICK i \in Has(p) : Rest(p, i, "each")  BY <2>11 DEF ReviewUpdate
    <3> QED BY <1>0, <3>1, Rests
  <2>12. CASE ReviewArchive(p)
    <3>1. PICK i \in Has(p) : Rest(p, i, "each")  BY <2>12 DEF ReviewArchive
    <3> QED BY <1>0, <3>1, Rests
  <2> QED BY <1>3, <2>1, <2>2, <2>3, <2>4, <2>5, <2>6, <2>7, <2>8, <2>9, <2>10, <2>11, <2>12
      DEF Step
<1> QED BY <1>1, <1>2, <1>3 DEF Next

\* Types hold in every reachable state, with the bound on revisions that makes
\* them inductive.
LEMMA InitType == Init => TypeInv
<1> SUFFICES ASSUME Init PROVE TypeInv
  OBVIOUS
<1>1. NoSection \in Section /\ NoSection.revision = 0
  BY EditsAssumption DEF NoSection, Section
<1>2. Absent \in Row /\ Absent.revision = 0 /\ Absent.updated = 0
  BY EditsAssumption DEF Absent, Row, Places
<1>3. Nothing \in [{} -> Row]  BY DEF Nothing
<1>4. Nothing \in UNION {[S -> Row] : S \in SUBSET Ids}  BY <1>3
<1>5. Idle \in Op  BY <1>1, <1>4, EditsAssumption DEF Idle, Op, Stages
<1> QED BY <1>1, <1>2, <1>5, EditsAssumption DEF Init, TypeInv, TypeOK, Bounds

\* Every step preserves types and bounds.
LEMMA NextType == TypeInv /\ [Next]_vars => TypeInv'
<1> SUFFICES ASSUME TypeInv, [Next]_vars PROVE TypeInv'
  OBVIOUS
<1>1. TypeOK  BY DEF TypeInv
<1>2. RowsStep /\ CoreStep /\ OpsStep  BY <1>1, RowKinds, CoreKinds, OpsKinds
<1>3. /\ rows' \in [Ids -> Row]
      /\ writes' \in 0..MaxWrites
      /\ writes <= writes'
      /\ \A i \in Ids : rows'[i].revision <= writes' /\ rows'[i].updated <= writes'
  BY <1>2, RowsType
<1>4. core' \in Section /\ past' \subseteq SUBSET Ids /\ core'.revision <= writes'
  BY <1>2, <1>3, CoreType
<1>5. ops' \in [Clients -> Op]
  BY <1>1, <1>2 DEF OpsStep, TypeOK
<1> QED BY <1>3, <1>4, <1>5 DEF TypeInv, TypeOK, Bounds

\* Every reachable state is of the declared types: no revision, instant or
\* citation leaves its range however the requests interleave.
THEOREM Types == Spec => []TypeOK
<1>1. TypeInv => TypeOK  BY DEF TypeInv
<1> QED BY <1>1, InitType, NextType, PTL DEF Spec

\* Types and bounds hold in every reachable state.
LEMMA TypesInv == Spec => []TypeInv
BY InitType, NextType, PTL DEF Spec

-----------------------------------------------------------------------------
(* What a step does to one memory *)

Created(i) ==
  /\ rows[i].place = "none" /\ rows'[i].place = "live"
  /\ rows'[i].vector \in {rows'[i].text, NoText}
  /\ rows'[i].evidence = {}

\* The result of a merge, which keeps its revision and is evidence of itself.
MergedInto(i) ==
  /\ rows[i].place = "live" /\ rows'[i].place = "live"
  /\ rows'[i].vector = NoText
  /\ rows'[i].revision = rows[i].revision
  /\ i \in rows'[i].evidence
  /\ rows'[i].evidence \subseteq Live(rows) \cup UNION {rows[k].evidence : k \in Live(rows)}

Moved(i) ==
  /\ i \in Kept(rows) /\ rows'[i].place \in {"live", "trash"}
  /\ rows'[i].text = rows[i].text /\ rows'[i].vector = rows[i].vector
  /\ rows'[i].evidence = rows[i].evidence
  /\ rows'[i].revision \in {rows[i].revision, rows[i].revision + 1}

Rewritten(i) ==
  /\ \E p \in Clients : LateUpdate(p)
  /\ rows[i].place = "live" /\ rows'[i].place = "live"
  /\ rows'[i].revision = rows[i].revision + 1
  /\ \/ rows'[i].vector = NoText
     \/ rows'[i].text = rows[i].text /\ rows'[i].vector = rows[i].vector

Embedded(i) ==
  /\ \E p \in Clients : EmbedWrite(p)
  /\ rows[i].place = "live" /\ rows'[i].place = "live"
  /\ rows'[i].text = rows[i].text /\ rows'[i].evidence = rows[i].evidence
  /\ rows'[i].revision = rows[i].revision

Purged(i) ==
  /\ rows'[i].place = "purged"
  /\ \E S \in SUBSET Trash(rows) : i \in Dependents(rows, S) /\ Purge(Dependents(rows, S))

Fate(i) ==
  \/ rows'[i] = rows[i]
  \/ Purged(i)
  \/ /\ writes' = writes + 1 /\ rows'[i].updated = writes'
     /\ Created(i) \/ MergedInto(i) \/ Moved(i) \/ Rewritten(i) \/ Embedded(i)

\* A step leaves a row alone, deletes it, or writes it in one of five ways.
LEMMA Fates ==
  ASSUME TypeInv, [Next]_vars
  PROVE  \A i \in Ids : Fate(i)
<1>0. rows \in [Ids -> Row] /\ RowsStep  BY RowKinds DEF TypeInv, TypeOK
<1>k. Live(rows) \subseteq Ids /\ Kept(rows) \subseteq Ids
  BY DEF Live, Trash, Kept
<1>1. CASE rows' = rows
  BY <1>1 DEF Fate
<1>2. CASE Creates
  <2>1. writes' = writes + 1  BY <1>2 DEF Creates, Write
  <2>2. PICK i \in Ids, t \in Texts, v \in Texts \cup {NoText} :
          /\ rows[i].place = "none" /\ v \in {t, NoText}
          /\ rows' = [rows EXCEPT ![i] = [place |-> "live", text |-> t, vector |-> v,
                        revision |-> 1, updated |-> writes + 1, evidence |-> {}]]
    BY <1>2 DEF Creates
  <2>3. \A j \in Ids \ {i} : rows'[j] = rows[j]  BY <2>2, <1>0
  <2>4. rows'[i] = [place |-> "live", text |-> t, vector |-> v, revision |-> 1,
                    updated |-> writes + 1, evidence |-> {}]
    BY <2>2, <1>0
  <2>5. Created(i) /\ rows'[i].updated = writes'  BY <2>1, <2>2, <2>4 DEF Created
  <2> QED BY <2>1, <2>3, <2>5 DEF Fate
<1>3. CASE Merges
  <2>1. writes' = writes + 1  BY <1>3 DEF Merges, Write
  <2>2. PICK S \in SUBSET Live(rows), text \in Texts :
           \E t \in S : rows' = Merged(S, t, text)
    BY <1>3 DEF Merges
  <2>3. PICK t \in S : rows' = Merged(S, t, text)
    BY <2>2
  <2>4. S \in SUBSET Ids  BY <1>k
  <2> DEFINE E == S \cup UNION {rows[k].evidence : k \in S}
  <2>5. Merged(S, t, text) = MergedForm(S, t, text)
    <3>1. rows \in [Ids -> Row]  BY <1>0
    <3>2. t \in S  OBVIOUS
    <3> QED BY <2>4, <3>1, <3>2, MergedRow
  <2>6. t \in E /\ E \subseteq Live(rows) \cup UNION {rows[k].evidence : k \in Live(rows)}
    OBVIOUS
  <2>7. rows'[t] = [place |-> rows[t].place, text |-> text, vector |-> NoText,
                    revision |-> rows[t].revision, updated |-> writes + 1, evidence |-> E]
    BY <2>3, <2>4, <2>5 DEF MergedForm
  <2> HIDE DEF E
  <2>8. rows[t].place = "live"  BY DEF Live
  <2>9. Fate(t)  BY <2>1, <2>6, <2>7, <2>8 DEF Fate, MergedInto
  <2>10. ASSUME NEW j \in S, j # t  PROVE Fate(j)
    <3>1. rows'[j] = [place |-> "trash", text |-> rows[j].text, vector |-> rows[j].vector,
                      revision |-> rows[j].revision, updated |-> writes + 1,
                      evidence |-> rows[j].evidence]
      BY <2>3, <2>4, <2>5, <2>10 DEF MergedForm
    <3>2. j \in Kept(rows)  BY DEF Kept
    <3> QED BY <2>1, <3>1, <3>2 DEF Fate, Moved
  <2>11. ASSUME NEW j \in Ids \ S  PROVE Fate(j)
    <3>1. rows'[j] = rows[j]  BY <2>3, <2>5 DEF MergedForm
    <3> QED BY <3>1 DEF Fate
  <2> QED BY <2>9, <2>10, <2>11
<1>4. CASE Moves
  <2>1. writes' = writes + 1  BY <1>4 DEF Moves, Write
  <2>2. PICK i \in Kept(rows), place \in {"live", "trash"} : rows' = Placed(i, place)
    BY <1>4 DEF Moves
  <2>3. i \in Ids  BY <1>k
  <2>4. Placed(i, place) = PlacedForm(i, place)
    BY <2>3, <1>0, PlacedRow
  <2>5. Fate(i)  BY <2>1, <2>2, <2>3, <2>4 DEF PlacedForm, Fate, Moved
  <2>6. \A j \in Ids \ {i} : rows'[j] = rows[j]  BY <2>2, <2>4 DEF PlacedForm
  <2> QED BY <2>5, <2>6 DEF Fate
<1>5. CASE Updates
  <2>1. writes' = writes + 1 /\ \E p \in Clients : LateUpdate(p)
    BY <1>5 DEF Updates, Write
  <2>2. PICK i \in Live(rows), text \in Texts \cup {NoText}, vector \in Texts \cup {NoText},
             evidence \in SUBSET Ids : rows' = Updated(i, text, vector, evidence)
    BY <1>5 DEF Updates
  <2>3. i \in Ids /\ rows[i].place = "live"  BY DEF Live
  <2>4. Updated(i, text, vector, evidence) = UpdatedForm(i, text, vector, evidence)
    BY <2>3, <1>0, UpdatedRow
  <2>5. \/ VectorKept(i, text, vector) = NoText
        \/ text = rows[i].text /\ VectorKept(i, text, vector) = rows[i].vector
    BY DEF VectorKept
  <2>6. Fate(i)  BY <2>1, <2>2, <2>3, <2>4, <2>5 DEF UpdatedForm, Fate, Rewritten
  <2>7. \A j \in Ids \ {i} : rows'[j] = rows[j]  BY <2>2, <2>4 DEF UpdatedForm
  <2> QED BY <2>6, <2>7 DEF Fate
<1>6. CASE Embeds
  <2>1. writes' = writes + 1 /\ \E p \in Clients : EmbedWrite(p)
    BY <1>6 DEF Embeds, Write
  <2>2. PICK i \in Live(rows), text \in Texts \cup {NoText} :
          rows' = [rows EXCEPT ![i].vector = text, ![i].updated = writes + 1]
    BY <1>6 DEF Embeds
  <2>3. i \in Ids /\ rows[i].place = "live"  BY DEF Live
  <2>4. rows' = EmbeddedForm(i, text)
    BY <2>2, <2>3, <1>0, EmbeddedRow
  <2>5. Fate(i)  BY <2>1, <2>3, <2>4 DEF EmbeddedForm, Fate, Embedded
  <2>6. \A j \in Ids \ {i} : rows'[j] = rows[j]  BY <2>4 DEF EmbeddedForm
  <2> QED BY <2>5, <2>6 DEF Fate
<1>7. CASE Purges
  <2>1. PICK S \in SUBSET Trash(rows) : Purge(Dependents(rows, S))  BY <1>7 DEF Purges
  <2>2. rows' = Without(Dependents(rows, S))  BY <2>1 DEF Purge
  <2>3. \A i \in Ids \ Dependents(rows, S) : rows'[i] = rows[i]  BY <2>2 DEF Without
  <2>4. \A i \in Ids \cap Dependents(rows, S) : rows'[i].place = "purged"
    BY <2>2 DEF Without, Absent
  <2> QED BY <2>1, <2>3, <2>4 DEF Fate, Purged
<1> QED BY <1>0, <1>1, <1>2, <1>3, <1>4, <1>5, <1>6, <1>7 DEF RowsStep


\* A row that is gone stays gone, a row that exists goes on existing, and only a
\* deletion for good takes rows away.
LEMMA GoneSteps ==
  ASSUME TypeInv, [Next]_vars
  PROVE  /\ \A i \in Ids : rows[i].place = "purged" => rows'[i].place = "purged"
         /\ \A i \in Ids : rows[i].place # "none" => rows'[i].place # "none"
         /\ \A i \in Ids : i \in Gone(rows') \ Gone(rows) => Purged(i)
<1>1. ASSUME NEW i \in Ids
      PROVE  /\ rows[i].place = "purged" => rows'[i].place = "purged"
             /\ rows[i].place # "none" => rows'[i].place # "none"
             /\ i \in Gone(rows') \ Gone(rows) => Purged(i)
  <2>1. Fate(i)  BY Fates
  <2>2. CASE rows'[i] = rows[i]  BY <2>2 DEF Gone
  <2>3. CASE Purged(i)  BY <2>3 DEF Purged
  <2>4. CASE Created(i) \/ MergedInto(i) \/ Moved(i) \/ Rewritten(i) \/ Embedded(i)
    BY <2>4 DEF Created, MergedInto, Moved, Rewritten, Embedded, Gone, Kept, Live, Trash
  <2> QED BY <2>1, <2>2, <2>3, <2>4 DEF Fate
<1> QED BY <1>1

\* What rests on a memory that goes is one of those that go.
LEMMA DependentsClosed ==
  ASSUME NEW S \in SUBSET Trash(rows), NEW i \in Kept(rows),
         rows[i].evidence \cap Dependents(rows, S) # {}
  PROVE  i \in Dependents(rows, S)
<1>1. PICK e \in rows[i].evidence : e \in Dependents(rows, S)
  OBVIOUS
<1>2. ASSUME NEW T \in SUBSET Kept(rows), S \subseteq T, HoldsDependents(rows, T)
      PROVE  i \in T
  <2>1. e \in T  BY <1>1, <1>2 DEF Dependents
  <2> QED BY <1>1, <1>2, <2>1 DEF HoldsDependents
<1> QED BY <1>2 DEF Dependents

-----------------------------------------------------------------------------
(* What holds of every step *)

\* A stored vector that was computed from the stored text still is after every
\* step but the write of an embedding that waited for the model.
THEOREM VectorsOnlyLate == Spec => OnlyLateVectors
<1>1. ASSUME TypeInv, [Next]_vars
      PROVE  (\E p \in Clients : EmbedWrite(p)) \/ (VectorsMatchTexts => VectorsMatchTexts')
  <2>1. SUFFICES ASSUME ~\E p \in Clients : EmbedWrite(p), VectorsMatchTexts, NEW i \in Kept(rows')
                 PROVE  rows'[i].vector \in {rows'[i].text, NoText}
    BY DEF VectorsMatchTexts
  <2>2. i \in Ids /\ rows'[i].place \in {"live", "trash"}  BY DEF Kept, Live, Trash
  <2>3. Fate(i)  BY <1>1, <2>2, Fates
  <2>4. CASE rows'[i] = rows[i]
    <3>1. i \in Kept(rows)  BY <2>2, <2>4 DEF Kept, Live, Trash
    <3> QED BY <2>1, <2>4, <3>1 DEF VectorsMatchTexts
  <2>5. CASE Purged(i)  BY <2>2, <2>5 DEF Purged
  <2>6. CASE Created(i) \/ MergedInto(i)  BY <2>6 DEF Created, MergedInto
  <2>7. CASE Moved(i) \/ Rewritten(i)
    <3>1. i \in Kept(rows)  BY <2>2, <2>7 DEF Moved, Rewritten, Kept, Live
    <3> QED BY <2>1, <2>7, <3>1 DEF Moved, Rewritten, VectorsMatchTexts
  <2>8. CASE Embedded(i)  BY <2>1, <2>8 DEF Embedded
  <2> QED BY <2>3, <2>4, <2>5, <2>6, <2>7, <2>8 DEF Fate
<1> QED BY <1>1, TypesInv, PTL DEF Spec, OnlyLateVectors

\* A citation of what was deleted for good comes only from a consolidation or an
\* edit that read it before and hands it on, or from a person who names it in an
\* edit of the section.
THEOREM CitationsOnlyLate == Spec => OnlyLateCitations
<1>1. ASSUME TypeInv, [Next]_vars
      PROVE  \/ \E p \in Clients : HandsOnThePurged(p) \/ SectionCite(p)
             \/ CoreForgets => CoreForgets'
  <2>1. SUFFICES ASSUME ~\E p \in Clients : HandsOnThePurged(p) \/ SectionCite(p), CoreForgets
                 PROVE  CoreForgets'
    OBVIOUS
  <2>2. CoreStep  BY <1>1, CoreKinds DEF TypeInv
  <2>3. ASSUME NEW S \in SUBSET Trash(rows), Purge(Dependents(rows, S))
        PROVE  CoreForgets'
    <3>1. Gone(rows') \subseteq Gone(rows) \cup Dependents(rows, S)
      BY <2>3 DEF Purge, Without, Gone, Absent
    <3>2. ASSUME NEW cites \in past' \cup {core'.cites}
          PROVE  cites \cap Gone(rows') = {}
      <4>1. CASE cites \in past'
        BY <2>1, <2>3, <3>1, <4>1 DEF Purge, Scrubbed, CoreForgets
      <4>2. CASE cites = core'.cites
        BY <2>1, <2>3, <3>1, <4>2 DEF Purge, NoSection, CoreForgets
      <4> QED BY <3>2, <4>1, <4>2
    <3> QED BY <3>2 DEF CoreForgets
  <2>4. CASE ~\E S \in SUBSET Trash(rows) : Purge(Dependents(rows, S))
    <3>1. \A i \in Ids : ~Purged(i)  BY <2>4 DEF Purged
    <3>2. Gone(rows') \subseteq Gone(rows)
      BY <1>1, <3>1, GoneSteps DEF Gone
    <3>3. CASE UNCHANGED <<core, past>> \/ (past' = past \cup {core.cites} /\ core' = NoSection)
      BY <2>1, <3>2, <3>3 DEF CoreForgets, NoSection
    <3>4. ASSUME NEW p \in Clients, NEW cites \in SUBSET Ids, Upsert(cites), UNCHANGED rows,
                 \/ ConsolidateWrite(p) /\ cites \subseteq Has(p)
                 \/ SectionWrite(p) /\ cites = ops[p].section.cites
                 \/ SectionCite(p)
          PROVE  CoreForgets'
      <4>1. cites \cap Gone(rows) = {}
        BY <2>1, <3>4 DEF HandsOnThePurged
      <4>2. /\ past' \cup {core'.cites} \subseteq past \cup {core.cites, cites}
            /\ Gone(rows') = Gone(rows)
        BY <3>4 DEF Upsert
      <4> QED BY <2>1, <4>1, <4>2 DEF CoreForgets
    <3> QED BY <2>2, <2>4, <3>3, <3>4 DEF CoreStep
  <2> QED BY <2>3, <2>4
<1> QED BY <1>1, TypesInv, PTL DEF Spec, OnlyLateCitations

\* Nothing but an update with the evidence that its caller read earlier can leave
\* a memory resting on one that was deleted for good.
THEOREM EvidenceOnlyLate == Spec => OnlyLateEvidence
<1>1. ASSUME TypeInv, [Next]_vars
      PROVE  \/ \E p \in Clients : PatchWrite(p) \/ ReviewUpdate(p) \/ ReviewMerged(p)
             \/ PurgeReachesAll => PurgeReachesAll'
  <2>1. SUFFICES ASSUME ~\E p \in Clients : LateUpdate(p), PurgeReachesAll, NEW i \in Kept(rows')
                 PROVE  rows'[i].evidence \cap Gone(rows') = {}
    BY DEF PurgeReachesAll, LateUpdate
  <2>2. i \in Ids /\ rows'[i].place \in {"live", "trash"}  BY DEF Kept, Live, Trash
  <2>3. Fate(i)  BY <1>1, <2>2, Fates
  <2>4. CASE \E S \in SUBSET Trash(rows) : Purge(Dependents(rows, S))
    <3>1. PICK S \in SUBSET Trash(rows) : Purge(Dependents(rows, S))  BY <2>4
    <3>2. rows' = Without(Dependents(rows, S))  BY <3>1 DEF Purge
    <3>3. i \notin Dependents(rows, S) /\ rows'[i] = rows[i]
      BY <2>2, <3>2 DEF Without, Absent
    <3>4. i \in Kept(rows)  BY <2>2, <3>3 DEF Kept, Live, Trash
    <3>5. rows[i].evidence \cap Dependents(rows, S) = {}  BY <3>3, <3>4, DependentsClosed
    <3>6. rows[i].evidence \cap Gone(rows) = {}  BY <2>1, <3>4 DEF PurgeReachesAll
    <3>7. Gone(rows') \subseteq Gone(rows) \cup Dependents(rows, S)
      BY <3>2 DEF Without, Gone, Absent
    <3> QED BY <3>3, <3>5, <3>6, <3>7
  <2>5. CASE ~\E S \in SUBSET Trash(rows) : Purge(Dependents(rows, S))
    <3>1. \A j \in Ids : ~Purged(j)  BY <2>5 DEF Purged
    <3>2. Gone(rows') \subseteq Gone(rows)
      BY <1>1, <3>1, GoneSteps DEF Gone
    <3>3. CASE rows'[i].evidence = rows[i].evidence /\ i \in Kept(rows)
      BY <2>1, <3>2, <3>3 DEF PurgeReachesAll
    <3>4. CASE rows'[i].evidence = {}
      BY <3>4
    <3>5. CASE MergedInto(i)
      <4>1. \A k \in Live(rows) : rows[k].evidence \cap Gone(rows) = {}
        BY <2>1 DEF PurgeReachesAll, Kept
      <4>2. Live(rows) \cap Gone(rows) = {}  BY DEF Live, Gone
      <4> QED BY <3>2, <3>5, <4>1, <4>2 DEF MergedInto
    <3>6. rows'[i] = rows[i] => i \in Kept(rows)  BY <2>2 DEF Kept, Live, Trash
    <3>7. Embedded(i) => i \in Kept(rows)  BY <2>2 DEF Embedded, Kept, Live
    <3> QED BY <2>1, <2>3, <3>1, <2>2, <3>3, <3>4, <3>5, <3>6, <3>7
        DEF Fate, Created, Moved, Rewritten, Embedded
  <2> QED BY <2>4, <2>5
<1> QED BY <1>1, TypesInv, PTL DEF Spec, OnlyLateEvidence


-----------------------------------------------------------------------------
(* What a request has read, against what is there now *)

\* What the write of another request leaves recognisable: a new instant always,
\* and a new revision unless the row became the result of a merge.
LEMMA WritesShow ==
  ASSUME TypeInv, [Next]_vars, NEW i \in Ids, rows[i].place # "none"
  PROVE  /\ rows'[i] = rows[i] \/ rows'[i].place = "purged" \/ rows'[i].updated = writes + 1
         /\ \/ rows'[i].place = "purged"
            \/ /\ rows[i].revision <= rows'[i].revision
               /\ rows'[i].revision = rows[i].revision =>
                    \/ rows'[i].text = rows[i].text /\ rows'[i].evidence = rows[i].evidence
                    \/ i \in rows'[i].evidence
<1>1. Fate(i)  BY Fates
<1>2. rows[i].revision \in Nat  BY EditsAssumption DEF TypeInv, TypeOK, Row
<1>3. CASE rows'[i] = rows[i]  BY <1>2, <1>3
<1>4. CASE Purged(i)  BY <1>4 DEF Purged
<1>5. CASE /\ writes' = writes + 1 /\ rows'[i].updated = writes'
           /\ Created(i) \/ MergedInto(i) \/ Moved(i) \/ Rewritten(i) \/ Embedded(i)
  BY <1>2, <1>5 DEF Created, MergedInto, Moved, Rewritten, Embedded
<1> QED BY <1>1, <1>3, <1>4, <1>5 DEF Fate

\* Of one who has seen a plan to delete: what was shown of a row is what the row
\* holds for as long as its instant stays.
Shown(p) ==
  At(p, "preview") => \A i \in Has(p) :
    /\ ops[p].read[i].updated <= writes
    /\ rows[i].place # "none"
    /\ \/ rows[i].place = "purged"
       \/ rows[i].updated = ops[p].read[i].updated =>
            /\ rows[i].text = ops[p].read[i].text
            /\ rows[i].evidence = ops[p].read[i].evidence

\* "text" and "revision" were read of row i together.
SameEdit(i, text, revision) ==
  /\ rows[i].place # "none"
  /\ \/ rows[i].place = "purged"
     \/ /\ revision <= rows[i].revision
        /\ rows[i].revision = revision => rows[i].text = text \/ i \in rows[i].evidence

\* Of an editor: what was read of the one row is what the row holds for as long
\* as its revision stays, unless a merge wrote it.
Edited(p) ==
  /\ At(p, "open") => \A i \in Has(p) :
       SameEdit(i, ops[p].read[i].text, ops[p].read[i].revision)
  /\ At(p, "patch") => \A i \in Has(p) :
       /\ Has(p) = {i}
       /\ ops[p].guard # 0 => SameEdit(i, ops[p].saw, ops[p].guard)

EditInv == TypeInv /\ \A p \in Clients : Shown(p) /\ Edited(p)

\* A plan shows the rows as they are.
LEMMA NewPreview ==
  ASSUME TypeInv, NEW p \in Clients, PurgePreview(p)
  PROVE  /\ UNCHANGED rows /\ UNCHANGED writes
         /\ ops'[p].pc = "preview"
         /\ \E gone \in SUBSET Kept(rows) : ops'[p].read = [i \in gone |-> rows[i]]
<1>1. PICK S \in SUBSET Trash(rows) : LET gone == Dependents(rows, S) IN
        ops' = [ops EXCEPT ![p] =
          [Idle EXCEPT !.pc = "preview", !.read = [i \in gone |-> rows[i]],
             !.section = IF core.cites \cap gone # {} THEN core ELSE NoSection,
             !.past = past \ Scrubbed(gone)]]
  BY DEF PurgePreview
<1> DEFINE gone == Dependents(rows, S)
<1>2. gone \in SUBSET Kept(rows)  BY DependentsKept
<1>3. ops \in [Clients -> Op]  BY DEF TypeInv, TypeOK
<1> HIDE DEF gone
<1>4. ops'[p].pc = "preview" /\ ops'[p].read = [i \in gone |-> rows[i]]
  BY <1>1, <1>3 DEF Idle, gone
<1> QED BY <1>2, <1>4 DEF PurgePreview

\* An editor sees the row as it is.
LEMMA NewOpen ==
  ASSUME TypeInv, NEW p \in Clients, Open(p)
  PROVE  /\ UNCHANGED rows /\ UNCHANGED writes
         /\ ops'[p].pc = "open"
         /\ \E i \in Live(rows) : ops'[p].read = [j \in {i} |-> Seen(j, {"text", "revision"})]
<1>1. PICK i \in Live(rows) : Begin(p, "open", {i}, {"text", "revision"})  BY DEF Open
<1>2. /\ ops'[p].pc = "open"
      /\ ops'[p].read = [j \in {i} |-> Seen(j, {"text", "revision"})]
  BY <1>1, SeenFields DEF TypeInv
<1> QED BY <1>2 DEF Open

\* An edit carries the text and the revision that its author saw, or no guard.
LEMMA NewPatch ==
  ASSUME TypeInv, NEW p \in Clients, PatchRead(p)
  PROVE  /\ UNCHANGED rows /\ UNCHANGED writes
         /\ ops[p].pc = "open" /\ ops'[p].pc = "patch"
         /\ \E i \in Has(p) \cap Live(rows) :
              /\ DOMAIN ops'[p].read = {i}
              /\ ops'[p].saw = ops[p].read[i].text
              /\ ops'[p].guard \in {0, ops[p].read[i].revision}
<1>1. PICK i \in Has(p) \cap Live(rows) : \E guard \in {0, ops[p].read[i].revision} :
        ops' = [ops EXCEPT ![p] =
          [Idle EXCEPT !.pc = "patch", !.saw = ops[p].read[i].text, !.guard = guard,
                       !.read = [j \in {i} |-> Seen(j, {"text", "vector", "evidence"})]]]
  BY DEF PatchRead
<1>2. ops \in [Clients -> Op]  BY DEF TypeInv, TypeOK
<1>3. /\ ops'[p].pc = "patch" /\ ops'[p].saw = ops[p].read[i].text
      /\ ops'[p].guard \in {0, ops[p].read[i].revision}
      /\ DOMAIN ops'[p].read = {i}
  BY <1>1, <1>2 DEF Idle
<1> QED BY <1>3 DEF PatchRead, At

\* No step lets a seen revision pass for a text that it was not seen with.
LEMMA SameEditStays ==
  ASSUME TypeInv, [Next]_vars, NEW i \in Ids, NEW text, NEW revision \in Nat,
         SameEdit(i, text, revision)
  PROVE  SameEdit(i, text, revision)'
<1>1. rows'[i].place # "none" /\ (rows[i].place = "purged" => rows'[i].place = "purged")
  BY GoneSteps DEF SameEdit
<1>2. rows[i].revision \in Nat /\ rows'[i].revision \in Nat
  BY NextType, EditsAssumption DEF TypeInv, TypeOK, Row
<1>3. CASE rows'[i] = rows[i]  BY <1>3 DEF SameEdit
<1>4. CASE rows'[i].place = "purged"  BY <1>4 DEF SameEdit
<1>5. CASE rows[i].place # "purged" /\ rows'[i].place # "purged"
  <2>1. revision <= rows[i].revision /\
        (rows[i].revision = revision => rows[i].text = text \/ i \in rows[i].evidence)
    BY <1>5 DEF SameEdit
  <2>2. /\ rows[i].revision <= rows'[i].revision
        /\ rows'[i].revision = rows[i].revision =>
             \/ rows'[i].text = rows[i].text /\ rows'[i].evidence = rows[i].evidence
             \/ i \in rows'[i].evidence
    BY <1>5, WritesShow DEF SameEdit
  <2> QED BY <1>1, <1>2, <2>1, <2>2 DEF SameEdit
<1> QED BY <1>1, <1>3, <1>4, <1>5

\* Every step keeps what was read in agreement with what is there.
LEMMA NextEdit == EditInv /\ [Next]_vars => EditInv'
<1> SUFFICES ASSUME EditInv, [Next]_vars, NEW q \in Clients
             PROVE  Shown(q)' /\ Edited(q)'
  BY NextType DEF EditInv
<1>0. TypeInv /\ TypeOK /\ ops \in [Clients -> Op] /\ writes \in Nat /\ OpsStep
  BY OpsKinds, EditsAssumption DEF EditInv, TypeInv, TypeOK
<1>r. /\ Has(q) \subseteq Ids /\ ops[q] \in Op
      /\ \A i \in Has(q) : ops[q].read[i] \in Row
  BY <1>0, ReadType
<1>n. /\ ops[q].guard \in Nat
      /\ \A i \in Has(q) : ops[q].read[i].updated \in Nat /\ ops[q].read[i].revision \in Nat
  BY <1>r, EditsAssumption DEF Op, Row
<1>t. writes' \in Nat /\ writes <= writes'
  <2>1. RowsStep  BY <1>0, RowKinds
  <2> QED BY <1>0, <2>1, RowsType, EditsAssumption
<1>1. CASE ops'[q] = ops[q]
  <2>1. Shown(q)'
    <3>1. SUFFICES ASSUME At(q, "preview"), NEW i \in Has(q)
                   PROVE  /\ ops[q].read[i].updated <= writes'
                          /\ rows'[i].place # "none"
                          /\ \/ rows'[i].place = "purged"
                             \/ rows'[i].updated = ops[q].read[i].updated =>
                                  /\ rows'[i].text = ops[q].read[i].text
                                  /\ rows'[i].evidence = ops[q].read[i].evidence
      BY <1>1 DEF Shown, At, Has
    <3>2. Shown(q)  BY DEF EditInv
    <3>3. i \in Ids /\ rows[i].place # "none"  BY <1>r, <3>1, <3>2 DEF Shown
    <3>4. rows'[i].place # "none" /\ (rows[i].place = "purged" => rows'[i].place = "purged")
      BY <1>0, <3>3, GoneSteps
    <3>5. rows'[i] = rows[i] \/ rows'[i].place = "purged" \/ rows'[i].updated = writes + 1
      BY <1>0, <3>3, WritesShow
    <3>6. ops[q].read[i].updated <= writes  BY <3>1, <3>2 DEF Shown
    <3>7. CASE rows'[i] = rows[i]
      BY <1>0, <1>n, <1>t, <3>1, <3>2, <3>4, <3>6, <3>7 DEF Shown
    <3>8. CASE rows'[i].place = "purged" \/ rows'[i].updated = writes + 1
      BY <1>0, <1>n, <1>t, <3>1, <3>4, <3>6, <3>8
    <3> QED BY <3>5, <3>7, <3>8
  <2>2. Edited(q)'
    <3>1. Edited(q)  BY DEF EditInv
    <3>2. ASSUME At(q, "open"), NEW i \in Has(q)
          PROVE  SameEdit(i, ops[q].read[i].text, ops[q].read[i].revision)'
      <4>1. SameEdit(i, ops[q].read[i].text, ops[q].read[i].revision)
        BY <3>1, <3>2 DEF Edited
      <4>2. PICK text, revision : text = ops[q].read[i].text /\ revision = ops[q].read[i].revision
        OBVIOUS
      <4>3. revision \in Nat /\ i \in Ids  BY <4>2, <1>n, <1>r
      <4>4. SameEdit(i, text, revision)  BY <4>1, <4>2
      <4>5. SameEdit(i, text, revision)'  BY <1>0, <4>3, <4>4, SameEditStays
      <4> QED BY <1>1, <4>2, <4>5 DEF SameEdit
    <3>3. ASSUME At(q, "patch"), NEW i \in Has(q), ops[q].guard # 0
          PROVE  SameEdit(i, ops[q].saw, ops[q].guard)'
      <4>1. SameEdit(i, ops[q].saw, ops[q].guard)
        BY <3>1, <3>3 DEF Edited
      <4>2. PICK text, revision : text = ops[q].saw /\ revision = ops[q].guard
        OBVIOUS
      <4>3. revision \in Nat /\ i \in Ids  BY <4>2, <1>n, <1>r
      <4>4. SameEdit(i, text, revision)  BY <4>1, <4>2
      <4>5. SameEdit(i, text, revision)'  BY <1>0, <4>3, <4>4, SameEditStays
      <4> QED BY <1>1, <4>2, <4>5 DEF SameEdit
    <3> QED BY <1>1, <3>1, <3>2, <3>3 DEF Edited, At, Has
  <2> QED BY <2>1, <2>2
<1>2. CASE ops'[q].pc \notin {"open", "patch", "preview"}
  BY <1>2 DEF Shown, Edited, At
<1>3. CASE PurgePreview(q)
  <2>1. PICK gone \in SUBSET Kept(rows) : ops'[q].read = [i \in gone |-> rows[i]]
    BY <1>0, <1>3, NewPreview
  <2>2. ops'[q].pc = "preview" /\ rows' = rows /\ writes' = writes
    BY <1>0, <1>3, NewPreview
  <2>3. \A i \in gone : rows[i].place # "none" /\ rows[i].updated <= writes
    BY <1>0 DEF TypeInv, Bounds, Kept, Live, Trash
  <2> QED BY <2>1, <2>2, <2>3 DEF Shown, Edited, At, Has
<1>4. CASE Open(q)
  <2>1. PICK i \in Live(rows) : ops'[q].read = [j \in {i} |-> Seen(j, {"text", "revision"})]
    BY <1>0, <1>4, NewOpen
  <2>2. ops'[q].pc = "open" /\ rows' = rows
    BY <1>0, <1>4, NewOpen
  <2>3. ops'[q].read[i].text = rows[i].text /\ ops'[q].read[i].revision = rows[i].revision
    BY <2>1 DEF Seen, Absent
  <2>4. rows[i].revision \in Nat /\ rows[i].place # "none"
    BY <1>0, EditsAssumption DEF TypeOK, Row, Live
  <2> QED BY <2>1, <2>2, <2>3, <2>4 DEF Shown, Edited, SameEdit, At, Has
<1>5. CASE PatchRead(q)
  <2>1. PICK i \in Has(q) \cap Live(rows) :
          /\ DOMAIN ops'[q].read = {i}
          /\ ops'[q].saw = ops[q].read[i].text
          /\ ops'[q].guard \in {0, ops[q].read[i].revision}
    BY <1>0, <1>5, NewPatch
  <2>2. ops[q].pc = "open" /\ ops'[q].pc = "patch" /\ rows' = rows
    BY <1>0, <1>5, NewPatch
  <2>3. SameEdit(i, ops[q].read[i].text, ops[q].read[i].revision)
    BY <2>2 DEF EditInv, Edited, At
  <2> QED BY <2>1, <2>2, <2>3 DEF Shown, Edited, SameEdit, At, Has
<1>6. \/ ops'[q] = ops[q] \/ ops'[q].pc \notin {"open", "patch", "preview"}
      \/ Open(q) \/ PatchRead(q) \/ PurgePreview(q)
  BY <1>0 DEF OpsStep
<1> QED BY <1>1, <1>2, <1>3, <1>4, <1>5, <1>6

\* What was read agrees with what is there in every reachable state.
LEMMA EditsInv == Spec => []EditInv
<1>1. Init => EditInv
  BY InitType DEF Init, EditInv, Shown, Edited, At, Idle
<1> QED BY <1>1, NextEdit, PTL DEF Spec

\* An edit guarded by a revision replaces only a text that its author has seen,
\* or one that a merge wrote since.
THEOREM GuardedEdits == Spec => GuardedEditsLoseNoEdit
<1>1. ASSUME EditInv, [Next]_vars
      PROVE  \A p \in Clients : EditsSee(p) =>
               \A i \in Has(p) : rows[i].text = ops[p].saw \/ i \in rows[i].evidence
  <2>1. SUFFICES ASSUME NEW p \in Clients, PatchWrite(p), ops[p].guard # 0, NEW i \in Has(p)
                 PROVE  rows[i].text = ops[p].saw \/ i \in rows[i].evidence
    BY DEF EditsSee
  <2>2. PICK j \in Has(p) \cap Live(rows) : Passes(ops[p].guard, rows[j].revision)
    BY <2>1 DEF PatchWrite
  <2>3. Has(p) = {i} /\ SameEdit(i, ops[p].saw, ops[p].guard)
    <3>1. At(p, "patch")  BY <2>1 DEF PatchWrite
    <3>2. Edited(p)  BY <1>1 DEF EditInv
    <3> QED BY <2>1, <3>1, <3>2 DEF Edited
  <2>4. ops[p].guard = rows[i].revision /\ rows[i].place = "live"
    BY <2>1, <2>2, <2>3 DEF Passes, Live
  <2> QED BY <2>3, <2>4 DEF SameEdit
<1> QED BY <1>1, EditsInv, PTL DEF Spec, GuardedEditsLoseNoEdit

\* A confirmed batch deletes exactly the memories that its preview showed, with
\* the text and the evidence that it showed.
THEOREM BatchesAsShown == Spec => PurgesWhatWasShown
<1>1. ASSUME EditInv, [Next]_vars
      PROVE  \A p \in Clients : PurgeCommit(p) =>
               /\ Gone(rows') \ Gone(rows) = Has(p)
               /\ \A i \in Has(p) : /\ rows[i].text = ops[p].read[i].text
                                    /\ rows[i].evidence = ops[p].read[i].evidence
               /\ core' # core => core = ops[p].section
  <2> SUFFICES ASSUME NEW p \in Clients, PurgeCommit(p)
               PROVE  /\ Gone(rows') \ Gone(rows) = Has(p)
                      /\ \A i \in Has(p) : /\ rows[i].text = ops[p].read[i].text
                                           /\ rows[i].evidence = ops[p].read[i].evidence
                      /\ core' # core => core = ops[p].section
    OBVIOUS
  <2>1. PICK S \in SUBSET (Has(p) \cap Trash(rows)) :
          AsPreviewed(p, Dependents(rows, S)) /\ Purge(Dependents(rows, S))
    BY DEF PurgeCommit
  <2> DEFINE gone == Dependents(rows, S)
  <2>2. gone \subseteq Kept(rows)
    <3>1. S \in SUBSET Trash(rows)  OBVIOUS
    <3> QED BY <3>1, DependentsKept
  <2> HIDE DEF gone
  <2>3. AsPreviewed(p, gone) /\ Purge(gone)  BY <2>1 DEF gone
  <2>4. Gone(rows') \ Gone(rows) = gone
    BY <2>2, <2>3 DEF Purge, Without, Absent, Gone, Kept, Live, Trash
  <2>5. gone = Has(p)  BY <2>3 DEF AsPreviewed
  <2>6. ASSUME NEW i \in gone
        PROVE  rows[i].text = ops[p].read[i].text /\ rows[i].evidence = ops[p].read[i].evidence
    <3>1. Shown(p) /\ At(p, "preview")  BY <1>1 DEF EditInv, PurgeCommit
    <3>2. rows[i].place # "purged"  BY <2>2 DEF Kept, Live, Trash
    <3>3. rows[i].updated = ops[p].read[i].updated  BY <2>3 DEF AsPreviewed
    <3> QED BY <2>5, <3>1, <3>2, <3>3 DEF Shown
  <2>7. core' # core => core = ops[p].section
    BY <2>3 DEF Purge, AsPreviewed
  <2> QED BY <2>4, <2>5, <2>6, <2>7
<1> QED BY <1>1, EditsInv, PTL DEF Spec, PurgesWhatWasShown

=============================================================================
