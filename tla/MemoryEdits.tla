----------------------------- MODULE MemoryEdits -----------------------------
(***************************************************************************)
(* One user's memories as documents: their text, revision, vector and      *)
(* evidence, and the core memory that is drawn from them.  Every write     *)
(* runs under SQLite's write lock and is one action; what makes it hard is *)
(* that editors, the review, the embedding of texts and the consolidation  *)
(* of core memory each read in one transaction, wait for a person or a     *)
(* model, and write in another.  Memories are without temporal keys here;  *)
(* chains in time are in MemoryTimeline.                                   *)
(***************************************************************************)
EXTENDS MemoryPurge

CONSTANTS
  Texts,
  NoText,
  Clients,    \* requests served at a time
  Asks,       \* the kinds of requests each of them makes
  MaxWrites   \* bound of the model: writes

Kinds == {"edit", "embed", "core", "review", "purge"}

ASSUME EditsAssumption ==
  /\ {MaxId, MaxWrites} \subseteq Nat
  /\ NoText \notin Texts
  /\ Asks \in [Clients -> SUBSET Kinds]

VARIABLES
  rows,    \* memories
  core,    \* the live core memory section; "cites" is its evidence
  past,    \* the evidence of each archived or replaced version of a section
  ops,     \* the request each client has under way
  writes   \* writes so far; each has its own instant, which updated_at keeps

vars == <<rows, core, past, ops, writes>>

\* "vector": the text that the stored embedding was computed from.
Row == [place: Places, text: Texts \cup {NoText}, vector: Texts \cup {NoText},
        revision: 0..(MaxWrites + 1), updated: 0..MaxWrites, evidence: SUBSET Ids]

\* No section is one that cites nothing.
Section == [cites: SUBSET Ids, revision: 0..(MaxWrites + 1)]

\* What a request knows: "read" maps memories to what it read of them, "saw" is
\* the text the person saw, "guard" the expected_revision, or 0 for none.
Stages == {"idle", "open", "patch", "embed", "sources", "section", "token", "each",
           "merge", "merged", "preview"}

Op == [pc: Stages, read: UNION {[S -> Row] : S \in SUBSET Ids}, saw: Texts \cup {NoText},
       guard: 0..(MaxWrites + 1), section: Section, past: SUBSET SUBSET Ids]

TypeOK ==
  /\ rows \in [Ids -> Row]
  /\ core \in Section
  /\ past \subseteq SUBSET Ids
  /\ ops \in [Clients -> Op]
  /\ writes \in 0..MaxWrites

Absent == [place |-> "none", text |-> NoText, vector |-> NoText, revision |-> 0,
           updated |-> 0, evidence |-> {}]
Nothing == [i \in {} |-> 0]
NoSection == [cites |-> {}, revision |-> 0]
Idle == [pc |-> "idle", read |-> Nothing, saw |-> NoText, guard |-> 0,
         section |-> NoSection, past |-> {}]

Init ==
  /\ rows = [i \in Ids |-> Absent]
  /\ core = NoSection
  /\ past = {}
  /\ ops = [p \in Clients |-> Idle]
  /\ writes = 0

-----------------------------------------------------------------------------
(* Writes *)

Write == writes < MaxWrites /\ writes' = writes + 1

At(p, pc) == ops[p].pc = pc
Has(p) == DOMAIN ops[p].read
Finish(p) == ops' = [ops EXCEPT ![p] = Idle]

\* What a request keeps of row i: the fields its next step looks at.
Seen(i, fields) ==
  [f \in DOMAIN Absent |-> IF f \in fields THEN rows[i][f] ELSE Absent[f]]

Begin(p, pc, S, fields) ==
  ops' = [ops EXCEPT ![p] = [Idle EXCEPT !.pc = pc, !.read = [i \in S |-> Seen(i, fields)]]]

\* Slip: a vector outlives the text.
VectorKeptAlways(i, text, vector) == vector

\* update_memory keeps no vector of another text, and none that has been
\* replaced since the caller read it, for that one has no embedding space.
VectorKept(i, text, vector) ==
  IF text = rows[i].text /\ vector = rows[i].vector THEN vector ELSE NoText

\* update_memory: the caller's text, vector and evidence for row i.
Updated(i, text, vector, evidence) ==
  [rows EXCEPT ![i].text = text, ![i].vector = VectorKept(i, text, vector),
               ![i].evidence = evidence, ![i].revision = @ + 1, ![i].updated = writes + 1]

Placed(i, place) ==
  [rows EXCEPT ![i].place = place, ![i].revision = @ + 1, ![i].updated = writes + 1]

\* merge_memories: t takes a text of all of S and names them as its evidence;
\* the others go to the trash.  The revision stays.
Merged(S, t, text) ==
  [i \in Ids |->
    IF i = t THEN [rows[t] EXCEPT !.text = text, !.vector = NoText,
                     !.evidence = S \cup UNION {rows[j].evidence : j \in S},
                     !.updated = writes + 1]
    ELSE IF i \in S THEN [rows[i] EXCEPT !.place = "trash", !.updated = writes + 1]
    ELSE rows[i]]

\* create_memory: with a vector, or without one when embedding failed.
Create ==
  /\ Write
  /\ \E i \in Ids, t \in Texts : \E v \in {t, NoText} :
       /\ rows[i].place = "none" /\ \A j \in Ids : j < i => rows[j].place # "none"
       /\ rows' = [rows EXCEPT ![i] = [place |-> "live", text |-> t, vector |-> v,
                     revision |-> 1, updated |-> writes + 1, evidence |-> {}]]
  /\ UNCHANGED <<core, past, ops>>

Merge ==
  /\ Write
  /\ \E S \in SUBSET Live(rows), text \in Texts : \E t \in S :
       S # {t} /\ rows' = Merged(S, t, text)
  /\ UNCHANGED <<core, past, ops>>

Restore ==
  /\ Write
  /\ \E i \in Trash(rows) : rows' = Placed(i, "live")
  /\ UNCHANGED <<core, past, ops>>

-----------------------------------------------------------------------------
(* Edits: a person reads a memory and changes or deletes what they saw *)

Open(p) ==
  /\ "edit" \in Asks[p] /\ At(p, "idle")
  /\ \E i \in Live(rows) : Begin(p, "open", {i}, {"text", "revision"})
  /\ UNCHANGED <<rows, core, past, writes>>

\* Slip: a newer revision passes as well.
PassesNewer(guard, revision) == guard <= revision

\* A guard holds when the revision is still the one that was seen.
Passes(guard, revision) == guard = 0 \/ guard = revision

\* PATCH reads the memory ("existing") before it updates it.
PatchRead(p) ==
  /\ At(p, "open")
  /\ \E i \in Has(p) \cap Live(rows) : \E guard \in {0, ops[p].read[i].revision} :
       ops' = [ops EXCEPT ![p] =
         [Idle EXCEPT !.pc = "patch", !.saw = ops[p].read[i].text, !.guard = guard,
                      !.read = [j \in {i} |-> Seen(j, {"text", "vector", "evidence"})]]]
  /\ UNCHANGED <<rows, core, past, writes>>

\* The text is a new one, or that of "existing"; the evidence always is.
PatchWrite(p) ==
  /\ At(p, "patch")
  /\ Write
  /\ \E i \in Has(p) \cap Live(rows), text \in Texts :
       LET existing == ops[p].read[i]
           vector == IF text = existing.text THEN existing.vector ELSE NoText
       IN /\ Passes(ops[p].guard, rows[i].revision)
          /\ rows' = Updated(i, text, vector, existing.evidence)
  /\ Finish(p)
  /\ UNCHANGED <<core, past>>

\* With a guard or without one.
Archive(p) ==
  /\ At(p, "open")
  /\ Write
  /\ \E i \in Has(p) \cap Live(rows) : rows' = Placed(i, "trash")
  /\ Finish(p)
  /\ UNCHANGED <<core, past>>

-----------------------------------------------------------------------------
(* Embedding again: read, wait for the model, write *)

EmbedRead(p) ==
  /\ "embed" \in Asks[p] /\ At(p, "idle")
  /\ \E i \in Live(rows) : Begin(p, "embed", {i}, {"text"})
  /\ UNCHANGED <<rows, core, past, writes>>

EmbedWrite(p) ==
  /\ At(p, "embed")
  /\ Write
  /\ \E i \in Has(p) \cap Live(rows) :
       rows' = [rows EXCEPT ![i].vector = ops[p].read[i].text, ![i].updated = writes + 1]
  /\ Finish(p)
  /\ UNCHANGED <<core, past>>

-----------------------------------------------------------------------------
(* Core memory *)

\* upsert_core_memory_section, for one section: what it replaces is kept.
Upsert(cites) ==
  /\ core' = [cites |-> cites, revision |-> IF core = NoSection THEN 1 ELSE core.revision + 1]
  /\ past' = IF core = NoSection THEN past ELSE past \cup {core.cites}

\* Consolidation reads the memories and waits for the language model, whose
\* section may cite any of those it was shown.
ConsolidateRead(p) ==
  /\ "core" \in Asks[p] /\ At(p, "idle")
  /\ Live(rows) # {}
  /\ Begin(p, "sources", Live(rows), {})
  /\ UNCHANGED <<rows, core, past, writes>>

ConsolidateWrite(p) ==
  /\ At(p, "sources")
  /\ Write
  /\ \E cites \in SUBSET Has(p) : cites # {} /\ Upsert(cites)
  /\ Finish(p)
  /\ UNCHANGED rows

\* PATCH of a section reads it ("existing") before it writes; a revision may guard
\* the write.
SectionRead(p) ==
  /\ "core" \in Asks[p] /\ At(p, "idle")
  /\ core # NoSection
  /\ \E guard \in {0, core.revision} :
       ops' = [ops EXCEPT ![p] = [Idle EXCEPT !.pc = "section", !.section = core, !.guard = guard]]
  /\ UNCHANGED <<rows, core, past, writes>>

Patch(p, cites) ==
  /\ At(p, "section")
  /\ Write
  /\ Passes(ops[p].guard, core.revision)
  /\ Upsert(cites)
  /\ Finish(p)
  /\ UNCHANGED rows

\* Without evidence_memory_ids in its body, it hands on those of "existing" ...
SectionWrite(p) == Patch(p, ops[p].section.cites)

\* ... and with them it writes what the person names, which may be anything they
\* have ever seen: nothing looks whether these memories are there.
Known == {i \in Ids : rows[i].place # "none"}

SectionCite(p) == \E cites \in SUBSET Known : Patch(p, cites)

ArchiveSection ==
  /\ Write
  /\ core # NoSection
  /\ past' = past \cup {core.cites}
  /\ core' = NoSection
  /\ UNCHANGED <<rows, ops>>

-----------------------------------------------------------------------------
(* The review: a language model's proposal, approved by a person *)

\* The signed token names the memories and the instants of their last change.
Preview(p) ==
  /\ "review" \in Asks[p] /\ At(p, "idle")
  /\ \E S \in SUBSET Live(rows) \ {{}} : Begin(p, "token", S, {"updated"})
  /\ UNCHANGED <<rows, core, past, writes>>

StillAsRead(p) ==
  \A i \in Has(p) : rows[i].place = "live" /\ rows[i].updated = ops[p].read[i].updated

\* apply_review_revision compares them once, and then runs one operation after
\* another, each in a transaction of its own: an update or the deletion of each
\* memory, or the merge of all and an update of the result.
ReviewLoad(p) ==
  /\ At(p, "token")
  /\ StillAsRead(p)
  /\ \E pc \in {"each"} \cup (IF \E i, j \in Has(p) : i # j THEN {"merge"} ELSE {}) :
       Begin(p, pc, Has(p), {"text", "vector", "evidence"})
  /\ UNCHANGED <<rows, core, past, writes>>

Rest(p, i, pc) ==
  IF Has(p) = {i} THEN Finish(p)
  ELSE ops' = [ops EXCEPT ![p].pc = pc, ![p].read = [j \in Has(p) \ {i} |-> ops[p].read[j]]]

ReviewUpdate(p) ==
  /\ At(p, "each")
  /\ Write
  /\ \E i \in Has(p) \cap Live(rows), text \in Texts :
       LET existing == ops[p].read[i]
           vector == IF text = existing.text THEN existing.vector ELSE NoText
       IN /\ rows' = Updated(i, text, vector, existing.evidence)
          /\ Rest(p, i, "each")
  /\ UNCHANGED <<core, past>>

ReviewArchive(p) ==
  /\ At(p, "each")
  /\ \E i \in Has(p) :
       /\ \/ i \in Live(rows) /\ Write /\ rows' = Placed(i, "trash")
          \/ i \notin Live(rows) /\ UNCHANGED <<rows, writes>>
       /\ Rest(p, i, "each")
  /\ UNCHANGED <<core, past>>

ReviewMerge(p) ==
  /\ At(p, "merge")
  /\ Write
  /\ Has(p) \subseteq Live(rows)
  /\ \E t \in Has(p), text \in Texts :
       /\ rows' = Merged(Has(p), t, text)
       /\ ops' = [ops EXCEPT ![p].pc = "merged", ![p].read = [i \in {t} |-> rows'[t]]]
  /\ UNCHANGED <<core, past>>

ReviewMerged(p) ==
  /\ At(p, "merged")
  /\ Write
  /\ \E i \in Has(p) \cap Live(rows) :
       rows' = Updated(i, ops[p].read[i].text, NoText, ops[p].read[i].evidence)
  /\ Finish(p)
  /\ UNCHANGED <<core, past>>

-----------------------------------------------------------------------------
(* Deletion for good *)

Without(gone) ==
  [i \in Ids |-> IF i \in gone
    THEN [Absent EXCEPT !.place = "purged"] ELSE rows[i]]

\* Slip: replaced versions stay as they are.
ScrubbedLive(gone) == past

\* The archived and replaced versions that cite none of the gone.
Scrubbed(gone) == {cites \in past : cites \cap gone = {}}

\* A section whose evidence goes is archived without its text.
Purge(gone) ==
  /\ rows' = Without(gone)
  /\ core' = IF core.cites \cap gone # {} THEN NoSection ELSE core
  /\ past' = Scrubbed(gone)

\* purge_archived_memory, of one memory.
PurgeOne ==
  /\ Write
  /\ \E i \in Trash(rows) : Purge(Dependents(rows, {i}))
  /\ UNCHANGED ops

\* The plan of a batch, signed for the one who confirms it: the memories that
\* go and the sections that lose their text, each with what it holds.
PurgePreview(p) ==
  /\ "purge" \in Asks[p] /\ At(p, "idle")
  /\ \E S \in SUBSET Trash(rows) \ {{}} :
       LET gone == Dependents(rows, S)
       IN ops' = [ops EXCEPT ![p] =
            [Idle EXCEPT !.pc = "preview", !.read = [i \in gone |-> rows[i]],
               !.section = IF core.cites \cap gone # {} THEN core ELSE NoSection,
               !.past = past \ Scrubbed(gone)]]
  /\ UNCHANGED <<rows, core, past, writes>>

\* Slip: only the identifiers are compared.
AsPreviewedByName(p, gone) == gone = Has(p)

\* The fingerprint: the same memories and sections, none written since.
AsPreviewed(p, gone) ==
  /\ gone = Has(p)
  /\ \A i \in gone : /\ rows[i].place = ops[p].read[i].place
                     /\ rows[i].revision = ops[p].read[i].revision
                     /\ rows[i].updated = ops[p].read[i].updated
  /\ (IF core.cites \cap gone # {} THEN core ELSE NoSection) = ops[p].section
  /\ past \ Scrubbed(gone) = ops[p].past

PurgeCommit(p) ==
  /\ At(p, "preview")
  /\ Write
  /\ \E S \in SUBSET (Has(p) \cap Trash(rows)) \ {{}} :
       LET gone == Dependents(rows, S)
       IN AsPreviewed(p, gone) /\ Purge(gone)
  /\ Finish(p)

-----------------------------------------------------------------------------

\* A request is refused or fails, its client gives up, or its process dies.
Drop(p) == ~At(p, "idle") /\ Finish(p) /\ UNCHANGED <<rows, core, past, writes>>

Step(p) ==
  \/ Open(p) \/ PatchRead(p) \/ PatchWrite(p) \/ Archive(p)
  \/ EmbedRead(p) \/ EmbedWrite(p)
  \/ ConsolidateRead(p) \/ ConsolidateWrite(p) \/ SectionRead(p) \/ SectionWrite(p)
  \/ SectionCite(p)
  \/ Preview(p) \/ ReviewLoad(p) \/ ReviewUpdate(p) \/ ReviewArchive(p)
  \/ ReviewMerge(p) \/ ReviewMerged(p)
  \/ PurgePreview(p) \/ PurgeCommit(p)
  \/ Drop(p)

Next ==
  \/ Create \/ Merge \/ Restore \/ ArchiveSection \/ PurgeOne
  \/ \E p \in Clients : Step(p)

Spec == Init /\ [][Next]_vars

-----------------------------------------------------------------------------
(* What must hold *)

\* A stored vector was computed from the stored text ...
VectorsMatchTexts == \A i \in Kept(rows) : rows[i].vector \in {rows[i].text, NoText}

\* ... and only the write of an embedding that waited for the model while the
\* text changed can leave it otherwise: every writer that changes a text drops
\* the vector of the old one, whatever vector its own earlier read hands on
\* (crud.py, merge.py, item.py, review_revision.py).
OnlyLateVectors ==
  [][(\E p \in Clients : EmbedWrite(p)) \/ (VectorsMatchTexts => VectorsMatchTexts')]_vars

Gone(rs) == {i \in Ids : rs[i].place = "purged"}

\* No core memory, live, archived or replaced, cites what was deleted for good:
\* what cites it was drawn from it (README: purging redacts core history).
CoreForgets == \A cites \in past \cup {core.cites} : cites \cap Gone(rows) = {}

\* A consolidation that was shown a memory which was purged since, or an edit that
\* hands on evidence which includes one.
HandsOnThePurged(p) ==
  \/ ConsolidateWrite(p) /\ Has(p) \cap Gone(rows) # {}
  \/ SectionWrite(p) /\ ops[p].section.cites \cap Gone(rows) # {}

\* Such a citation comes only from one who read before the purge and writes after
\* it, or from a person who names the purged memory in an edit of their own: the
\* purge itself, and a consolidation or an edit that read nothing that was purged,
\* never leave one behind.
OnlyLateCitations ==
  [][(\E p \in Clients : HandsOnThePurged(p) \/ SectionCite(p))
     \/ (CoreForgets => CoreForgets')]_vars

\* An edit guarded by a revision never replaces a text that its author has not
\* seen, unless a merge wrote it, which leaves the revision as it was.
EditsSee(p) == PatchWrite(p) /\ ops[p].guard # 0
GuardedEditsLoseNoEdit ==
  [][\A p \in Clients : EditsSee(p) =>
       \A i \in Has(p) : rows[i].text = ops[p].saw \/ i \in rows[i].evidence]_vars

\* A batch deletes the memories that its preview showed with the text and the
\* evidence that it showed, and no other, and redacts the sections it listed.
PurgesWhatWasShown ==
  [][\A p \in Clients : PurgeCommit(p) =>
       /\ Gone(rows') \ Gone(rows) = Has(p)
       /\ \A i \in Has(p) : /\ rows[i].text = ops[p].read[i].text
                            /\ rows[i].evidence = ops[p].read[i].evidence
       /\ core' # core => core = ops[p].section]_vars

\* No memory that is kept rests on one that was deleted for good (README: purging
\* follows the evidence to every dependent memory).
PurgeReachesAll == \A i \in Kept(rows) : rows[i].evidence \cap Gone(rows) = {}

\* Only an update that hands on the evidence its caller read before the purge can
\* break this: the purge itself misses nothing, and no other writer adds evidence
\* that is gone.
OnlyLateEvidence ==
  [][(\E p \in Clients : PatchWrite(p) \/ ReviewUpdate(p) \/ ReviewMerged(p))
     \/ (PurgeReachesAll => PurgeReachesAll')]_vars
=============================================================================
