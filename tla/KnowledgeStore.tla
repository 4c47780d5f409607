--------------------------- MODULE KnowledgeStore ---------------------------
(***************************************************************************)
(* The knowledge library of one user: documents with numbered, immutable   *)
(* versions, the sessions in which clients upload them piece by piece, and *)
(* the background jobs that compute the vectors of a version.              *)
(*                                                                         *)
(* An operation that holds SQLite's write lock from its first statement is *)
(* one action, and an embedding job is one action per call to the store.   *)
(* Calls that are refused roll back and change nothing, so they are not    *)
(* actions; that a session is refused from the moment it is 24 hours old   *)
(* needs no clock, since every call may be refused.                        *)
(***************************************************************************)
EXTENDS Naturals, Sequences, FiniteSets

CONSTANTS
  Documents,    \* document ids, each created once
  NoDocument,
  Uploads,      \* upload sessions there may be at a time
  Pieces,       \* contents of an upload part
  MaxParts,     \* what max_document_bytes allows of them
  MaxOpen,      \* _MAX_OPEN_UPLOADS_PER_USER
  MaxVersions,  \* bound of the model: versions ever created
  Jobs,         \* embedding jobs that may run at a time
  Spaces        \* embedding_space_ids configured in turn

ASSUME KnowledgeAssumption ==
  /\ NoDocument \notin Documents
  /\ {MaxParts, MaxOpen} \subseteq Nat \ {0}
  /\ MaxVersions \in Nat

VARIABLES
  docs,        \* knowledge_documents
  versions,    \* knowledge_versions, in order of creation
  uploads,     \* knowledge_upload_sessions with their parts
  jobs         \* each embedding job

vars == <<docs, versions, uploads, jobs>>

VersionIds == 0..MaxVersions   \* 0 for NULL
Contents == UNION {[0..(n - 1) -> Pieces] : n \in 0..MaxParts}
Parts == UNION {[S -> Pieces] : S \in SUBSET (0..(MaxParts - 1))}

Document == [status: {"none", "active", "deleted", "purged"}, current: VersionIds]

\* "doc" is NoDocument once the row is purged.  The chunks of a version are
\* there exactly while its index is ready; "vectors" says how many have one,
\* and "of" which space they are in.
Version == [doc: Documents \cup {NoDocument}, number: Nat \ {0}, content: Contents,
            index: {"ready", "failed"},
            embedding: {"pending", "indexing", "ready", "partial", "failed", "disabled"},
            space: Spaces \cup {"none"},
            vectors: {"none", "some", "all"}, of: Spaces \cup {"none"}]

Upload == [status: {"none", "open", "committed"},
           replaces: Documents \cup {NoDocument}, expected: VersionIds,
           parts: Parts]

Job == [pc: {"idle", "mark", "disable", "embed", "fail"}, version: VersionIds,
        space: Spaces \cup {"none"}]

Unused == [status |-> "none", replaces |-> NoDocument, expected |-> 0,
           parts |-> <<>>]
Idle == [pc |-> "idle", version |-> 0, space |-> "none"]

-----------------------------------------------------------------------------
(* Versions and their index *)

Of(d) == {v \in DOMAIN versions : versions[v].doc = d}

Largest(S) == IF S = {} THEN 0 ELSE CHOOSE n \in S : \A m \in S : m <= n

NextNumber(d) == Largest({versions[v].number : v \in Of(d)}) + 1

\* Slip: the vectors go with their chunks, the status that tells of them stays.
IndexedKeepsStatus(version, ok) ==
  [version EXCEPT !.index = IF ok THEN "ready" ELSE "failed", !.vectors = "none", !.of = "none"]

\* _index_version_in_connection: its chunks are made anew and the vectors go.
Indexed(version, ok) ==
  [version EXCEPT !.index = IF ok THEN "ready" ELSE "failed",
                  !.embedding = "pending", !.space = "none",
                  !.vectors = "none", !.of = "none"]

\* Slip: whether or not it could be indexed.
ServedNowAlways(d, v, ok) == [docs EXCEPT ![d].status = "active", ![d].current = v]

\* Only a version that could be indexed becomes current.
ServedNow(d, v, ok) ==
  [docs EXCEPT ![d].status = "active", ![d].current = IF ok THEN v ELSE @]

NewVersion(d, content) ==
  [doc |-> d, number |-> NextNumber(d), content |-> content,
   index |-> "failed", embedding |-> "pending", space |-> "none",
   vectors |-> "none", of |-> "none"]

\* What is left here of a row that is deleted.
Erased == [doc |-> NoDocument, number |-> 1, content |-> <<>>, index |-> "failed",
           embedding |-> "pending", space |-> "none", vectors |-> "none", of |-> "none"]

\* A new version, indexed if that succeeds.
Create(d, content, ok) ==
  /\ Len(versions) < MaxVersions
  /\ versions' = Append(versions, Indexed(NewVersion(d, content), ok))
  /\ docs' = ServedNow(d, Len(versions) + 1, ok)

-----------------------------------------------------------------------------
(* Upload sessions *)

\* Those that have grown old are deleted.
Swept(old) == [u \in Uploads |-> IF u \in old THEN Unused ELSE uploads[u]]

BeginUpload(u, d, old) ==
  /\ uploads[u].status = "none"
  /\ Cardinality({x \in Uploads : Swept(old)[x].status = "open"}) < MaxOpen
  /\ d # NoDocument => docs[d].status = "active"
  /\ uploads' = [Swept(old) EXCEPT ![u] =
       [Unused EXCEPT !.status = "open", !.replaces = d,
                      !.expected = IF d = NoDocument THEN 0 ELSE docs[d].current]]
  /\ UNCHANGED <<docs, versions, jobs>>

\* _require_open_upload; "expired" is written and rolled back by the refusal.
Open(u) == uploads[u].status = "open"

\* A part that is there already is a duplicate, or refused.
AppendUpload(u, i, piece) ==
  /\ Open(u) /\ i \notin DOMAIN uploads[u].parts
  /\ uploads' = [uploads EXCEPT ![u].parts =
       [k \in DOMAIN @ \cup {i} |-> IF k = i THEN piece ELSE @[k]]]
  /\ UNCHANGED <<docs, versions, jobs>>

\* Its answer is kept for a commit that is repeated.
Committed(up) == [up EXCEPT !.status = "committed", !.parts = <<>>]

\* All parts, numbered from zero.
Complete(u) == \E n \in 1..MaxParts : DOMAIN uploads[u].parts = 0..(n - 1)

\* A document of its own.
CommitNew(u, d, ok) ==
  /\ Open(u) /\ Complete(u) /\ uploads[u].replaces = NoDocument
  /\ docs[d].status = "none"
  /\ Create(d, uploads[u].parts, ok)
  /\ uploads' = [uploads EXCEPT ![u] = Committed(@)]
  /\ UNCHANGED <<jobs>>

Replaceable(u) ==
  LET d == uploads[u].replaces
  IN  /\ Open(u) /\ Complete(u) /\ d # NoDocument
      /\ docs[d].status = "active" /\ docs[d].current = uploads[u].expected

SameAsCurrent(u) ==
  LET c == docs[uploads[u].replaces].current
  IN  c # 0 /\ versions[c].content = uploads[u].parts

\* Another version of the document that was there when the upload began.
CommitReplacement(u, ok) ==
  LET d == uploads[u].replaces
  IN  /\ Replaceable(u) /\ ~SameAsCurrent(u)
      /\ Create(d, uploads[u].parts, ok)
      /\ uploads' = [uploads EXCEPT ![u] = Committed(@)]
      /\ UNCHANGED <<jobs>>

\* The content is the current version's: only its index may need repair.
CommitSame(u, ok) ==
  LET c == docs[uploads[u].replaces].current
  IN  /\ Replaceable(u) /\ SameAsCurrent(u)
      /\ versions' = IF versions[c].index = "ready" THEN versions
                     ELSE [versions EXCEPT ![c] = Indexed(@, ok)]
      /\ uploads' = [uploads EXCEPT ![u] = Committed(@)]
      /\ UNCHANGED <<docs, jobs>>

\* cancel_upload deletes a session it has seen open; by then it may be committed.
Cancel(u) ==
  /\ uploads[u].status \in {"open", "committed"}
  /\ uploads' = [uploads EXCEPT ![u] = Unused]
  /\ UNCHANGED <<docs, versions, jobs>>

-----------------------------------------------------------------------------
(* Documents *)

SoftDelete(d) ==
  /\ docs[d].status = "active"
  /\ docs' = [docs EXCEPT ![d].status = "deleted"]
  /\ UNCHANGED <<versions, uploads, jobs>>

RestoreDocument(d) ==
  /\ docs[d].status = "deleted"
  /\ docs' = [docs EXCEPT ![d].status = "active"]
  /\ UNCHANGED <<versions, uploads, jobs>>

\* ON DELETE CASCADE.
PurgedUploads(d) ==
  [u \in Uploads |-> IF uploads[u].replaces = d THEN Unused ELSE uploads[u]]

Purge(d) ==
  /\ docs[d].status = "deleted"
  /\ docs' = [docs EXCEPT ![d] = [status |-> "purged", current |-> 0]]
  /\ versions' = [v \in DOMAIN versions |->
       IF versions[v].doc = d THEN Erased ELSE versions[v]]
  /\ uploads' = PurgedUploads(d)
  /\ UNCHANGED <<jobs>>

\* An old version comes back as a new one.
RestoreVersion(v, ok) ==
  LET d == versions[v].doc
  IN  /\ d # NoDocument /\ docs[d].status = "active" /\ versions[v].index = "ready"
      /\ Create(d, versions[v].content, ok)
      /\ UNCHANGED <<uploads, jobs>>

\* Slip: a version that is not current never becomes so.
TakesOverNever(v) == docs[versions[v].doc].current = v

\* Without a ready version the one that is indexed anew takes over.
TakesOver(v) ==
  \/ docs[versions[v].doc].current = v
  \/ \A w \in Of(versions[v].doc) : versions[w].index # "ready"

ReindexVersion(v, ok) ==
  LET d == versions[v].doc
  IN  /\ d # NoDocument /\ docs[d].status = "active"
      /\ versions' = [versions EXCEPT ![v] = Indexed(@, ok)]
      /\ docs' = ServedNow(d, v, ok /\ TakesOver(v))
      /\ UNCHANGED <<uploads, jobs>>

-----------------------------------------------------------------------------
(* KnowledgeEmbeddingIndexer.index_version *)

There(v) == versions[v].doc # NoDocument
Active(v) == There(v) /\ docs[versions[v].doc].status = "active"

\* After a commit, a restore or a reindex, with the version it returned.  A job
\* finds no chunks of a version that is not indexed, whose document is deleted
\* or "held" back as sensitive, and needs a provider that names its space.
StartJob(j, v, s, held) ==
  /\ jobs[j].pc = "idle" /\ There(v)
  /\ jobs' = [jobs EXCEPT ![j] =
       [pc |-> IF s # "none" /\ Active(v) /\ versions[v].index = "ready" /\ ~held
               THEN "mark" ELSE "disable",
        version |-> v, space |-> s]]
  /\ UNCHANGED <<docs, versions, uploads>>

\* set_version_embedding_status; without the row it raises.
WriteStatus(j, status) ==
  LET v == jobs[j].version
  IN  versions' = IF There(v)
                  THEN [versions EXCEPT ![v].embedding = status, ![v].space = jobs[j].space]
                  ELSE versions

Disable(j) ==
  /\ jobs[j].pc = "disable" /\ WriteStatus(j, "disabled")
  /\ jobs' = [jobs EXCEPT ![j] = Idle]
  /\ UNCHANGED <<docs, uploads>>

MarkIndexing(j) ==
  /\ jobs[j].pc = "mark" /\ WriteStatus(j, "indexing")
  /\ jobs' = [jobs EXCEPT ![j] = IF There(@.version) THEN [@ EXCEPT !.pc = "embed"] ELSE Idle]
  /\ UNCHANGED <<docs, uploads>>

\* Vectors are stored for the chunks that are still there.
Stored(v, got) == IF versions[v].index = "ready" THEN got ELSE "none"

\* replace_chunk_embeddings, with vectors for all, some or none of the chunks.
\* Without an active document it raises, which the handler records.
Replace(j, got) ==
  LET v == jobs[j].version
      stored == Stored(v, got)
  IN  /\ jobs[j].pc = "embed"
      /\ IF Active(v)
         THEN /\ versions' = [versions EXCEPT
                   ![v].embedding = CASE stored = "all" -> "ready"
                                      [] stored = "some" -> "partial"
                                      [] OTHER -> "failed",
                   ![v].space = jobs[j].space,
                   ![v].vectors = stored,
                   ![v].of = IF stored = "none" THEN "none" ELSE jobs[j].space]
              /\ jobs' = [jobs EXCEPT ![j] = Idle]
         ELSE /\ jobs' = [jobs EXCEPT ![j].pc = "fail"]
              /\ UNCHANGED versions
      /\ UNCHANGED <<docs, uploads>>

\* The provider fails, or the vectors cannot be written.
EmbedFails(j) ==
  /\ jobs[j].pc = "embed"
  /\ jobs' = [jobs EXCEPT ![j].pc = "fail"]
  /\ UNCHANGED <<docs, versions, uploads>>

RecordFailure(j) ==
  /\ jobs[j].pc = "fail" /\ WriteStatus(j, "failed")
  /\ jobs' = [jobs EXCEPT ![j] = Idle]
  /\ UNCHANGED <<docs, uploads>>

\* The client disconnects, the disk is full or the process ends.
Interrupt(j) ==
  /\ jobs[j].pc # "idle"
  /\ jobs' = [jobs EXCEPT ![j] = Idle]
  /\ UNCHANGED <<docs, versions, uploads>>

-----------------------------------------------------------------------------
Init ==
  /\ docs = [d \in Documents |-> [status |-> "none", current |-> 0]]
  /\ versions = <<>>
  /\ uploads = [u \in Uploads |-> Unused]
  /\ jobs = [j \in Jobs |-> Idle]

Session(u) ==
  \/ \E d \in Documents \cup {NoDocument}, old \in SUBSET Uploads : BeginUpload(u, d, old)
  \/ \E i \in 0..(MaxParts - 1), piece \in Pieces : AppendUpload(u, i, piece)
  \/ \E ok \in BOOLEAN :
       \/ \E d \in Documents : CommitNew(u, d, ok)
       \/ CommitReplacement(u, ok)
       \/ CommitSame(u, ok)
  \/ Cancel(u)

Library ==
  \/ \E d \in Documents : SoftDelete(d) \/ RestoreDocument(d) \/ Purge(d)
  \/ \E v \in DOMAIN versions, ok \in BOOLEAN : RestoreVersion(v, ok) \/ ReindexVersion(v, ok)

Embedding(j) ==
  \/ \E v \in DOMAIN versions, s \in Spaces \cup {"none"}, held \in BOOLEAN :
       StartJob(j, v, s, held)
  \/ Disable(j) \/ MarkIndexing(j)
  \/ \E got \in {"none", "some", "all"} : Replace(j, got)
  \/ EmbedFails(j) \/ RecordFailure(j) \/ Interrupt(j)

Next ==
  \/ \E u \in Uploads : Session(u)
  \/ Library
  \/ \E j \in Jobs : Embedding(j)

Spec == Init /\ [][Next]_vars

-----------------------------------------------------------------------------
(* Properties *)

\* The rows of the four tables and the local variables of the embedding jobs have
\* their types.
TypeOK ==
  /\ docs \in [Documents -> Document]
  /\ versions \in Seq(Version) /\ Len(versions) <= MaxVersions
  /\ uploads \in [Uploads -> Upload]
  /\ jobs \in [Jobs -> Job]

\* A document that has a searchable version serves some version.
ReadyIsServed ==
  \A d \in Documents :
    (\E v \in Of(d) : versions[v].index = "ready") => docs[d].current # 0

\* While the version that is served stays searchable, no upload, restore or
\* reindex puts an unsearchable one in its place.
NeverServesWorse ==
  [][\A d \in Documents :
       LET c == docs[d].current
           n == docs'[d].current
       IN  c # 0 /\ n # 0 /\ versions[c].index = "ready" /\ versions'[c].index = "ready"
             => versions'[n].index = "ready"]_vars

\* A version that the vector search uses has the vectors its status promises, of
\* the space it names: no overlap of jobs, reindexing and deletion mixes them.
VectorsMatch ==
  \A v \in DOMAIN versions :
    LET r == versions[v]
    IN  /\ r.embedding = "ready" => r.vectors = "all" /\ r.of = r.space
        /\ r.embedding = "partial" => r.vectors = "some" /\ r.of = r.space
        /\ r.vectors # "none" => r.index = "ready"

=============================================================================
