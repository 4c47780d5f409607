---------------------------- MODULE VectorIndex -----------------------------
(***************************************************************************)
(* The cached matrices of unit vectors that recall scores.  A matrix is    *)
(* valid for an epoch, a counter per user that triggers of the database    *)
(* advance with every change of the live vectors.  A recall reads the      *)
(* epoch and, if it must, the vectors in the same snapshot as its pages;   *)
(* other threads replace the matrix meanwhile.                             *)
(*                                                                         *)
(* One user.  A write is one row of one committed statement.               *)
(***************************************************************************)
EXTENDS Integers, FiniteSets

CONSTANTS
  MemoryIds,
  Vectors,    \* unit vectors
  NoVector,
  Spaces,     \* embedding spaces, one matrix each
  Searches,   \* recalls that run at a time, in threads of one process
  MaxKept,    \* _CACHE_MAX_SPACES
  MaxWrites   \* bound of the model

ASSUME IndexAssumption ==
  /\ NoVector \notin Vectors
  /\ MaxKept \in Nat \ {0} /\ MaxWrites \in Nat

VARIABLES
  memories,
  epoch,     \* memory_vector_epoch
  matrices,  \* the matrix kept for each space
  searches,  \* each recall under way
  writes     \* bound of the model

indexVars == <<memories, epoch, matrices, searches, writes>>

\* "hidden": status = 'archived', which keeps a row out of recall while it is
\* live; "used": a column that no trigger names.
Memory == [place: {"none", "live", "trash"}, hidden: BOOLEAN, used: BOOLEAN,
           vector: Vectors \cup {NoVector}, space: Spaces]

Items == SUBSET (MemoryIds \X Vectors)

\* The epoch it was read at, and its vectors; -1 for a matrix that is not there.
Index == [epoch: Nat \cup {-1}, items: Items]
NoIndex == [epoch |-> -1, items |-> {}]

Scoring == [stage: {"look", "store", "scored"}, space: Spaces, epoch: Nat,
            items: Items,   \* the vectors of its snapshot
            index: Index]
NoSearch == [stage |-> "idle"]

-----------------------------------------------------------------------------
\* _load_space_index: the vectors of live memories in one space.
InSpace(rs, space) ==
  {x \in MemoryIds \X Vectors : /\ rs[x[1]].place = "live" /\ ~rs[x[1]].hidden
                          /\ rs[x[1]].space = space /\ rs[x[1]].vector = x[2]}

\* Slip: a memory that leaves or enters the trash keeps its vector.
AdvancesVector(old, new) == old.vector # new.vector \/ old.space # new.space

\* The triggers: an insert, a delete, and an update of one of these columns.
Advances(old, new) ==
  \/ old.place # new.place \/ old.hidden # new.hidden
  \/ old.vector # new.vector \/ old.space # new.space

WriteMemory(i) ==
  /\ writes < MaxWrites /\ writes' = writes + 1
  /\ \E row \in Memory :
       /\ memories' = [memories EXCEPT ![i] = row]
       /\ epoch' = IF Advances(memories[i], row) THEN epoch + 1 ELSE epoch
  /\ UNCHANGED <<matrices, searches>>

\* memory_recall_snapshot and _read_epoch: all that is read below is of this
\* moment.
BeginSearch(r, space) ==
  /\ searches[r] = NoSearch
  /\ searches' = [searches EXCEPT ![r] = [stage |-> "look", space |-> space, epoch |-> epoch,
                                  items |-> InSpace(memories, space), index |-> NoIndex]]
  /\ UNCHANGED <<memories, epoch, matrices, writes>>

\* _cached_index, and else _load_space_index.
Look(r) ==
  /\ searches[r].stage = "look"
  /\ LET kept == matrices[searches[r].space] IN
     searches' = [searches EXCEPT ![r] =
       IF kept.epoch = searches[r].epoch
       THEN [searches[r] EXCEPT !.stage = "scored", !.index = kept]
       ELSE [searches[r] EXCEPT !.stage = "store",
               !.index = [epoch |-> searches[r].epoch, items |-> searches[r].items]]]
  /\ UNCHANGED <<memories, epoch, matrices, writes>>

Kept(c) == {s \in Spaces : c[s] # NoIndex}

\* _store_index: the order of use, by which a matrix is given up for the new one,
\* is left open.
StoreIndex(r) ==
  /\ searches[r].stage = "store"
  /\ LET stored == [matrices EXCEPT ![searches[r].space] = searches[r].index] IN
     IF Cardinality(Kept(stored)) > MaxKept
     THEN \E s \in Kept(stored) \ {searches[r].space} : matrices' = [stored EXCEPT ![s] = NoIndex]
     ELSE matrices' = stored
  /\ searches' = [searches EXCEPT ![r] = [searches[r] EXCEPT !.stage = "scored"]]
  /\ UNCHANGED <<memories, epoch, writes>>

End(r) ==
  /\ searches[r].stage = "scored"
  /\ searches' = [searches EXCEPT ![r] = NoSearch]
  /\ UNCHANGED <<memories, epoch, matrices, writes>>

-----------------------------------------------------------------------------
IndexInit ==
  /\ memories \in [MemoryIds -> Memory]
  /\ epoch = 1   \* as the migration leaves it
  /\ matrices = [s \in Spaces |-> NoIndex]
  /\ searches = [r \in Searches |-> NoSearch]
  /\ writes = 0

IndexNext ==
  \/ \E i \in MemoryIds : WriteMemory(i)
  \/ \E r \in Searches :
       (\E s \in Spaces : BeginSearch(r, s)) \/ Look(r) \/ StoreIndex(r) \/ End(r)

IndexSpec == IndexInit /\ [][IndexNext]_indexVars

-----------------------------------------------------------------------------
(* Properties *)

\* Memories, matrices and the locals of recalls have their types.
IndexTypeOK ==
  /\ memories \in [MemoryIds -> Memory]
  /\ epoch \in Nat
  /\ matrices \in [Spaces -> Index]
  /\ searches \in [Searches -> Scoring \cup {NoSearch}]
  /\ writes \in 0..MaxWrites

\* A recall scores the vectors of the snapshot whose pages it ranks, whatever
\* other threads load and store, from older and newer snapshots, in between
\* (vector_index.py:100-215, schema.py:292-355).
IndexOfSnapshot ==
  \A r \in Searches : searches[r].stage = "scored" => searches[r].index.items = searches[r].items
=============================================================================
