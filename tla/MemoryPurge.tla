----------------------------- MODULE MemoryPurge -----------------------------
(***************************************************************************)
(* Which memories a deletion for good reaches: a memory that was merged    *)
(* from others names them as its evidence, and goes when one of them goes. *)
(* "rs" maps the identifier of each memory to a record with at least its   *)
(* place and its evidence.                                                 *)
(***************************************************************************)
EXTENDS Naturals

CONSTANT MaxId  \* bound of the model: memories ever created

Ids == 1..MaxId

\* "none": not created yet, "live": archived = 0, "trash": archived = 1.
Places == {"none", "live", "trash", "purged"}

Live(rs) == {i \in Ids : rs[i].place = "live"}
Trash(rs) == {i \in Ids : rs[i].place = "trash"}
Kept(rs) == Live(rs) \cup Trash(rs)

HoldsDependents(rs, T) == \A i \in Kept(rs) : rs[i].evidence \cap T # {} => i \in T

\* Slip: only rows that are in the trash themselves.
DependentsInTrash(rs, S) ==
  S \cup {i \in Trash(rs) : \A T \in SUBSET Trash(rs) : S \subseteq T /\ HoldsDependents(rs, T) => i \in T}

\* S and every row that rests on it, however indirectly, in the trash or not.
Dependents(rs, S) ==
  S \cup {i \in Kept(rs) : \A T \in SUBSET Kept(rs) : S \subseteq T /\ HoldsDependents(rs, T) => i \in T}

=============================================================================
