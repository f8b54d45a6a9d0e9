-------------------------- MODULE CommitProperties --------------------------
(***************************************************************************)
(* What the clients of Commit rely on.                                     *)
(***************************************************************************)
EXTENDS Commit

(* The table as its clients see it: TableLog, with the rows that a scan of *)
(* each version returns.                                                   *)
RowLog == INSTANCE TableLog WITH
    log <- [v \in DOMAIN versions |-> [rows |-> LiveRows(versions[v]), config |-> versions[v].config]]

(* Every call that returns success took effect exactly once, on all the    *)
(* rows it selected and no other, whatever the other clients committed     *)
(* meanwhile; one that fails left nothing (commit_next_version).           *)
SnapshotIsolation == RowLog!Spec

(* Every version has the shape the readers expect, and every client is     *)
(* where the code can be.                                                  *)
TypeOK ==
    /\ \A v \in DOMAIN versions :
         LET m == versions[v]
         IN  /\ m.max \in Nat \cup {-1}
             /\ DOMAIN m.frags \subseteq Nat
             /\ \A i \in DOMAIN m.frags : /\ m.frags[i].del \subseteq DOMAIN m.frags[i].rows
                                          /\ m.frags[i].files # {}
             /\ \A x \in m.indices : x.cover \subseteq Nat
    /\ \A c \in Clients : /\ step[c] \in 0..Len(Script[c])
                          /\ tries[c] \in 0..(Tries - 1)
                          /\ attempts[c] \in 0..Attempts
                          /\ target[c] \in 0..(Latest + 1)
                          /\ read[c] \in 0..Latest

(* A published version never changes, and versions are numbered without a  *)
(* gap: put_if_absent never replaces a manifest (publish_manifest).        *)
VersionsImmutable == [][Len(versions') >= Len(versions)
                        /\ \A v \in DOMAIN versions : versions'[v] = versions[v]]_versions

(* Every publication a client tries is of a later version than the last it *)
(* lost: it never contends again for a version that is already taken       *)
(* (commit_next_version rebases onto the latest version it can read).      *)
EveryTryIsNewer ==
    [][\A c \in Clients : pc[c] \in {"list", "rebase"} /\ pc'[c] \in {"prior", "publish"}
                             => target'[c] > target[c]]_vars

(* No row is returned twice by a scan of any version (a compaction or a    *)
(* rebased update that kept a row it also moved would duplicate it).       *)
NoRowTwice ==
    \A v \in DOMAIN versions :
        LET frags == versions[v].frags
        IN  \A i, j \in DOMAIN frags : \A o \in LiveOffsets(frags[i]), p \in LiveOffsets(frags[j]) :
               frags[i].rows[o] = frags[j].rows[p] => i = j /\ o = p

(* A fragment id names the same rows in every version that has it: row     *)
(* addresses, index entries and deletion files are written with it.        *)
(* (restore_once: "a fragment id used by any version is never reused".)    *)
FragmentIdsNeverReused ==
    \A u, v \in DOMAIN versions : \A i \in DOMAIN versions[u].frags \cap DOMAIN versions[v].frags :
        versions[u].frags[i].rows = versions[v].frags[i].rows

(* max_fragment_id is a high-water mark: no version's is below the id of   *)
(* one of its fragments, nor below the version's before it, unless it is a *)
(* restore (note_fragment_id).                                             *)
HighWater ==
    \A v \in DOMAIN versions :
        /\ \A i \in DOMAIN versions[v].frags : i <= versions[v].max
        /\ v > 1 => versions[v - 1].max <= versions[v].max \/ versions[v].tag = "Restore"

(* The fragments that fragment `i` was compacted from, back to those that  *)
(* no recorded group made.                                                 *)
Origins(i, groups) ==
    FoldRight(LAMBDA g, S : IF S \cap g.new # {} THEN (S \ g.new) \cup g.old ELSE S, groups, {i})

(* An index answers for a fragment it covers: its entries for the fragment *)
(* were read from the data files that hold the column now, or address the  *)
(* fragments it was compacted from, which the fragment reuse index maps to *)
(* it.  (A stale or missing entry loses rows of a query.)                  *)
IndexAnswers(m, x, i) ==
    \/ /\ i \in DOMAIN x.seen
       /\ x.seen[i] = UNION {FieldFiles(m.frags[i], id) : id \in x.fields}
    \/ /\ i \notin DOMAIN x.seen
       /\ Origins(i, ReuseGroups(m)) # {i}
       /\ Origins(i, ReuseGroups(m)) \subseteq DOMAIN x.seen
IndexSound ==
    \A v \in DOMAIN versions : \A x \in versions[v].indices :
        ~is_system_index(x) =>
            \A i \in Coverage(versions[v], x) \cap DOMAIN versions[v].frags : IndexAnswers(versions[v], x, i)

(* An index is on fields that the version's schema has                     *)
(* (retain_relevant_indices: an index on a field the change removed goes). *)
IndexFieldsExist ==
    \A v \in DOMAIN versions : \A x \in versions[v].indices : x.fields \subseteq DOMAIN versions[v].fields

(* A column is read from data written for it: no file of a fragment holds, *)
(* under the column's field id, the data of another column.                *)
ColumnsReadOwnData ==
    \A v \in DOMAIN versions : \A i \in DOMAIN versions[v].frags : \A g \in versions[v].frags[i].files :
        \A id \in DOMAIN g.cols \cap DOMAIN versions[v].fields : g.cols[id] = versions[v].fields[id].col

(* The values written for a column are found under its field id: where one *)
(* of a fragment's files holds the column's data, some file holds it under *)
(* the id the schema gives the column, and the column does not read as     *)
(* nulls (a column cast to another type has a new id).                     *)
ValuesReachable ==
    \A v \in DOMAIN versions : \A i \in DOMAIN versions[v].frags : \A g \in versions[v].frags[i].files :
        \A id \in DOMAIN versions[v].fields :
            versions[v].fields[id].col \in Range(g.cols) => FieldFiles(versions[v].frags[i], id) # {}

(* A column that does not admit nulls holds none. *)
NonNullHolds ==
    \A v \in DOMAIN versions : \A id \in DOMAIN versions[v].fields : ~versions[v].fields[id].nullable =>
        \A i \in DOMAIN versions[v].frags :
            LiveOffsets(versions[v].frags[i]) # {} => ~ReadsNull(versions[v].frags[i], id)

(* A column's metadata changes only by a call that sets it, a restore, an  *)
(* overwrite or a change of the column's type: no other change takes a     *)
(* committed metadata update back.                                         *)
MetadataKept ==
    \A v \in DOMAIN versions \ {1} : \A id \in DOMAIN versions[v - 1].fields \cap DOMAIN versions[v].fields :
        \/ Recorded(v).kind \in {"Overwrite", "Restore", "UpdateConfig"}
        \/ versions[v].fields[id].meta = versions[v - 1].fields[id].meta

(* An overlay committed on a fragment stays on it: it replaces values of   *)
(* rows, and no delete of other rows of the fragment takes it back.        *)
OverlaysKept ==
    \A v \in DOMAIN versions \ {1} : \A i \in DOMAIN versions[v - 1].frags \cap DOMAIN versions[v].frags :
        \/ Recorded(v).kind = "Restore"
        \/ versions[v - 1].frags[i].overlays \subseteq versions[v].frags[i].overlays
=============================================================================
