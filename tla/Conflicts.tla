------------------------------ MODULE Conflicts ------------------------------
(***************************************************************************)
(* The verdict on a change against one committed since it was read:        *)
(* src/table/commit_conflicts.cpp.  "Compatible" changes are rebased over  *)
(* the committed one, "Retryable" ones run again from the latest version,  *)
(* "Incompatible" ones fail.                                               *)
(* Two kinds of operation are left out, UpdateBases and Clone: neither     *)
(* touches what the model holds, and both are Compatible with every change.*)
(***************************************************************************)
EXTENDS Manifests

Verdicts == {"Compatible", "Retryable", "Incompatible"}

RetryableIf(condition) == IF condition THEN "Retryable" ELSE "Compatible"
IncompatibleIf(condition) == IF condition THEN "Incompatible" ELSE "Compatible"
intersects(a, b) == a \cap b # {}

delete_update_ids(op) == DOMAIN op.updated \cup op.removed
rewrite_ids(op) == op.old
replacement_ids(op) == DOMAIN op.replacements
overlay_ids(op) == DOMAIN op.overlays
index_fragments(indices) == UNION {x.cover : x \in indices}

(* Mutant: no change is taken to alter nullability. *)
alters_no_nullability(op) == FALSE
may_alter_nullability(op) == op.kind \in {"Project", "Merge"} /\ ~op.preserves_nullability
supplies_values(op) == op.kind \in {"Append", "Update", "DataReplacement", "DataOverlay"}
(* Mutant: metadata updates are not told from other configuration. *)
updates_no_metadata(op) == FALSE
updates_schema_or_field_metadata(op) == op.kind = "UpdateConfig" /\ DOMAIN op.field_metadata # {}

upserted_config_keys(op) == {k \in DOMAIN op.config : op.config[k] # NoValue}
upsert_key_conflict(a, b) ==
    \/ intersects(upserted_config_keys(a), DOMAIN b.config)
    \/ intersects(upserted_config_keys(b), DOMAIN a.config)

modifies_same_metadata(a, b) == intersects(DOMAIN a.field_metadata, DOMAIN b.field_metadata)

index_names_conflict(ours, theirs) ==
    LET names(indices) == {x.name : x \in indices}
        created(op) == names(op.new_indices)
        dropped(op) == names(op.removed_indices)
        both == {x.name : x \in {y \in ours.removed_indices : \E z \in theirs.removed_indices : z.uuid = y.uuid}}
    IN  \/ intersects(created(ours), created(theirs))
        \/ intersects(created(ours) \ dropped(ours), dropped(theirs))
        \/ intersects(created(theirs) \ dropped(theirs), dropped(ours))
        \/ intersects(both, created(ours) \cup created(theirs))

-----------------------------------------------------------------------------
(* One operator per operation of ours. *)

delete_check(ours, theirs) ==
    CASE theirs.kind \in {"Append", "ReserveFragments", "Project", "UpdateConfig", "CreateIndex", "DataOverlay"} ->
           "Compatible"
      [] theirs.kind = "Rewrite" -> RetryableIf(intersects(delete_update_ids(ours), rewrite_ids(theirs)))
      [] theirs.kind = "DataReplacement" -> RetryableIf(intersects(delete_update_ids(ours), replacement_ids(theirs)))
      [] theirs.kind \in {"Update", "Delete"} ->
           RetryableIf(intersects(delete_update_ids(ours), delete_update_ids(theirs)))
      [] theirs.kind \in {"Overwrite", "Restore"} -> "Incompatible"
      [] OTHER -> "Retryable"

(* Mutant: an update is checked as a delete is. *)
update_check_as_delete(ours, theirs) == delete_check(ours, theirs)
update_check(ours, theirs) ==
    CASE theirs.kind = "DataOverlay" ->
           RetryableIf(DOMAIN ours.fragments # {} /\ intersects(delete_update_ids(ours), overlay_ids(theirs)))
      [] theirs.kind # "DataOverlay" -> delete_check(ours, theirs)

create_index_check(ours, theirs) ==
    CASE theirs.kind = "CreateIndex" -> RetryableIf(index_names_conflict(ours, theirs))
      [] theirs.kind = "Rewrite" -> RetryableIf(intersects(index_fragments(ours.new_indices), rewrite_ids(theirs)))
      [] theirs.kind = "DataReplacement" ->
           LET depended == UNION {x.fields : x \in ours.new_indices}
           IN  RetryableIf(\E i \in DOMAIN theirs.replacements : intersects(depended, DOMAIN theirs.replacements[i].cols))
      [] theirs.kind \in {"Overwrite", "Restore"} -> "Incompatible"
      [] OTHER -> "Compatible"

(* Mutants: a rewrite is taken to commute with deletions of its fragments, *)
(* and with added columns.                                                 *)
rewrite_check_but_deletes(ours, theirs) ==
    CASE theirs.kind \in {"Rewrite", "DataReplacement", "DataOverlay"} -> "Retryable"
      [] theirs.kind \in {"Overwrite", "Restore"} -> "Incompatible"
      [] OTHER -> "Compatible"
rewrite_check_but_columns(ours, theirs) ==
    CASE theirs.kind \in {"Delete", "Update", "DataReplacement", "DataOverlay", "Rewrite"} -> "Retryable"
      [] theirs.kind \in {"Overwrite", "Restore"} -> "Incompatible"
      [] OTHER -> "Compatible"
rewrite_check(ours, theirs) ==
    CASE theirs.kind \in {"Append", "ReserveFragments", "Project", "UpdateConfig"} -> "Compatible"
      [] theirs.kind \in {"Delete", "Update"} -> RetryableIf(intersects(rewrite_ids(ours), delete_update_ids(theirs)))
      [] theirs.kind = "DataOverlay" -> RetryableIf(intersects(rewrite_ids(ours), overlay_ids(theirs)))
      [] theirs.kind = "Rewrite" -> RetryableIf(intersects(rewrite_ids(ours), rewrite_ids(theirs)))
      [] theirs.kind = "DataReplacement" -> RetryableIf(intersects(rewrite_ids(ours), replacement_ids(theirs)))
      [] theirs.kind = "CreateIndex" -> RetryableIf(intersects(rewrite_ids(ours), index_fragments(theirs.new_indices)))
      [] theirs.kind \in {"Overwrite", "Restore"} -> "Incompatible"
      [] OTHER -> "Retryable"

merge_check(theirs) ==
    CASE theirs.kind \in {"CreateIndex", "ReserveFragments", "UpdateConfig"} -> "Compatible"
      [] theirs.kind \in {"Overwrite", "Restore", "Project"} -> "Incompatible"
      [] OTHER -> "Retryable"

(* Mutant: the schemas of two changes are taken to combine. *)
project_check_lenient(theirs) == IncompatibleIf(theirs.kind \in {"Overwrite", "Restore"})
project_check(theirs) ==
    CASE theirs.kind \in {"Merge", "Project"} -> "Retryable"
      [] theirs.kind \in {"Overwrite", "Restore"} -> "Incompatible"
      [] OTHER -> "Compatible"

reserve_check(theirs) == IncompatibleIf(theirs.kind \in {"Overwrite", "Restore"})
append_check(theirs) == IncompatibleIf(theirs.kind \in {"Overwrite", "Restore"})
restore_check(theirs) == "Compatible"

update_config_check(ours, theirs) ==
    IncompatibleIf(\/ /\ theirs.kind = "Overwrite"
                      /\ DOMAIN ours.field_metadata # {} \/ upsert_key_conflict(ours, theirs)
                   \/ /\ theirs.kind = "UpdateConfig"
                      /\ upsert_key_conflict(ours, theirs) \/ modifies_same_metadata(ours, theirs))

overwrite_check(ours, theirs) ==
    CASE theirs.kind \in {"Overwrite", "UpdateConfig"} /\ upsert_key_conflict(ours, theirs) -> "Incompatible"
      [] theirs.kind = "Overwrite" /\ ~upsert_key_conflict(ours, theirs) -> "Retryable"
      [] OTHER -> "Compatible"

-----------------------------------------------------------------------------
check_txn(ours, theirs) ==
    CASE \/ may_alter_nullability(ours) /\ supplies_values(theirs)
         \/ supplies_values(ours) /\ may_alter_nullability(theirs) -> "Retryable"
      [] \/ ours.kind = "Merge" /\ updates_schema_or_field_metadata(theirs)
         \/ updates_schema_or_field_metadata(ours) /\ theirs.kind = "Merge" -> "Retryable"
      [] OTHER ->
           CASE ours.kind = "Delete" -> delete_check(ours, theirs)
             [] ours.kind = "Update" -> update_check(ours, theirs)
             [] ours.kind = "CreateIndex" -> create_index_check(ours, theirs)
             [] ours.kind = "Rewrite" -> rewrite_check(ours, theirs)
             [] ours.kind = "Merge" -> merge_check(theirs)
             [] ours.kind = "Project" -> project_check(theirs)
             [] ours.kind = "ReserveFragments" -> reserve_check(theirs)
             [] ours.kind = "Restore" -> restore_check(theirs)
             [] ours.kind = "UpdateConfig" -> update_config_check(ours, theirs)
             [] ours.kind = "Overwrite" -> overwrite_check(ours, theirs)
             [] ours.kind = "Append" -> append_check(theirs)

(* With the rows a Delete or an Update removed at hand, it is Compatible   *)
(* with another of its fragments when that one removed none of them and    *)
(* left their data files as `base` has them: the deletion files can be     *)
(* merged.                                                                 *)
check_txn_with_affected_rows(ours, theirs, base) ==
    LET mine == delete_update_ids(ours)
        rewritten(i) == i \notin DOMAIN base.frags \/ base.frags[i].files # theirs.updated[i].files
    IN  IF \/ check_txn(ours, theirs) # "Retryable"
           \/ ours.kind \notin {"Delete", "Update"}
           \/ theirs.kind \notin {"Delete", "Update"}
           \/ intersects(mine, theirs.removed)
           \/ \E i \in mine \cap DOMAIN theirs.updated : rewritten(i)
        THEN check_txn(ours, theirs) ELSE "Compatible"
=============================================================================
