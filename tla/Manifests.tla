------------------------------ MODULE Manifests ------------------------------
(***************************************************************************)
(* A version of a table (its manifest), the operation that one version     *)
(* makes of the one before it, and what an operation does to a version:    *)
(* src/table/transaction_file.cpp, src/table/dataset_transaction.cpp and   *)
(* src/table/index_maintenance.cpp.  Everything here is a pure operator.   *)
(*                                                                         *)
(* A manifest is a record:                                                 *)
(*   frags    fragment id -> fragment                                      *)
(*   max      max_fragment_id, or -1 when the manifest has none            *)
(*   fields   field id -> [name, type, col, meta, nullable]                *)
(*   indices  a set of index segments                                      *)
(*   config   config key -> value                                          *)
(*   tag, first_new, restored, reserved, hand   what its writer says it did *)
(* A fragment is [rows, del, files, overlays]: its physical rows, the      *)
(* offsets its deletion file names, its data files and its overlays.  A    *)
(* data file is [path, cols, nulls]: its fields with the column each was   *)
(* written for, and the fields in which it holds a null.  An index segment *)
(* is [uuid, name, kind, fields, cover, at, seen, groups]: `cover` its     *)
(* fragment bitmap, `at` its dataset_version, `seen` the data files its    *)
(* entries were read from, by the fragment they address, `groups` what a   *)
(* fragment reuse index records.  The `col` of a field and of a data file  *)
(* is history that only the properties read.                               *)
(***************************************************************************)
EXTENDS Integers, FiniteSets, Sequences, FiniteSetsExt, Functions

FragReuse == "__lance_frag_reuse"
NoValue == "none"

(* The rows of a fragment, and of a version, that a scan returns. *)
LiveOffsets(f) == DOMAIN f.rows \ f.del
LiveRows(m) == UNION {{m.frags[i].rows[o] : o \in LiveOffsets(m.frags[i])} : i \in DOMAIN m.frags}

(* The data files of a fragment that hold field `id`, by path. *)
FieldFiles(f, id) == {g.path : g \in {h \in f.files : id \in DOMAIN h.cols}}

(* `f` with the pairs of `g` over its own. *)
Over(f, g) == [x \in DOMAIN f \cup DOMAIN g |-> IF x \in DOMAIN g THEN g[x] ELSE f[x]]
Without(f, S) == Restrict(f, DOMAIN f \ S)
NoFragments == [i \in {} |-> {}]

-----------------------------------------------------------------------------
(* Numbering of fragments. *)

first_fragment_id_after_indices(indices) ==
    Max({0} \cup {i + 1 : i \in UNION {x.cover : x \in indices}})

(* Mutant: the ids of fragments that are gone are forgotten. *)
next_fragment_id_of_present(m) == Max({0} \cup {i + 1 : i \in DOMAIN m.frags})
next_fragment_id(m) ==
    Max({m.max + 1, first_fragment_id_after_indices(m.indices)} \cup {i + 1 : i \in DOMAIN m.frags})

(* assign_ids after the added fragments lost theirs: numbered from `next`,  *)
(* in the order they had (a writer numbers what it adds consecutively).    *)
assign_ids(fragments, next) ==
    IF DOMAIN fragments = {} THEN fragments
    ELSE LET shift == next - Min(DOMAIN fragments)
         IN  [j \in {i + shift : i \in DOMAIN fragments} |-> fragments[j - shift]]

(* note_fragment_id, and the end of apply_operation: max_fragment_id is a  *)
(* high-water mark over the dataset's history.                             *)
(* Mutant: the mark is left where it was. *)
note_nothing(m) == m
note_fragment_ids(m) == [m EXCEPT !.max = Max({@} \cup DOMAIN m.frags)]

-----------------------------------------------------------------------------
(* What an operation does to the index section. *)

is_system_index(x) == x.name = FragReuse

(* Segments on a dropped field go; of a name's several segments, those     *)
(* that cover no fragment go, the oldest staying when all would.           *)
(* Mutant: every index is kept. *)
retain_all_indices(m) == m
retain_relevant_indices(m) ==
    LET relevant == {x \in m.indices : is_system_index(x) \/ x.fields \subseteq DOMAIN m.fields}
        segments(x) == {y \in relevant : y.name = x.name}
        covers(x) == x.cover \cap DOMAIN m.frags # {}
        oldest(x) == \A y \in segments(x) : x.at <= y.at
        kept(x) == \/ is_system_index(x)
                   \/ Cardinality(segments(x)) = 1
                   \/ covers(x)
                   \/ (\A y \in segments(x) : ~covers(y)) /\ oldest(x)
    IN  [m EXCEPT !.indices = {x \in relevant : kept(x)}]

drop_fragments_from_indices(indices, gone) == {[x EXCEPT !.cover = @ \ gone] : x \in indices}

(* Fragments whose data for a field of the index changed leave its cover.  *)
(* Mutant: they stay.                                                      *)
prune_nothing(indices, fragments, modified) == indices
prune_updated_fields(indices, fragments, modified) ==
    {IF x.fields \cap modified # {} THEN [x EXCEPT !.cover = @ \ fragments] ELSE x : x \in indices}

(* A Merge that rewrote a field's data in place. *)
prune_merge_rewritten(indices, before, after) ==
    LET moved(i, id) == /\ i \in DOMAIN before \cap DOMAIN after
                        /\ FieldFiles(before[i], id) # {}
                        /\ FieldFiles(after[i], id) # {}
                        /\ FieldFiles(before[i], id) # FieldFiles(after[i], id)
    IN  {[x EXCEPT !.cover = {i \in @ : \A id \in x.fields : ~moved(i, id)}] : x \in indices}

(* remap_coverage of a deferred compaction: a group covered whole swaps    *)
(* its old fragments for its new ones, one covered in part loses them.     *)
remap_coverage(cover, old, new) == (cover \ old) \cup (IF old \subseteq cover THEN new ELSE {})

-----------------------------------------------------------------------------
(* Operations: lance.table.Transaction, as decode_operation reads it. *)

NoOperation ==
    [kind |-> "UpdateConfig", fragments |-> NoFragments, updated |-> NoFragments, removed |-> {},
     old |-> {}, schema |-> NoFragments, modified |-> {}, preserves_nullability |-> TRUE,
     new_indices |-> {}, removed_indices |-> {}, config |-> NoFragments, field_metadata |-> NoFragments,
     reserve |-> 0, restore |-> 0, overlays |-> NoFragments, replacements |-> NoFragments]

update_map(before, after) ==
    [k \in {k \in DOMAIN before \cup DOMAIN after :
              ~(k \in DOMAIN before /\ k \in DOMAIN after /\ before[k] = after[k])}
       |-> IF k \in DOMAIN after THEN after[k] ELSE NoValue]

(* Mutant: the map is replaced, not updated. *)
apply_whole_map(map, update) == Restrict(update, {k \in DOMAIN update : update[k] # NoValue})
apply_update_map(map, update) ==
    Restrict(Over(map, update), {k \in DOMAIN map \cup DOMAIN update :
                                   k \in DOMAIN update => update[k] # NoValue})

(* The metadata changes of a version that changed nothing else of its      *)
(* schema and none of its fragments.                                       *)
OnlyFieldMetadata(parent, next) ==
    /\ DOMAIN parent.fields = DOMAIN next.fields
    /\ \A id \in DOMAIN next.fields : [next.fields[id] EXCEPT !.meta = parent.fields[id].meta] = parent.fields[id]
    /\ parent.frags = next.frags

(* A field that admitted nulls and no longer does, or a new one that does  *)
(* not admit them (project_tightens_nullability,                           *)
(* merge_introduces_required_field).                                       *)
TightensNullability(parent, next) ==
    \E id \in DOMAIN next.fields :
        ~next.fields[id].nullable /\ (id \in DOMAIN parent.fields => parent.fields[id].nullable)

(* derive_transaction_operation: the operation that `next` makes of        *)
(* `parent`, by the writer's tag or by what differs.  A hand-built commit  *)
(* carries its operation as it was given.                                  *)
derive_transaction_operation(parent, next) ==
    LET added == DOMAIN next.frags \ DOMAIN parent.frags
        removed == DOMAIN parent.frags \ DOMAIN next.frags
        changed == {i \in DOMAIN next.frags \cap DOMAIN parent.frags : next.frags[i] # parent.frags[i]}
        new_files(i) == {g \in next.frags[i].files : \A h \in parent.frags[i].files : h.path # g.path}
        files_changed == \E i \in changed : new_files(i) # {}
        schema_changed == parent.fields # next.fields /\ ~OnlyFieldMetadata(parent, next)
        update == next.tag = "Update"
        appended == {i \in DOMAIN next.frags :
                       Cardinality({j \in DOMAIN next.frags : j < i}) >= next.first_new}
        Op(kind) == [NoOperation EXCEPT !.kind = kind]
    IN  IF next.tag = "HandBuilt" THEN next.hand
        ELSE IF next.tag = "Reserve" THEN [Op("ReserveFragments") EXCEPT !.reserve = next.reserved]
        ELSE IF next.tag = "Append" THEN [Op("Append") EXCEPT !.fragments = Restrict(next.frags, appended)]
        ELSE IF next.tag = "Restore" THEN [Op("Restore") EXCEPT !.restore = next.restored]
        ELSE IF next.tag = "Overwrite"
        THEN [Op("Overwrite") EXCEPT !.fragments = next.frags, !.schema = next.fields, !.config = next.config]
        ELSE IF next.tag = "Rewrite"
        THEN [Op("Rewrite") EXCEPT !.old = removed \cup changed,
                !.fragments = Restrict(next.frags, added \cup changed)]
        ELSE IF schema_changed /\ added \cup removed = {} /\ ~files_changed
        THEN [Op("Project") EXCEPT !.schema = next.fields,
                !.preserves_nullability = ~TightensNullability(parent, next)]
        ELSE IF schema_changed
        THEN [Op("Merge") EXCEPT !.schema = next.fields, !.fragments = next.frags,
                !.preserves_nullability = ~TightensNullability(parent, next)]
        ELSE IF ~update /\ added # {} /\ removed \cup changed = {}
        THEN [Op("Append") EXCEPT !.fragments = Restrict(next.frags, added)]
        ELSE IF ~update /\ added = {} /\ ~files_changed /\ removed \cup changed # {}
        THEN [Op("Delete") EXCEPT !.updated = Restrict(next.frags, changed), !.removed = removed]
        ELSE IF update \/ added \cup removed \cup changed # {}
        THEN [Op("Update") EXCEPT !.updated = Restrict(next.frags, changed), !.removed = removed,
                !.fragments = Restrict(next.frags, added),
                !.modified = UNION {UNION {DOMAIN g.cols : g \in new_files(i)} : i \in changed}]
        ELSE IF parent.indices # next.indices
        THEN [Op("CreateIndex") EXCEPT !.new_indices = next.indices \ parent.indices,
                !.removed_indices = parent.indices \ next.indices]
        ELSE [Op("UpdateConfig") EXCEPT !.config = update_map(parent.config, next.config),
                !.field_metadata = [id \in {id \in DOMAIN next.fields :
                                              next.fields[id].meta # parent.fields[id].meta}
                                      |-> next.fields[id].meta]]

-----------------------------------------------------------------------------
(* Applying an operation to a version. *)

(* A Project takes the files that hold no remaining field out. *)
DropEmptyFiles(frags, fields) ==
    [i \in DOMAIN frags |-> [frags[i] EXCEPT !.files = {g \in @ : DOMAIN g.cols \cap DOMAIN fields # {}}]]

(* What apply_operation refuses: a rewrite of a fragment that is gone is a *)
(* conflict, the metadata of a field that is gone an error.                *)
RewriteMissing(base, op) == op.kind = "Rewrite" /\ ~(op.old \subseteq DOMAIN base.frags)
FieldMissing(base, op) == op.kind = "UpdateConfig" /\ ~(DOMAIN op.field_metadata \subseteq DOMAIN base.fields)

(* data_replacement of one fragment by file `g`: the file of the same      *)
(* fields is replaced, a file of fields it had no data for is added, and   *)
(* otherwise `g` answers for its fields in place of the files holding them.*)
data_replacement(f, g, fields) ==
    LET ids == DOMAIN g.cols
        same == {h \in f.files : DOMAIN h.cols = ids}
        stripped == {[h EXCEPT !.cols = Without(@, ids), !.nulls = @ \ ids] : h \in f.files}
    IN  IF same # {} THEN [f EXCEPT !.files = (@ \ same) \cup {g}]
        ELSE IF \A h \in f.files : DOMAIN h.cols \cap ids = {} THEN [f EXCEPT !.files = @ \cup {g}]
        ELSE [f EXCEPT !.files = {h \in stripped : DOMAIN h.cols \cap DOMAIN fields # {}} \cup {g}]

apply_operation(base, op) ==
    LET next_id == next_fragment_id(base)
        kept == Over(Without(base.frags, op.removed), Restrict(op.updated, DOMAIN op.updated \cap DOMAIN base.frags))
        m == CASE op.kind = "Append" -> [base EXCEPT !.frags = Over(@, op.fragments)]
               [] op.kind = "Delete" -> retain_relevant_indices([base EXCEPT !.frags = kept])
               [] op.kind = "Update" ->
                    retain_relevant_indices([base EXCEPT !.frags = Over(kept, op.fragments),
                        !.indices = prune_updated_fields(@, DOMAIN op.updated, op.modified)])
               [] op.kind = "Overwrite" ->
                    [base EXCEPT !.frags = assign_ids(op.fragments, next_id), !.fields = op.schema,
                                 !.indices = {}, !.config = Over(@, op.config)]
               [] op.kind = "Rewrite" -> [base EXCEPT !.frags = Over(Without(@, op.old), op.fragments)]
               [] op.kind = "Merge" ->
                    retain_relevant_indices([base EXCEPT !.frags = op.fragments, !.fields = op.schema,
                        !.indices = prune_merge_rewritten(@, base.frags, op.fragments)])
               [] op.kind = "Project" ->
                    retain_relevant_indices([base EXCEPT !.frags = DropEmptyFiles(@, op.schema), !.fields = op.schema])
               [] op.kind = "ReserveFragments" -> [base EXCEPT !.max = Max({0, @}) + op.reserve]
               [] op.kind = "UpdateConfig" ->
                    [base EXCEPT !.config = apply_update_map(@, op.config),
                       !.fields = [id \in DOMAIN @ |-> IF id \in DOMAIN op.field_metadata
                                     THEN [@[id] EXCEPT !.meta = op.field_metadata[id]] ELSE @[id]]]
               [] op.kind = "CreateIndex" ->
                    LET present(x) == [x EXCEPT !.cover = @ \cap DOMAIN base.frags]
                        gone == {x.uuid : x \in op.removed_indices \cup op.new_indices}
                    IN  [base EXCEPT !.indices = {x \in @ : x.uuid \notin gone} \cup {present(x) : x \in op.new_indices}]
               [] op.kind = "DataReplacement" ->
                    LET changed == DOMAIN op.replacements
                        modified == UNION {DOMAIN op.replacements[i].cols : i \in changed}
                    IN  [base EXCEPT !.frags = [i \in DOMAIN @ |-> IF i \in changed
                                  THEN data_replacement(@[i], op.replacements[i], base.fields) ELSE @[i]],
                           !.indices = prune_updated_fields(@, changed, modified)]
               [] op.kind = "DataOverlay" ->
                    [base EXCEPT !.frags = [i \in DOMAIN @ |-> IF i \in DOMAIN op.overlays
                                              THEN [@[i] EXCEPT !.overlays = @ \cup op.overlays[i]] ELSE @[i]]]
    IN  note_fragment_ids(m)

(* rebase_operation: `op`, which made `ours`, applied to `latest` instead. *)
(* A restore publishes the manifest it restores, with the high-water marks *)
(* of both; added fragments are numbered after the latest version's; a new *)
(* index gives up the fragments a concurrent Update (of `theirs`) rewrote. *)
rebase_operation(latest, ours, op, theirs) ==
    LET renumbered == IF op.kind \in {"Append", "Update"}
                      THEN [op EXCEPT !.fragments = assign_ids(@, next_fragment_id(latest))] ELSE op
        next == apply_operation(latest, renumbered)
        mine == {x.uuid : x \in op.new_indices}
        prunes(t, x) == t.kind = "Update" /\ x.fields \cap t.modified # {}
        pruned(x) == [x EXCEPT !.cover = @ \ UNION {DOMAIN t.updated : t \in {t \in theirs : prunes(t, x)}}]
        m == CASE op.kind = "Restore" -> [ours EXCEPT !.max = Max({0, @, latest.max})]
               [] op.kind = "CreateIndex" ->
                    [next EXCEPT !.indices = {IF x.uuid \in mine THEN pruned(x) ELSE x : x \in @}]
               [] OTHER -> next
    IN  [m EXCEPT !.tag = ours.tag, !.restored = ours.restored, !.reserved = ours.reserved,
                  !.first_new = IF op.kind = "Append" THEN Cardinality(DOMAIN latest.frags) ELSE ours.first_new]
=============================================================================
