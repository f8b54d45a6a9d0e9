------------------------------ MODULE Mutations ------------------------------
(***************************************************************************)
(* One attempt of each mutation of a table, as a function from the version *)
(* it reads to the manifest it hands to the commit:                        *)
(* src/dataset/dataset_ops.cpp, src/dataset/dataset.cpp,                   *)
(* src/table/manifest_writer.cpp, src/index/scalar/scalar_index.cpp and    *)
(* src/dataset/index_optimize.cpp.  Everything here is a pure operator.    *)
(*                                                                         *)
(* A row is [key, by]: the value of its key column, and the calls that     *)
(* wrote it, <<client, step>>, the last one last.  A call is a record of   *)
(* its arguments (NoCall below lists them).  `w` names one attempt of a    *)
(* call, <<<<client, step>>, tries>>, and stands for the fresh file names  *)
(* and uuids that the attempt draws.                                       *)
(***************************************************************************)
EXTENDS Conflicts, SequencesExt

NoCall ==
    [op |-> "None", read |-> 0, keys |-> {}, columns |-> {}, column |-> NoValue, type |-> NoValue, null |-> {},
     when_matched |-> "UpdateAll", insert |-> TRUE, delete_unmatched |-> FALSE,
     name |-> NoValue, kind |-> "BTree", key |-> NoValue, value |-> NoValue, version |-> 0,
     defer |-> FALSE, reindex |-> FALSE, names |-> {}, schema |-> NoFragments, fragment |-> 0]

(* A manifest as it is loaded: what its writer said it did is not read back. *)
Loaded(m) == [m EXCEPT !.tag = "Derive", !.first_new = 0, !.restored = 0, !.reserved = 0, !.hand = NoOperation]

FieldNamed(fields, name) == {id \in DOMAIN fields : fields[id].name = name}
max_field_id(m) == Max({-1} \cup DOMAIN m.fields)

(* A data file with every field of `fields`, holding nulls in the columns  *)
(* named in `null`, and a fragment of it (make_data_fragment).             *)
DataFile(path, fields, null) ==
    [path |-> path, cols |-> [id \in DOMAIN fields |-> fields[id].col],
     nulls |-> {id \in DOMAIN fields : fields[id].name \in null}]
make_data_fragment(rows, file) == [rows |-> rows, del |-> {}, files |-> {file}, overlays |-> {}]

(* Whether a scan of field `id` returns a null for some row of `f`. *)
ReadsNull(f, id) == \A g \in f.files : id \in DOMAIN g.cols => id \in g.nulls

-----------------------------------------------------------------------------
(* Rows. *)

(* The rows of `m` with one of the keys, by fragment. *)
matching_rows(m, keys) ==
    LET rows(f) == {o \in LiveOffsets(f) : f.rows[o].key \in keys}
    IN  [i \in {i \in DOMAIN m.frags : rows(m.frags[i]) # {}} |-> rows(m.frags[i])]

(* The deletion files of `deleted`; a fragment with no row left goes. *)
apply_deletions(m, deleted) ==
    LET del(i) == m.frags[i].del \cup (IF i \in DOMAIN deleted THEN deleted[i] ELSE {})
        emptied == {i \in DOMAIN deleted : Cardinality(del(i)) >= Len(m.frags[i].rows)}
    IN  [m EXCEPT !.frags = [i \in DOMAIN @ \ emptied |-> [@[i] EXCEPT !.del = del(i)]]]

(* The rows of `m` an attempt changes, by fragment: all those that match,  *)
(* or for a merge insert the last row of each key of the source, and those *)
(* of no key of it when unmatched rows are to go.                          *)
AffectedRows(m, call) ==
    LET matches == matching_rows(m, call.keys)
        last(i, o) == \A j \in DOMAIN matches : \A p \in matches[j] :
                         m.frags[j].rows[p].key = m.frags[i].rows[o].key => j < i \/ (j = i /\ p <= o)
        unmatched == {r.key : r \in LiveRows(m)} \ call.keys
        targets == matching_rows(m, (IF call.when_matched = "DoNothing" THEN {} ELSE call.keys)
                                    \cup (IF call.delete_unmatched THEN unmatched ELSE {}))
        gone(i) == {o \in targets[i] : m.frags[i].rows[o].key \in call.keys => last(i, o)}
    IN  CASE call.op \in {"Delete", "Update"} -> matches
          [] call.op = "MergeInsert" -> [i \in {j \in DOMAIN targets : gone(j) # {}} |-> gone(i)]
          [] OTHER -> NoFragments

RowsOf(m, affected) == UNION {{m.frags[i].rows[o] : o \in affected[i]} : i \in DOMAIN affected}

KeyOrder(q, r) == q.key < r.key

(* The rows that the call `c` writes. *)
WrittenRows(m, call, c) ==
    LET present == {r.key : r \in LiveRows(m)}
        source == {[key |-> k, by |-> <<c>>] : k \in call.keys}
    IN  SetToSortSeq(
          CASE call.op = "Update" -> {[r EXCEPT !.by = Append(@, c)] : r \in RowsOf(m, AffectedRows(m, call))}
            [] call.op = "MergeInsert" ->
                 {r \in source : \/ r.key \in present /\ call.when_matched = "UpdateAll"
                                 \/ r.key \notin present /\ call.insert}
            [] call.op \in {"Append", "Overwrite"} -> source
            [] OTHER -> {},
          KeyOrder)

(* add_fragments: the staged file, if it holds a row, as one new fragment. *)
add_fragments(m, rows, file) ==
    IF rows = << >> THEN m
    ELSE note_fragment_ids([m EXCEPT !.frags = Over(@, [i \in {next_fragment_id(m)} |-> make_data_fragment(rows, file)])])

(* delete_once, update_once and merge_insert_once, with the rows they      *)
(* write in a file of the fields `mapping`.                                *)
delete_once(m, call) == retain_relevant_indices(apply_deletions(m, AffectedRows(m, call)))

update_once(m, call, w, mapping) ==
    LET kept == apply_deletions(m, AffectedRows(m, call))
        added == add_fragments(kept, WrittenRows(m, call, w[1]), DataFile(<<w, 0>>, mapping, call.null))
    IN  retain_relevant_indices([added EXCEPT !.tag = "Update"])

(* A staged write is refused when the columns of its rows, read at the     *)
(* version `m`, are not those of the latest version it is written as.      *)
schema_mappings_equivalent(m, mapping) ==
    LET columns(fields) == {[fields[id] EXCEPT !.col = NoValue] : id \in DOMAIN fields}
    IN  columns(m.fields) = columns(mapping)

-----------------------------------------------------------------------------
(* Columns. *)

NewField(call, w) == [name |-> call.column, type |-> call.type, col |-> <<w, call.column>>,
                      meta |-> NoValue, nullable |-> TRUE]

(* attach_columns: one new file for every fragment. *)
attach_columns(m, fields, w) ==
    [m EXCEPT !.frags = [i \in DOMAIN @ |-> [@[i] EXCEPT !.files = @ \cup {DataFile(<<w, i>>, fields, {})}]],
              !.fields = Over(@, fields)]

add_columns_nulls_once(m, call, w) ==
    retain_relevant_indices([m EXCEPT !.fields = Over(@, [id \in {max_field_id(m) + 1} |-> NewField(call, w)])])

add_columns_sql_once(m, call, w) ==
    retain_relevant_indices(attach_columns(m, [id \in {max_field_id(m) + 1} |-> NewField(call, w)], w))

drop_columns_once(m, call) ==
    LET kept == Without(m.fields, FieldNamed(m.fields, call.column))
    IN  retain_relevant_indices([m EXCEPT !.fields = kept, !.frags = DropEmptyFiles(@, kept)])

(* alter_columns: to non-nullable, and to another type (rewritten as a new *)
(* field of the same name).                                                *)
tighten_once(m, call) ==
    retain_relevant_indices([m EXCEPT !.fields = [id \in DOMAIN @ |->
        IF @[id].name = call.column THEN [@[id] EXCEPT !.nullable = FALSE] ELSE @[id]]])

cast_once(m, call, w) ==
    LET old == CHOOSE id \in FieldNamed(m.fields, call.column) : TRUE
        new == [m.fields[old] EXCEPT !.type = call.type, !.meta = NoValue]
    IN  retain_relevant_indices(attach_columns([m EXCEPT !.fields = Without(@, {old})],
                                               [id \in {max_field_id(m) + 1} |-> new], w))

-----------------------------------------------------------------------------
(* Metadata, restore and indices. *)

dataset_update_config(m, call) == [m EXCEPT !.config = Over(@, [k \in {call.key} |-> call.value])]

dataset_update_field_metadata(m, call) ==
    [m EXCEPT !.fields = [id \in DOMAIN @ |->
        IF @[id].name = call.column THEN [@[id] EXCEPT !.meta = call.value] ELSE @[id]]]

(* The restored manifest, with the high-water mark `high` of the latest.   *)
restore_once(m, version, high) ==
    [m EXCEPT !.max = IF high = -1 THEN @ ELSE Max({0, @, high}), !.tag = "Restore", !.restored = version]

(* The data files an index of `ids` reads of each fragment in `cover`. *)
Seen(m, ids, cover) == [i \in cover |-> UNION {FieldFiles(m.frags[i], id) : id \in ids}]

NewIndex(version, name, kind, ids, seen, w) ==
    [uuid |-> <<w, name>>, name |-> name, kind |-> kind, fields |-> ids, cover |-> DOMAIN seen, at |-> version,
     seen |-> seen, groups |-> << >>]

create_scalar_index(m, version, call, w) ==
    LET ids == FieldNamed(m.fields, call.column)
    IN  [m EXCEPT !.indices = {x \in @ : x.name # call.name} \cup
           {NewIndex(version, call.name, call.kind, ids, Seen(m, ids, DOMAIN m.frags), w)}]

dataset_drop_index(m, call) == [m EXCEPT !.indices = {x \in @ : x.name # call.name}]

(* The groups of the fragment reuse index, and FragReuse::remap_coverage:  *)
(* the fragments a segment covers as a reader sees it.                     *)
ReuseGroups(m) == FoldSet(LAMBDA x, groups : groups \o x.groups, << >>, {x \in m.indices : is_system_index(x)})
Coverage(m, x) == FoldLeft(LAMBDA cover, g : remap_coverage(cover, g.old, g.new), x.cover, ReuseGroups(m))

(* optimize_one for each index of `names` that has fragments no segment    *)
(* covers (of `only`, where that limits it): they are indexed together     *)
(* with those of its newest segment, which the result replaces.  A BTree   *)
(* segment is built by scanning them all, an NGram one by scanning the     *)
(* uncovered ones and keeping the old entries of the fragments still live. *)
Segments(m, name) == {x \in m.indices : x.name = name}
Unindexed(m, name, only) ==
    {i \in DOMAIN m.frags : /\ i \notin UNION {Coverage(m, x) : x \in Segments(m, name)}
                            /\ name \in DOMAIN only => i \in only[name]}
Optimizable(m, names, only) == {n \in names : Unindexed(m, n, only) # {}}

optimize_one(m, version, name, only, w) ==
    LET last == CHOOSE x \in Segments(m, name) : \A y \in Segments(m, name) : y.at <= x.at
        cover == Unindexed(m, name, only) \cup (Coverage(m, last) \cap DOMAIN m.frags)
        kept == Restrict(last.seen, DOMAIN last.seen \cap DOMAIN m.frags)
        seen == IF last.kind = "NGram" THEN Over(kept, Seen(m, last.fields, Unindexed(m, name, only)))
                                       ELSE Seen(m, last.fields, cover)
    IN  [replaced |-> last,
         built |-> [NewIndex(version, name, last.kind, last.fields, seen, w) EXCEPT !.cover = cover]]

optimize_indices_once(m, version, names, only, w) ==
    LET done == {optimize_one(m, version, n, only, w) : n \in Optimizable(m, names, only)}
    IN  [m EXCEPT !.indices = (@ \ {d.replaced : d \in done}) \cup {d.built : d \in done}]

-----------------------------------------------------------------------------
(* Compaction. *)

(* What plan_bins may choose, with the sizes it goes by left out: adjacent *)
(* fragments, all in or all out of every segment's cover; one fragment on  *)
(* its own only to materialize its deletions.                              *)
Bins(m) ==
    {b \in SUBSET DOMAIN m.frags :
       /\ Cardinality(b) > 1 \/ \E i \in b : m.frags[i].del # {}
       /\ \A i \in DOMAIN m.frags : Min(b) < i /\ i < Max(b) => i \in b
       /\ \A x \in m.indices : b \subseteq x.cover \/ b \cap x.cover = {}}

(* rewrite_members: the live rows of the bin, in order, as one fragment.   *)
LiveRowSeq(f) == [n \in 1..Cardinality(LiveOffsets(f)) |->
                    f.rows[SetToSortSeq(LiveOffsets(f), <)[n]]]
BinRows(m, bin) == FoldLeft(LAMBDA rows, i : rows \o LiveRowSeq(m.frags[i]), << >>, SetToSortSeq(bin, <))
rewrite_members(m, bin, mapping, w) ==
    LET null == {m.fields[id].name : id \in {id \in DOMAIN m.fields : \E i \in bin : ReadsNull(m.frags[i], id)}}
    IN  IF BinRows(m, bin) = << >> THEN {}
        ELSE {make_data_fragment(BinRows(m, bin), DataFile(<<w, 0>>, mapping, null))}

(* changed_rewrite: a writer changed a fragment of the bin since.          *)
(* Mutant: it is not asked.                                                *)
changed_rewrite_unasked(original, current, bin) == FALSE
changed_rewrite(original, current, bin) ==
    ~\A i \in bin : i \in DOMAIN current.frags /\ current.frags[i] = original.frags[i]

(* The version that reserves ids for the `n` fragments created.            *)
(* Mutant: they are counted among the ones in use.                         *)
Reserving_from_last(original, n) ==
    [original EXCEPT !.tag = "Reserve", !.reserved = n,
                     !.max = IF n = 0 THEN @ ELSE Max({@, next_fragment_id(original) + n - 2})]
Reserving(original, n) ==
    [original EXCEPT !.tag = "Reserve", !.reserved = n,
                     !.max = IF n = 0 THEN @ ELSE Max({@, next_fragment_id(original) + n - 1})]

(* The rewrite itself, on the reserving version `m`.  Deferred, it moves   *)
(* every index to the new fragments and records the group in the fragment  *)
(* reuse index, after the groups that the version planned from had;        *)
(* otherwise the old fragments leave every index.                          *)
Rewriting(original, m, version, bin, created, defer, w) ==
    LET new == {m.max : f \in created}
        frags == Over(Without(m.frags, bin), [i \in new |-> CHOOSE f \in created : TRUE])
        reuse == {x \in original.indices : is_system_index(x)}
        entry == [NewIndex(version + 1, FragReuse, "FragReuse", {}, NoFragments, w)
                    EXCEPT !.cover = new \cup UNION {x.cover \ bin : x \in reuse},
                           !.groups = ReuseGroups(original) \o << [old |-> bin, new |-> new] >>]
        moved == {[x EXCEPT !.cover = remap_coverage(@, bin, new)] : x \in {y \in m.indices : ~is_system_index(y)}}
    IN  [m EXCEPT !.frags = frags, !.tag = "Rewrite",
                  !.indices = IF defer THEN moved \cup {entry} ELSE drop_fragments_from_indices(@, bin)]

(* The indices an eager compaction of `bin` takes back up afterwards, and  *)
(* the fragments each is to take: the new ones, if it covered all of the   *)
(* bin.                                                                    *)
Touched(m, bin) == {x \in m.indices : ~is_system_index(x) /\ x.cover \cap bin # {}}
affected(m, bin) == {x.name : x \in Touched(m, bin)}
take_back(m, bin, new) ==
    [n \in affected(m, bin) |-> IF \E x \in Touched(m, bin) : x.name = n /\ bin \subseteq x.cover THEN new ELSE {}]
=============================================================================
