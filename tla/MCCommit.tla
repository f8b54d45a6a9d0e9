------------------------------ MODULE MCCommit ------------------------------
(***************************************************************************)
(* Small tables and small sets of calls for Commit.  Every client makes    *)
(* one call of those its script offers, or the ones listed in order.       *)
(***************************************************************************)
EXTENDS CommitProperties

Nobody == <<<<"init", 0>>, 0>>
Field(name, nullable) == [name |-> name, type |-> "int", col |-> <<Nobody, name>>, meta |-> NoValue, nullable |-> nullable]
(* A key, the column "v" and the column "u". *)
Fields == 0 :> Field("k", FALSE) @@ 1 :> Field("v", TRUE) @@ 2 :> Field("u", TRUE)

File(n, ids) == DataFile(<<Nobody, n>>, Restrict(Fields, ids), {})
Fragment(keys, files) ==
    [rows |-> [i \in DOMAIN keys |-> [key |-> keys[i], by |-> << >>]], del |-> {}, files |-> files, overlays |-> {}]
(* Two fragments: one of two rows in one file, one with its column "v" in  *)
(* a file of its own.                                                      *)
TwoFragments == 0 :> Fragment(<<1, 2>>, {File(0, {0, 1, 2})}) @@ 1 :> Fragment(<<3>>, {File(1, {0, 2}), File(2, {1})})
Table(frags, indices) ==
    [frags |-> frags, max |-> Max(DOMAIN frags), fields |-> Fields, indices |-> indices,
     config |-> NoFragments, tag |-> "Overwrite", first_new |-> 0, restored |-> 0, reserved |-> 0,
     hand |-> NoOperation]
Plain == Table(TwoFragments, {})
(* With an index on column "v" of both fragments. *)
Index(kind) == NewIndex(1, "i", kind, {1}, Seen(Plain, {1}, {0, 1}), Nobody)
(* Two fragments that a deletion file takes a row of. *)
Holed == 0 :> [TwoFragments[0] EXCEPT !.del = {1}] @@ 1 :> [Fragment(<<3, 4>>, TwoFragments[1].files) EXCEPT !.del = {1}]

PlainTable == <<Plain>>
IndexedTable == <<Table(TwoFragments, {Index("BTree")})>>
NGramTable == <<Table(TwoFragments, {Index("NGram")})>>
HoledTable == <<Table(Holed, {Index("BTree")})>>

Symmetry == Permutations(Clients)

-----------------------------------------------------------------------------
Call(op) == [NoCall EXCEPT !.op = op, !.columns = {"k", "v", "u"}]
OnKeys(op, keys) == [Call(op) EXCEPT !.keys = keys]
OnColumn(op, column) == [Call(op) EXCEPT !.column = column, !.type = "int"]
Updates(keys) == [OnColumn("Update", "v") EXCEPT !.keys = keys]
From(v, k) == [k EXCEPT !.read = v]
Compaction(defer) == [Call("Compact") EXCEPT !.defer = defer, !.reindex = ~defer]
CastV == [OnColumn("Cast", "v") EXCEPT !.type = "text"]
IndexNamed(name) == [OnColumn("CreateIndex", "v") EXCEPT !.name = name]
OptimizeI == [Call("Optimize") EXCEPT !.names = {"i"}]
RestoreFirst == [Call("Restore") EXCEPT !.version = 1]
Configure(key, value) == [Call("Config") EXCEPT !.key = key, !.value = value]
Describe(column, value) == [OnColumn("FieldMetadata", column) EXCEPT !.value = value]
OverlayOn(i) == [Call("DataOverlay") EXCEPT !.fragment = i]
Replace(i, null) == [OnColumn("DataReplacement", "v") EXCEPT !.fragment = i, !.null = null]

Each(calls) == [c \in Clients |-> << calls >>]

(* Calls that change rows. *)
RowScript == Each(
    {OnKeys("Delete", {1}), Updates({2, 3}), OnKeys("MergeInsert", {2, 4}), OnKeys("Append", {5}), Call("Compact")})

(* Calls that change the schema, with some that change the data under it.  *)
SchemaScript == Each(
    {OnColumn("AddSql", "w"), OnColumn("AddNulls", "w"), OnColumn("DropColumn", "v"), OnColumn("Tighten", "v"),
     OnColumn("Tighten", "w"), CastV, Updates({1}), Call("Compact"), OverlayOn(0), From(1, Replace(1, {"v"})),
     [OnKeys("MergeInsert", {1, 2}) EXCEPT !.when_matched = "DoNothing", !.delete_unmatched = TRUE]})

(* Calls that change indices, or the data an index was built from. *)
IndexScript == Each(
    {IndexNamed("i"), OptimizeI, Compaction(FALSE), Compaction(TRUE), Updates({1}), Replace(0, {})})

(* Calls that replace the table or describe it. *)
TableScript == Each(
    {RestoreFirst, [OnKeys("Overwrite", {6}) EXCEPT !.schema = Fields], Configure("x", "1"), Configure("x", "2"),
     Configure("y", "1"), Describe("v", "1"), Describe("u", "1"), OnColumn("AddSql", "w"), OnKeys("Append", {5}),
     OnKeys("Delete", {1, 2}), IndexNamed("j"), [Call("DropIndex") EXCEPT !.name = "i"]})

-----------------------------------------------------------------------------
(* Calls that disagree. *)
RestoreAndAppends == Each({RestoreFirst, OnKeys("Append", {5})})
IndexAndDrop == Each({IndexNamed("j"), OnColumn("DropColumn", "v")})
DescribeAndDrop == Each({Describe("u", "1"), OnColumn("DropColumn", "v")})
AppendAndCast == Each({OnKeys("Append", {5}), CastV})
AppendAndTighten == Each({[OnKeys("Append", {5}) EXCEPT !.null = {"v"}], OnColumn("Tighten", "v")})
DeleteAndOverlay == Each({OnKeys("Delete", {1}), OverlayOn(0)})
DropAndAdd == Each({OnColumn("DropColumn", "u"), OnColumn("AddNulls", "w")})
TwoDeferred == Each({Compaction(TRUE)})
DeferredThenOptimize == [c \in Clients |-> << {Compaction(TRUE)}, {OnKeys("Append", {5})}, {OptimizeI} >>]
=============================================================================
