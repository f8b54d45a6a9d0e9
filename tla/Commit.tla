------------------------------- MODULE Commit -------------------------------
(***************************************************************************)
(* Clients that change one table at the same time.  A change is made from  *)
(* a version it read; it is published as the next version by creating that *)
(* version's manifest, which fails when another client created it first.   *)
(* It is then classified against every version committed since, and is     *)
(* rebased onto the latest, run again from the latest, or refused:         *)
(* commit_next_version (src/dataset/dataset.cpp), retry_on_conflict        *)
(* (dataset_commit.hpp), commit_dataset_version                            *)
(* (src/table/manifest_writer.cpp), the compaction's two commits           *)
(* (src/dataset/dataset_ops.cpp) and dataset_commit_hand_built             *)
(* (src/table/dataset_transaction.cpp).                                    *)
(*                                                                         *)
(* Each read of the table is a step of its own, and so is each publication.*)
(* What an operation makes of what it read is Mutations.  A client that    *)
(* crashes is one that takes no further step.                              *)
(***************************************************************************)
EXTENDS Mutations

CONSTANTS
    Clients,        \* the processes that write
    Script,         \* Script[c]: the calls of client c in order, each a set of alternatives
    InitialTable,   \* the table's versions at the start
    Tries,          \* how often retry_on_conflict runs an operation (20)
    Attempts        \* commit_attempts: how often one commit is rebased (20)

ASSUME BoundsAssumption == Tries \in Nat \ {0} /\ Attempts \in Nat \ {0}
ASSUME InitialAssumption == InitialTable # << >> /\ InitialTable \in Seq(Range(InitialTable))
ASSUME ScriptAssumption ==
    \A c \in Clients : /\ Len(Script[c]) \in Nat
                       /\ \A n \in 1..Len(Script[c]) : \A k \in Script[c][n] : k.read \in Nat

VARIABLES
    versions,   \* the manifests of versions 1, 2, ...
    pc, call, step, tries, attempts,
    read,       \* the version an attempt is made from
    target,     \* the version it is about to publish
    ours,       \* the manifest the operation made
    next,       \* the manifest to publish: ours, or ours rebased
    notes,      \* what an operation of several reads keeps between them
    from,       \* history: the oldest version a call may be made from
    results     \* what each client's calls returned

vars == <<versions, pc, call, step, tries, attempts, read, target, ours, next, notes, from, results>>
attemptVars == <<read, target, ours, next, notes>>
callVars == <<call, step, from, results>>

Latest == Len(versions)
NoManifest == [frags |-> NoFragments]
NoNotes == [mapping |-> NoFragments, high |-> -1, bin |-> {}, created |-> {}, planned |-> 0,
            names |-> {}, only |-> NoFragments, queue |-> {}, whole |-> FALSE]

Calls == UNION {UNION Range(Script[c]) : c \in Clients}
(* Who writes: names the rows of a call, and the files of an attempt. *)
Me(c) == <<c, step[c]>>
Writer(c) == <<Me(c), tries[c]>>

-----------------------------------------------------------------------------
(* How a call starts and ends. *)

Appends == {"Append", "Overwrite"}
HandBuilt == {"DataOverlay", "DataReplacement"}
(* The operations a conflict fails: they are not run again. *)
NotRetried == {"DropIndex", "FieldMetadata"} \cup HandBuilt

FirstStep(op) == IF op \in Appends THEN "open" ELSE IF op = "Restore" THEN "high" ELSE "read"

Begin(c) ==
    /\ pc[c] = "idle"
    /\ step[c] < Len(Script[c])
    /\ \E k \in Script[c][step[c] + 1] :
         /\ k.read <= Latest                 \* a handle is opened at a version that exists
         /\ call' = [call EXCEPT ![c] = k]
         /\ from' = [from EXCEPT ![c] = IF k.read = 0 THEN Latest ELSE k.read]
         /\ pc' = [pc EXCEPT ![c] = FirstStep(k.op)]
    /\ step' = [step EXCEPT ![c] = @ + 1]
    /\ tries' = [tries EXCEPT ![c] = 0]
    /\ attempts' = [attempts EXCEPT ![c] = 0]
    /\ UNCHANGED <<versions, attemptVars, results>>

(* The end of an attempt: nothing of it is kept but `kept`, its notes. *)
Forget(c, kept) ==
    /\ read' = [read EXCEPT ![c] = 0]
    /\ target' = [target EXCEPT ![c] = 0]
    /\ ours' = [ours EXCEPT ![c] = NoManifest]
    /\ next' = [next EXCEPT ![c] = NoManifest]
    /\ notes' = [notes EXCEPT ![c] = kept]
    /\ attempts' = [attempts EXCEPT ![c] = 0]

Return(c, result) ==
    /\ pc' = [pc EXCEPT ![c] = "idle"]
    /\ call' = [call EXCEPT ![c] = NoCall]
    /\ results' = [results EXCEPT ![c] = Append(@, result)]
    /\ from' = [from EXCEPT ![c] = 0]
    /\ tries' = [tries EXCEPT ![c] = 0]
    /\ Forget(c, NoNotes)
    /\ UNCHANGED step

(* The end of dataset_compact_commit: the indices it touched are optimized *)
(* together, or one by one when that fails; whether or not they are, the   *)
(* compaction is done.                                                     *)
Reindexing(c) == notes[c].names # {}
Reindex(c, kept) ==
    /\ pc' = [pc EXCEPT ![c] = "reindex"]
    /\ tries' = [tries EXCEPT ![c] = 0]
    /\ Forget(c, kept)
    /\ UNCHANGED callVars
NextReindex(c) ==
    IF notes[c].queue = {} THEN Return(c, "committed")
    ELSE \E n \in notes[c].queue :
           Reindex(c, [notes[c] EXCEPT !.names = {n}, !.queue = @ \ {n}, !.whole = FALSE])

Succeed(c) == IF Reindexing(c) /\ ~notes[c].whole THEN NextReindex(c) ELSE Return(c, "committed")
Fail(c) == IF Reindexing(c) THEN NextReindex(c) ELSE Return(c, "failed")

(* retry_on_conflict: an attempt that failed with a conflict.              *)
(* Mutant: one more is made than there are.                                *)
ConflictOnceMore(c) ==
    IF call[c].op \in NotRetried \/ tries[c] >= Tries THEN Fail(c)
    ELSE /\ tries' = [tries EXCEPT ![c] = @ + 1]
         /\ pc' = [pc EXCEPT ![c] = IF Reindexing(c) THEN "reindex" ELSE FirstStep(call[c].op)]
         /\ Forget(c, IF Reindexing(c) THEN notes[c] ELSE NoNotes)
         /\ UNCHANGED callVars
Conflict(c) ==
    IF call[c].op \in NotRetried \/ tries[c] + 1 >= Tries THEN Fail(c)
    ELSE /\ tries' = [tries EXCEPT ![c] = @ + 1]
         /\ pc' = [pc EXCEPT ![c] = IF Reindexing(c) THEN "reindex" ELSE FirstStep(call[c].op)]
         /\ Forget(c, IF Reindexing(c) THEN notes[c] ELSE NoNotes)
         /\ UNCHANGED callVars

(* The attempt made manifest `m` from version `v`, to be published next. *)
Propose(c, v, m) ==
    /\ read' = [read EXCEPT ![c] = v]
    /\ target' = [target EXCEPT ![c] = v + 1]
    /\ ours' = [ours EXCEPT ![c] = m]
    /\ next' = [next EXCEPT ![c] = m]
    /\ attempts' = [attempts EXCEPT ![c] = 0]
    /\ pc' = [pc EXCEPT ![c] = "publish"]
    /\ UNCHANGED <<callVars, tries>>

(* A step of an attempt that only notes what it read. *)
Note(c, at, kept) ==
    /\ pc' = [pc EXCEPT ![c] = at]
    /\ notes' = [notes EXCEPT ![c] = kept]
    /\ UNCHANGED <<callVars, tries, attempts, target, ours, next>>

(* load_read_version: the first attempt is made from the version the       *)
(* caller's handle read, a later one from the latest.                      *)
ReadVersion(c) == IF tries[c] = 0 /\ call[c].read # 0 THEN call[c].read ELSE Latest

-----------------------------------------------------------------------------
(* Operations made from one version: what refuses them, and what they make.*)

Refused(m, k) ==
    LET ids == FieldNamed(m.fields, k.column)
        found == {n \in k.names : Segments(m, n) # {}}
    IN  CASE k.op \in {"Update", "Cast", "CreateIndex", "FieldMetadata"} -> ids = {}
          [] k.op = "DropColumn" -> ids = {} \/ ids = DOMAIN m.fields
          [] k.op = "Tighten" ->
               ids = {} \/ \E i \in DOMAIN m.frags, id \in ids :
                              LiveOffsets(m.frags[i]) # {} /\ ReadsNull(m.frags[i], id)
          [] k.op \in {"AddNulls", "AddSql"} -> ids # {}
          [] k.op = "MergeInsert" -> {m.fields[id].name : id \in DOMAIN m.fields} # k.columns
          [] k.op = "DropIndex" -> Segments(m, k.name) = {}
          [] k.op = "DataOverlay" -> k.fragment \notin DOMAIN m.frags
          [] k.op = "DataReplacement" -> k.fragment \notin DOMAIN m.frags \/ ids = {}
          [] OTHER -> FALSE

HandBuiltOperation(m, k, w) ==
    CASE k.op = "DataOverlay" ->
           [NoOperation EXCEPT !.kind = "DataOverlay", !.overlays = [i \in {k.fragment} |-> {<<w, 0>>}]]
      [] k.op = "DataReplacement" ->
           LET fields == Restrict(m.fields, FieldNamed(m.fields, k.column))
           IN  [NoOperation EXCEPT !.kind = "DataReplacement",
                                   !.replacements = [i \in {k.fragment} |-> DataFile(<<w, 0>>, fields, k.null)]]

Made(m, v, k, w) ==
    CASE k.op = "Delete" -> delete_once(m, k)
      [] k.op \in {"Update", "MergeInsert"} -> update_once(m, k, w, m.fields)  \* with no row to write
      [] k.op = "AddNulls" -> add_columns_nulls_once(m, k, w)
      [] k.op = "AddSql" -> add_columns_sql_once(m, k, w)
      [] k.op = "DropColumn" -> drop_columns_once(m, k)
      [] k.op = "Tighten" -> tighten_once(m, k)
      [] k.op = "Cast" -> cast_once(m, k, w)
      [] k.op = "Config" -> dataset_update_config(m, k)
      [] k.op = "FieldMetadata" -> dataset_update_field_metadata(m, k)
      [] k.op = "CreateIndex" -> create_scalar_index(m, v, k, w)
      [] k.op = "DropIndex" -> dataset_drop_index(m, k)
      [] k.op \in HandBuilt ->
           LET op == HandBuiltOperation(m, k, w)
           IN  [apply_operation(m, op) EXCEPT !.tag = "HandBuilt", !.hand = op]

OneRead == {"Delete", "AddNulls", "AddSql", "DropColumn", "Tighten", "Cast", "Config", "FieldMetadata",
            "CreateIndex", "DropIndex"} \cup HandBuilt
Staged == {"Update", "MergeInsert"}

(* The version is read, and the change made from it. *)
Read(c) ==
    LET v == ReadVersion(c)
        m == Loaded(versions[v])
        k == call[c]
        writes == WrittenRows(m, k, Me(c)) # << >>
    IN  /\ pc[c] = "read"
        /\ k.op \in OneRead \cup Staged
        /\ IF Refused(m, k) THEN Fail(c)
           ELSE IF k.op \in Staged /\ writes
           THEN /\ read' = [read EXCEPT ![c] = v]
                /\ Note(c, "stage", NoNotes)
           ELSE /\ Propose(c, v, Made(m, v, k, Writer(c)))
                /\ UNCHANGED notes
        /\ UNCHANGED versions

(* An update or merge insert writes its rows, as the latest version stores *)
(* them, and makes its change of the version it read.                      *)
Stage(c) ==
    LET m == Loaded(versions[read[c]])
        mapping == versions[Latest].fields
    IN  /\ pc[c] = "stage"
        /\ \/ ~schema_mappings_equivalent(m, mapping) /\ Fail(c)
           \/ /\ schema_mappings_equivalent(m, mapping)
              /\ Propose(c, read[c], update_once(m, call[c], Writer(c), mapping))
              /\ UNCHANGED notes
        /\ UNCHANGED versions

(* restore_once reads the latest version for its high-water mark, and then *)
(* the version it is made from.                                            *)
RestoreHigh(c) ==
    /\ pc[c] = "high"
    /\ \/ call[c].version > Latest /\ Fail(c)
       \/ /\ call[c].version <= Latest
          /\ Note(c, "base", [NoNotes EXCEPT !.high = versions[Latest].max])
          /\ UNCHANGED read
    /\ UNCHANGED versions

RestoreBase(c) ==
    /\ pc[c] = "base"
    /\ Propose(c, ReadVersion(c), restore_once(Loaded(versions[call[c].version]), call[c].version, notes[c].high))
    /\ UNCHANGED <<versions, notes>>

(* optimize_indices_once, called on its own or by a compaction. *)
Optimize(c) ==
    LET alone == call[c].op = "Optimize"
        v == IF alone THEN ReadVersion(c) ELSE Latest
        m == Loaded(versions[v])
        names == IF alone THEN call[c].names ELSE notes[c].names
        only == IF alone THEN NoFragments ELSE notes[c].only
        missing == ~\A n \in names : Segments(m, n) # {}
        todo == Optimizable(m, names, only)
        gone == ~\A n \in todo, x \in m.indices : x.name = n => x.fields \subseteq DOMAIN m.fields
    IN  /\ pc[c] = "reindex" \/ (alone /\ pc[c] = "read")
        /\ \/ (missing \/ gone) /\ Fail(c)
           \/ ~missing /\ todo = {} /\ Succeed(c)
           \/ /\ ~missing /\ ~gone /\ todo # {}
              /\ Propose(c, v, optimize_indices_once(m, v, names, only, Writer(c)))
              /\ UNCHANGED notes
        /\ UNCHANGED versions

-----------------------------------------------------------------------------
(* Appends and overwrites: commit_dataset_version. *)

(* WriteSession::open: an append writes its rows as the version that is    *)
(* the latest now stores them.                                             *)
Open(c) ==
    LET fields == versions[Latest].fields
        fits == {fields[id].name : id \in DOMAIN fields} = call[c].columns
    IN  /\ pc[c] = "open"
        /\ \/ call[c].op = "Append" /\ ~fits /\ Fail(c)
           \/ /\ call[c].op = "Append" => fits
              /\ Note(c, "list", [NoNotes EXCEPT !.mapping = IF call[c].op = "Append" THEN fields ELSE call[c].schema])
              /\ UNCHANGED read
        /\ UNCHANGED versions

(* The next version's number is listed first,                              *)
(* (Mutant: an attempt after the first goes by the first one's listing.)   *)
ListOnce(c) ==
    /\ pc[c] = "list"
    /\ target' = [target EXCEPT ![c] = IF @ = 0 THEN Latest + 1 ELSE @]
    /\ pc' = [pc EXCEPT ![c] = "prior"]
    /\ UNCHANGED <<versions, callVars, tries, attempts, read, ours, next, notes>>
List(c) ==
    /\ pc[c] = "list"
    /\ target' = [target EXCEPT ![c] = Latest + 1]
    /\ pc' = [pc EXCEPT ![c] = "prior"]
    /\ UNCHANGED <<versions, callVars, tries, attempts, read, ours, next, notes>>

(* and the latest version, which the new one is built on, loaded after.    *)
AppendTo(prior, fragment) ==
    note_fragment_ids([prior EXCEPT !.frags = Over(@, [i \in {next_fragment_id(prior)} |-> fragment]),
                                    !.tag = "Append", !.first_new = Cardinality(DOMAIN prior.frags)])
OverwriteWith(prior, fields, fragment) ==
    note_fragment_ids([prior EXCEPT !.frags = [i \in {prior.max + 1} |-> fragment], !.fields = fields,
                                    !.indices = {}, !.tag = "Overwrite"])
Prior(c) ==
    LET prior == Loaded(versions[Latest])
        fields == notes[c].mapping
        fragment == make_data_fragment(WrittenRows(prior, call[c], Me(c)),
                                       DataFile(<<Writer(c), 0>>, fields, call[c].null))
    IN  /\ pc[c] = "prior"
        /\ next' = [next EXCEPT ![c] = IF call[c].op = "Append" THEN AppendTo(prior, fragment)
                                       ELSE OverwriteWith(prior, fields, fragment)]
        /\ pc' = [pc EXCEPT ![c] = "publish"]
        /\ UNCHANGED <<versions, callVars, tries, attempts, read, target, ours, notes>>

-----------------------------------------------------------------------------
(* Compaction: compact_once. *)

CompactPlan(c) ==
    LET v == ReadVersion(c)
    IN  /\ pc[c] = "read"
        /\ call[c].op = "Compact"
        /\ \/ Return(c, "committed")          \* the planner found nothing to do
           \/ \E bin \in Bins(versions[v]) :
                /\ Note(c, "execute", [NoNotes EXCEPT !.bin = bin])
                /\ read' = [read EXCEPT ![c] = v]
        /\ UNCHANGED versions

CompactExecute(c) ==
    LET m == Loaded(versions[read[c]])
        mapping == versions[Latest].fields
        created == rewrite_members(m, notes[c].bin, mapping, Writer(c))
        refused == created # {} /\ ~schema_mappings_equivalent(m, mapping)
    IN  /\ pc[c] = "execute"
        /\ \/ refused /\ Fail(c)
           \/ /\ ~refused
              /\ Note(c, "reserve", [notes[c] EXCEPT !.created = created])
              /\ UNCHANGED read
        /\ UNCHANGED versions

CompactReserve(c) ==
    LET original == Loaded(versions[read[c]])
        changed == changed_rewrite(original, versions[Latest], notes[c].bin)
    IN  /\ pc[c] = "reserve"
        /\ \/ changed /\ Conflict(c)
           \/ /\ ~changed
              /\ Propose(c, read[c], Reserving(original, Cardinality(notes[c].created)))
              /\ notes' = [notes EXCEPT ![c].planned = read[c]]
        /\ UNCHANGED versions

CompactRewrite(c) ==
    LET original == versions[notes[c].planned]
        m == Loaded(versions[read[c]])
        changed == changed_rewrite(original, m, notes[c].bin)
    IN  /\ pc[c] = "rewrite"
        /\ \/ changed /\ Conflict(c)
           \/ /\ ~changed
              /\ Propose(c, read[c], Rewriting(original, m, read[c], notes[c].bin, notes[c].created,
                                               call[c].defer, Writer(c)))
              /\ UNCHANGED notes
        /\ UNCHANGED versions

-----------------------------------------------------------------------------
(* Publication. *)

(* put_if_absent created the manifest. *)
Published(c) ==
    LET m == versions[read[c]]        \* what a compaction's rewrite was made from
        bin == notes[c].bin
        new == {m.max : f \in notes[c].created}
    IN  IF call[c].op # "Compact" \/ Reindexing(c) THEN Succeed(c)
        ELSE IF next[c].tag = "Reserve"
        THEN /\ read' = [read EXCEPT ![c] = target[c]]
             /\ Note(c, "rewrite", notes[c])
        ELSE IF call[c].reindex /\ ~call[c].defer /\ affected(m, bin) # {}
        THEN Reindex(c, [NoNotes EXCEPT !.names = affected(m, bin), !.only = take_back(m, bin, new),
                                        !.queue = affected(m, bin), !.whole = TRUE])
        ELSE Return(c, "committed")

(* Mutant: the manifest is written whether or not it is there. *)
PublishReplaces(c) ==
    /\ pc[c] = "publish"
    /\ versions' = IF target[c] > Latest THEN Append(versions, next[c]) ELSE [versions EXCEPT ![target[c]] = next[c]]
    /\ Published(c)
PublishWins(c) ==
    /\ pc[c] = "publish"
    /\ target[c] = Latest + 1
    /\ versions' = Append(versions, next[c])
    /\ Published(c)

(* Another client created it first: an append is built again, another      *)
(* change is to be rebased.                                                *)
PublishLoses(c) ==
    LET k == call[c]
        again == IF k.op \in Appends THEN attempts[c] + 1 < Attempts ELSE attempts[c] < Attempts
    IN  /\ pc[c] = "publish"
        /\ target[c] <= Latest
        /\ \/ /\ k.op \in HandBuilt \/ (k.op \in Appends /\ ~again)
              /\ Fail(c)
           \/ /\ k.op \in Appends /\ again
              /\ attempts' = [attempts EXCEPT ![c] = @ + 1]
              /\ pc' = [pc EXCEPT ![c] = "list"]
              /\ UNCHANGED <<callVars, tries, attemptVars>>
           \/ /\ k.op \notin Appends \cup HandBuilt /\ again
              /\ pc' = [pc EXCEPT ![c] = "rebase"]
              /\ UNCHANGED <<callVars, tries, attempts, attemptVars>>
           \/ /\ k.op \notin Appends \cup HandBuilt /\ ~again
              /\ Conflict(c)
        /\ UNCHANGED versions

(* The operation a version's transaction file records. *)
Recorded(v) == derive_transaction_operation(versions[v - 1], versions[v])

(* merge_deletion_vectors: `mine`, which deleted the rows `rows` of `base`,*)
(* over the deletions of `latest`.  It conflicts when a fragment is gone or*)
(* a row is among those deleted since.                                     *)
Moved(base, latest, i) == base.frags[i].del # latest.frags[i].del
(* Mutant: the rows are not compared. *)
RowsOverlap_by_fragment(base, latest, rows, mine) ==
    ~\A i \in DOMAIN mine.updated \cup mine.removed : i \in DOMAIN base.frags /\ i \in DOMAIN latest.frags
RowsOverlap(base, latest, rows, mine) ==
    ~\A i \in DOMAIN mine.updated \cup mine.removed :
        /\ i \in DOMAIN base.frags /\ i \in DOMAIN latest.frags
        /\ Moved(base, latest, i) /\ i \in DOMAIN rows => latest.frags[i].del \cap rows[i] = {}
merge_deletion_vectors(base, latest, rows, mine) ==
    LET del(i) == IF Moved(base, latest, i)
                  THEN latest.frags[i].del \cup (IF i \in DOMAIN rows THEN rows[i] ELSE {})
                  ELSE mine.updated[i].del
        full == {i \in DOMAIN mine.updated : /\ Moved(base, latest, i)
                                             /\ Cardinality(del(i)) >= Len(latest.frags[i].rows)}
    IN  [mine EXCEPT !.removed = @ \cup full,
                     !.updated = [i \in DOMAIN @ \ full |-> [@[i] EXCEPT !.del = del(i)]]]

Rebase(c) ==
    LET base == versions[read[c]]
        latest == Loaded(versions[Latest])
        mine == derive_transaction_operation(base, ours[c])
        since == (read[c] + 1)..Latest
        with_rows == call[c].op \in {"Delete", "Update", "MergeInsert"}
        verdict == [v \in since |-> IF with_rows THEN check_txn_with_affected_rows(mine, Recorded(v), base)
                                                 ELSE check_txn(mine, Recorded(v))]
        refusals == {v \in since : verdict[v] # "Compatible"}
        rows == AffectedRows(base, call[c])
        merging == with_rows /\ mine.kind \in {"Delete", "Update"}
        overlap == merging /\ RowsOverlap(base, latest, rows, mine)
        merged == IF merging THEN merge_deletion_vectors(base, latest, rows, mine) ELSE mine
        m == rebase_operation(latest, ours[c], merged, {Recorded(v) : v \in since})
    IN  /\ pc[c] = "rebase"
        /\ \/ /\ refusals # {}
              /\ IF verdict[Min(refusals)] = "Incompatible" THEN Fail(c) ELSE Conflict(c)
           \/ refusals = {} /\ overlap /\ Conflict(c)
           \/ refusals = {} /\ ~overlap /\ RewriteMissing(latest, merged) /\ Conflict(c)
           \/ refusals = {} /\ ~overlap /\ FieldMissing(latest, merged) /\ Fail(c)
           \/ /\ refusals = {} /\ ~overlap /\ ~RewriteMissing(latest, merged) /\ ~FieldMissing(latest, merged)
              /\ next' = [next EXCEPT ![c] = m]
              /\ target' = [target EXCEPT ![c] = Latest + 1]
              /\ attempts' = [attempts EXCEPT ![c] = @ + 1]
              /\ pc' = [pc EXCEPT ![c] = "publish"]
              /\ UNCHANGED <<callVars, tries, read, ours, notes>>
        /\ UNCHANGED versions

-----------------------------------------------------------------------------
Init ==
    /\ versions = InitialTable
    /\ pc = [c \in Clients |-> "idle"]
    /\ call = [c \in Clients |-> NoCall]
    /\ step = [c \in Clients |-> 0]
    /\ tries = [c \in Clients |-> 0]
    /\ attempts = [c \in Clients |-> 0]
    /\ read = [c \in Clients |-> 0]
    /\ target = [c \in Clients |-> 0]
    /\ ours = [c \in Clients |-> NoManifest]
    /\ next = [c \in Clients |-> NoManifest]
    /\ notes = [c \in Clients |-> NoNotes]
    /\ from = [c \in Clients |-> 0]
    /\ results = [c \in Clients |-> << >>]

Step(c) ==
    \/ Begin(c) \/ Read(c) \/ Stage(c) \/ RestoreHigh(c) \/ RestoreBase(c) \/ Optimize(c)
    \/ Open(c) \/ List(c) \/ Prior(c)
    \/ CompactPlan(c) \/ CompactExecute(c) \/ CompactReserve(c) \/ CompactRewrite(c)
    \/ PublishWins(c) \/ PublishLoses(c) \/ Rebase(c)

(* Every client has made its calls. *)
Finished ==
    /\ \A c \in Clients : pc[c] = "idle" /\ step[c] = Len(Script[c])
    /\ UNCHANGED vars

Next == (\E c \in Clients : Step(c)) \/ Finished

Spec == Init /\ [][Next]_vars
=============================================================================
