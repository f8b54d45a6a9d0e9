------------------------------- MODULE Storage -------------------------------
(***************************************************************************)
(* The objects of one dataset, and how a commit puts them there: new files *)
(* first, then the transaction file, then the manifest, which must not     *)
(* replace one (publish_manifest, src/table/manifest_writer.cpp;           *)
(* io::put_if_absent, src/io/byte_sink.cpp and s3_byte_sink.cpp).  Writers *)
(* crash, and requests to an object store and their replies are lost.      *)
(*                                                                         *)
(* Commit models what a change makes of a table, and takes storage for     *)
(* granted; here a version is the set of files it names, and four kinds of *)
(* change stand for the ways of committing: "Append" and "Overwrite"       *)
(* (commit_dataset_version), "Update", "CreateIndex" and "Restore"         *)
(* (commit_next_version under retry_on_conflict).                          *)
(***************************************************************************)
EXTENDS Integers, Sequences, FiniteSets, Functions, FiniteSetsExt

CONSTANTS
    Writers,
    Script,             \* Script[w]: the changes of writer w in order, each a set of kinds
    InitialVersions,    \* the manifests at the start, a sequence
    Store,              \* "local" (hard links) or "object"
    LosesReplies,       \* the writers a reply of the object store may not reach
    GivesUp,            \* the writers whose client may stop resending a request
    Checkouts,          \* handles may be opened at versions that are not the latest
    Tries,              \* how often retry_on_conflict runs an operation (20)
    Attempts            \* commit_attempts (20, or 200 on an object store)

ASSUME StoreAssumption == Store \in {"local", "object"} /\ LosesReplies \cup GivesUp \subseteq Writers /\ Checkouts \in BOOLEAN
ASSUME RetryAssumption == Tries \in Nat \ {0} /\ Attempts \in Nat \ {0}

VARIABLES
    manifests,  \* the manifests in _versions, by version
    files,      \* the other files, with the time each was written
    now,
    pc, step,
    job,        \* the change a writer is making
    published,  \* history: every <<version, change>> a manifest was created for
    results     \* what each writer's calls returned

vars == <<manifests, files, now, pc, step, job, published, results>>
storeVars == <<manifests, files, published>>

Appends == {"Append", "Overwrite"}
Kinds == Appends \cup {"Update", "CreateIndex", "Restore"}

Latest == Max(DOMAIN manifests)
Change(w) == <<w, step[w]>>
File(kind, w, n) == <<kind, w, step[w], n>>
With(f, names) == [x \in DOMAIN f \cup names |-> IF x \in names THEN now ELSE f[x]]
Without(f, names) == Restrict(f, DOMAIN f \ names)

NoFile == <<"none", "none", 0, 0>>
NoManifest == [kind |-> "none", files |-> {}, replaced |-> {}, txn |-> NoFile, stamp |-> 0, past |-> {}]
NoJob == [kind |-> "none", handle |-> 0, read |-> 0, target |-> 0, base |-> NoManifest, restored |-> {},
          wrote |-> {}, replaced |-> {}, txn |-> NoFile, txns |-> 0, next |-> NoManifest, sent |-> FALSE, since |-> 0,
          tries |-> 0, attempts |-> 0, outcome |-> "none"]

Goto(w, at, j) == /\ pc' = [pc EXCEPT ![w] = at]
                  /\ job' = [job EXCEPT ![w] = j]
                  /\ UNCHANGED <<now, step, results>>

Return(w, result) == /\ pc' = [pc EXCEPT ![w] = "idle"]
                     /\ job' = [job EXCEPT ![w] = NoJob]
                     /\ results' = [results EXCEPT ![w] = Append(@, result)]
                     /\ UNCHANGED <<now, step>>

-----------------------------------------------------------------------------
(* What is committed. *)

(* A change begins with a handle on the dataset. *)
Start(w) ==
    /\ pc[w] = "idle"
    /\ step[w] < Len(Script[w])
    /\ step' = [step EXCEPT ![w] = @ + 1]
    /\ \E kind \in Script[w][step[w] + 1] :
         \E v \in IF Checkouts /\ kind \notin Appends THEN DOMAIN manifests ELSE {Latest} :
             /\ job' = [job EXCEPT ![w] = [NoJob EXCEPT !.kind = kind, !.handle = v, !.since = now]]
             /\ pc' = [pc EXCEPT ![w] = IF kind \in Appends THEN "write" ELSE "read"]
    /\ UNCHANGED <<storeVars, now, results>>

(* load_read_version: a version cleaned up since is read as the latest. A  *)
(* restore takes up the version of its handle, which must be there.        *)
Read(w) ==
    LET j == job[w]
        v == IF j.tries = 0 /\ j.handle \in DOMAIN manifests THEN j.handle ELSE Latest
        made == [j EXCEPT !.read = v, !.base = manifests[v]]
    IN  /\ pc[w] = "read"
        /\ \/ /\ j.kind = "CreateIndex"
              /\ Goto(w, "write", made)
           \/ /\ j.kind = "Update"
              /\ \E f \in {x \in manifests[v].files : x[1] = "data"} : Goto(w, "write", [made EXCEPT !.replaced = {f}])
           \/ /\ j.kind = "Restore"
              /\ IF j.handle \in DOMAIN manifests
                 THEN Goto(w, "commit", [made EXCEPT !.restored = manifests[j.handle].files])
                 ELSE Return(w, "failed")
        /\ UNCHANGED storeVars

(* A change over the version `on`: what apply_operation makes of it. *)
Changed(w, on) ==
    LET j == job[w]
    IN  [j.next EXCEPT !.kind = j.kind, !.replaced = j.replaced, !.past = on.past \cup {Change(w)},
                       !.files = CASE j.kind = "Overwrite" -> j.wrote
                                   [] j.kind = "Restore" -> j.restored
                                   [] OTHER -> (on.files \ j.replaced) \cup j.wrote]

(* The files of the change. *)
WriteFiles(w) ==
    LET j == job[w]
        new == {File(IF j.kind = "CreateIndex" THEN "index" ELSE "data", w, j.tries)}
    IN  /\ pc[w] = "write"
        /\ files' = With(files, new)
        /\ Goto(w, IF j.kind \in Appends THEN "list" ELSE "commit", [j EXCEPT !.wrote = new])
        /\ UNCHANGED <<manifests, published>>

(* commit_dataset_version_once: the next version's number, and then the    *)
(* latest version, which the new one is built on.                          *)
List(w) ==
    /\ pc[w] = "list"
    /\ Goto(w, "prior", [job[w] EXCEPT !.target = Latest + 1])
    /\ UNCHANGED storeVars

Prior(w) ==
    /\ pc[w] = "prior"
    /\ Goto(w, "txn", [job[w] EXCEPT !.next = [Changed(w, manifests[Latest]) EXCEPT !.stamp = now]])
    /\ UNCHANGED storeVars

-----------------------------------------------------------------------------
(* publish_manifest. *)

(* The transaction file, under a new name each time.  The operation of an  *)
(* update or an index is read off its parent, which must be there.         *)
(* Mutant: the manifest does not name it. *)
WriteTxnUnnamed(w, j) ==
    LET txn == File("txn", w, j.txns)
    IN  IF j.kind \in {"Update", "CreateIndex"} /\ j.target - 1 \notin DOMAIN manifests
        THEN /\ Goto(w, "undo", [j EXCEPT !.outcome = "failed"])
             /\ UNCHANGED storeVars
        ELSE /\ files' = With(files, {txn})
             /\ Goto(w, "put", [j EXCEPT !.txn = txn, !.txns = @ + 1, !.sent = FALSE])
             /\ UNCHANGED <<manifests, published>>
WriteTxn(w, j) ==
    LET txn == File("txn", w, j.txns)
    IN  IF j.kind \in {"Update", "CreateIndex"} /\ j.target - 1 \notin DOMAIN manifests
        THEN /\ Goto(w, "undo", [j EXCEPT !.outcome = "failed"])
             /\ UNCHANGED storeVars
        ELSE /\ files' = With(files, {txn})
             /\ Goto(w, "put", [j EXCEPT !.txn = txn, !.txns = @ + 1, !.next.txn = txn, !.sent = FALSE])
             /\ UNCHANGED <<manifests, published>>

(* commit_next_version: the manifest made of the version read is stamped   *)
(* with the time, and is to be the version after it.                       *)
CommitNext(w) ==
    /\ pc[w] = "commit"
    /\ WriteTxn(w, [job[w] EXCEPT !.target = job[w].read + 1,
                                  !.next = [Changed(w, job[w].base) EXCEPT !.stamp = now]])

(* A manifest built again, or rebased. *)
(* Mutant: it takes the next number free by now. *)
CommitAgainLatest(w) ==
    /\ pc[w] = "txn"
    /\ WriteTxn(w, [job[w] EXCEPT !.target = Latest + 1])
CommitAgain(w) ==
    /\ pc[w] = "txn"
    /\ WriteTxn(w, job[w])

Created(w) ==
    LET v == job[w].target
    IN  /\ manifests' = [x \in DOMAIN manifests \cup {v} |-> IF x = v THEN job[w].next ELSE manifests[x]]
        /\ published' = published \cup {<<v, Change(w)>>}
        /\ UNCHANGED files
(* Mutant: a plain PUT, which replaces. *)
FreeAlways(w) == TRUE
Free(w) == job[w].target \notin DOMAIN manifests

(* put_if_absent creates the manifest, *)
PutWins(w) ==
    /\ pc[w] = "put"
    /\ Free(w)
    /\ Created(w)
    /\ Return(w, "committed")

(* or finds one there. *)
PutLoses(w) ==
    /\ pc[w] = "put"
    /\ ~Free(w)
    /\ Goto(w, IF Store = "object" THEN "taken" ELSE "drop", [job[w] EXCEPT !.outcome = "conflict"])
    /\ UNCHANGED storeVars

(* On an object store the request may be lost, or only its reply; the      *)
(* client sends it again,                                                  *)
LoseRequest(w) ==
    /\ pc[w] = "put"
    /\ Store = "object"
    /\ Goto(w, "put", [job[w] EXCEPT !.sent = TRUE])
    /\ UNCHANGED storeVars

LoseReply(w) ==
    /\ pc[w] = "put"
    /\ Store = "object" /\ w \in LosesReplies
    /\ Free(w)
    /\ Created(w)
    /\ Goto(w, "put", [job[w] EXCEPT !.sent = TRUE])

(* or gives up, with an error that is no conflict. *)
GiveUp(w) ==
    /\ pc[w] = "put"
    /\ job[w].sent /\ w \in GivesUp
    /\ Goto(w, "drop", [job[w] EXCEPT !.outcome = "failed"])
    /\ UNCHANGED storeVars

(* The manifest that is there may be the one this commit created: it names *)
(* its transaction file.                                                   *)
published_transaction(v) == IF v \in DOMAIN manifests THEN manifests[v].txn ELSE NoFile
(* Mutant: the transaction file is not compared. *)
TakenByOthers(w) ==
    /\ pc[w] = "taken"
    /\ Goto(w, "drop", job[w])
    /\ UNCHANGED storeVars
Taken(w) ==
    /\ pc[w] = "taken"
    /\ IF published_transaction(job[w].target) = job[w].txn THEN Return(w, "committed") ELSE Goto(w, "drop", job[w])
    /\ UNCHANGED storeVars

(* The transaction file of a commit that failed is removed.  After a lost  *)
(* race an append is built again, up to Attempts times; another change is  *)
(* rebased if the version it was made from can still be read.              *)
DropTxn(w) ==
    LET j == job[w]
    IN  /\ pc[w] = "drop"
        /\ files' = Without(files, {j.txn})
        /\ IF j.outcome = "conflict" /\ j.kind \in Appends /\ j.attempts + 1 < Attempts
           THEN Goto(w, "list", [j EXCEPT !.attempts = @ + 1])
           ELSE IF j.outcome = "conflict" /\ j.kind \notin Appends /\ j.attempts < Attempts /\ j.read \in DOMAIN manifests
           THEN Goto(w, "rebase", j)
           ELSE Goto(w, "undo", j)
        /\ UNCHANGED <<manifests, published>>

-----------------------------------------------------------------------------
(* What follows a lost race. *)

(* The verdict on this change against one committed since, by the          *)
(* transaction file that one left: Conflicts, for these kinds of change.   *)
Verdict(w, theirs) ==
    CASE theirs.txn \notin DOMAIN files -> "Retryable"
      [] theirs.txn \in DOMAIN files /\ job[w].kind = "Restore" -> "Compatible"
      [] OTHER -> CASE theirs.kind \in {"Overwrite", "Restore"} -> "Incompatible"
                    [] theirs.kind = "Update" /\ theirs.replaced \cap job[w].replaced # {} -> "Retryable"
                    [] theirs.kind = "CreateIndex" /\ job[w].kind = "CreateIndex" -> "Retryable"
                    [] OTHER -> "Compatible"

(* classify_concurrent stops at the first version that is not there or not *)
(* compatible.                                                             *)
Outcome(w) ==
    LET since == (job[w].read + 1)..Latest
        bad == {v \in since : v \notin DOMAIN manifests \/ Verdict(w, manifests[v]) # "Compatible"}
    IN  IF bad = {} THEN "Compatible"
        ELSE IF Min(bad) \notin DOMAIN manifests THEN "Failed" ELSE Verdict(w, manifests[Min(bad)])

Rebase(w) ==
    LET j == job[w]
    IN  /\ pc[w] = "rebase"
        /\ \/ /\ Outcome(w) = "Compatible"
              /\ Goto(w, "txn", [j EXCEPT !.next = Changed(w, manifests[Latest]), !.target = Latest + 1,
                                          !.attempts = @ + 1])
           \/ /\ Outcome(w) = "Retryable"
              /\ Goto(w, "undo", [j EXCEPT !.outcome = "conflict"])
           \/ /\ Outcome(w) \in {"Incompatible", "Failed"}
              /\ Goto(w, "undo", [j EXCEPT !.outcome = "failed"])
        /\ UNCHANGED storeVars

(* The commit failed.  The files of an index are removed, the others left; *)
(* after a conflict the operation is run again from the latest version.    *)
Undo(w) ==
    LET j == job[w]
        again == [NoJob EXCEPT !.kind = j.kind, !.handle = j.handle, !.since = j.since, !.txns = j.txns,
                               !.tries = j.tries + 1]
    IN  /\ pc[w] = "undo"
        /\ files' = IF j.kind = "CreateIndex" THEN Without(files, j.wrote) ELSE files
        /\ IF j.outcome = "conflict" /\ j.kind \notin Appends /\ j.tries + 1 < Tries THEN Goto(w, "read", again)
           ELSE Return(w, "failed")
        /\ UNCHANGED <<manifests, published>>

(* A writer stops wherever it is, and what it wrote stays. *)
Crash(w) ==
    /\ pc[w] \notin {"idle", "crashed"}
    /\ Goto(w, "crashed", NoJob)
    /\ UNCHANGED storeVars

-----------------------------------------------------------------------------
Init ==
    /\ manifests = InitialVersions
    /\ files = [x \in UNION {m.files \cup {m.txn} : m \in Range(InitialVersions)} |-> 0]
    /\ now = 0
    /\ pc = [w \in Writers |-> "idle"]
    /\ step = [w \in Writers |-> 0]
    /\ job = [w \in Writers |-> NoJob]
    /\ published = {<<v, <<"initial", v>>>> : v \in DOMAIN InitialVersions}
    /\ results = [w \in Writers |-> << >>]

Publishing(w) ==
    \/ CommitNext(w) \/ CommitAgain(w) \/ PutWins(w) \/ PutLoses(w) \/ LoseRequest(w) \/ LoseReply(w) \/ GiveUp(w)
    \/ Taken(w) \/ DropTxn(w)
Write(w) ==
    \/ Start(w) \/ Read(w) \/ WriteFiles(w) \/ List(w) \/ Prior(w) \/ Publishing(w)
    \/ Rebase(w) \/ Undo(w) \/ Crash(w)

Next == \E w \in Writers : Write(w)

Spec == Init /\ [][Next]_vars

-----------------------------------------------------------------------------
(* Every manifest and every job holds what its kind of record holds, and a *)
(* writer that is not at work holds nothing.                               *)
StorageTypeOK ==
    /\ DOMAIN manifests \subseteq Nat \ {0} /\ DOMAIN manifests # {}
    /\ \A v \in DOMAIN manifests : /\ manifests[v].kind \in Kinds
                                   /\ \A f \in manifests[v].files : f[1] \in {"data", "index"}
                                   /\ manifests[v].txn[1] = "txn"
    /\ \A f \in DOMAIN files : files[f] \in 0..now
    /\ \A w \in Writers : /\ step[w] \in 0..Len(Script[w])
                          /\ pc[w] \in {"idle", "crashed"} <=> job[w] = NoJob
                          /\ Len(results[w]) = IF pc[w] = "idle" THEN step[w] ELSE step[w] - 1

(* What publishing promises, of the changes in the order of their versions *)
(* after the initial ones, and of what their writers were told.            *)
Changes == UNION {{w} \X (1..Len(Script[w])) : w \in Writers}
Order == [i \in 1..Cardinality({p[1] : p \in published} \ DOMAIN InitialVersions) |->
            (CHOOSE p \in published : p[1] = Len(InitialVersions) + i)[2]]
Reported == [c \in Changes |-> IF c[2] \in DOMAIN results[c[1]] THEN results[c[1]][c[2]] ELSE "nothing"]
Promise == INSTANCE VersionLog WITH log <- Order, reported <- Reported

(* The versions are a log without gaps that a change enters at most once,  *)
(* and its writer learns the truth, whatever requests, replies and writers *)
(* are lost: a create-only PUT that was answered late is not mistaken for  *)
(* another writer's (publish_manifest compares the transaction file).      *)
PublishesOnce == Promise!Spec

(* A commit that was reported as failed left its objects unreferenced      *)
(* (docs/OBJECT_STORE_WRITES.md, 3.2): no manifest was created for it.     *)
FailedIsUnreferenced ==
    \A w \in Writers : \A i \in DOMAIN results[w] :
        results[w][i] = "failed" => ~\E p \in published : p[2] = <<w, i>>

(* A version that can be opened can be read: every data and index file it  *)
(* names, and its transaction file, are there, wherever a writer stopped   *)
(* and whatever a failed commit removed again.                             *)
VersionsComplete ==
    \A v \in DOMAIN manifests : manifests[v].files \cup {manifests[v].txn} \subseteq DOMAIN files
=============================================================================
