------------------------------- MODULE Cleanup -------------------------------
(***************************************************************************)
(* Cleanups beside the writers of Storage: cleanup_old_versions            *)
(* (src/table/dataset_refs.cpp), called by a user or, by run_auto_cleanup, *)
(* after a commit.  A cleanup lists and loads the manifests, lists the     *)
(* other files, and then removes one object after another; it may stop     *)
(* anywhere.  Files a manifest does not name yet are told from garbage by  *)
(* their age alone.                                                        *)
(*                                                                         *)
(* Time is in ticks.  Branches and detached versions are left out, and     *)
(* tags are not created or removed while a cleanup runs.                   *)
(***************************************************************************)
EXTENDS Storage

CONSTANTS
    Cleaners,
    Cleanups,           \* how many cleanups each runs
    OlderThan,          \* the policy: versions committed longer ago than this,
    Retain,             \* and not among the newest Retain
    DeleteUnverified,   \* CleanupPolicy::delete_unverified
    Tagged,             \* the versions with a tag
    Threshold,          \* kUnverifiedThresholdNs: 7 days
    MaxTime,
    Deadline            \* how long a writer takes, from opening its handle, for one
                        \* change, and a cleanup for everything but its removals

ASSUME PolicyAssumption ==
    /\ OlderThan \in Nat /\ Retain \in Nat \ {0} /\ DeleteUnverified \in BOOLEAN /\ Tagged \subseteq Nat
    /\ Cleanups \in Nat /\ Threshold \in Nat /\ MaxTime \in Nat /\ Deadline \in Nat

VARIABLES
    clean,      \* what each cleaner is doing
    runs        \* how many cleanups each has begun

cleanupVars == <<vars, clean, runs>>

NoClean == [at |-> "idle", since |-> 0, read |-> 0, older |-> 0, before |-> 0, listed |-> {}, old |-> {},
            referenced |-> {}, verified |-> {}, all |-> FALSE, cutoff |-> 0, garbage |-> {}]

Step(k, c) == /\ clean' = [clean EXCEPT ![k] = c]
              /\ UNCHANGED <<now, pc, step, job, published, results, runs>>

(* cleanup_retain_versions: the first of the newest Retain versions. *)
RetainedFrom == LET newest == {v \in DOMAIN manifests : Cardinality({x \in DOMAIN manifests : x >= v}) <= Retain}
                IN  Min(newest)

(* The policy, as of the latest version, or of the one before it when the  *)
(* cleanup follows a commit.                                               *)
BeginCleanup(k) ==
    /\ clean[k].at = "idle"
    /\ runs[k] < Cleanups
    /\ runs' = [runs EXCEPT ![k] = @ + 1]
    /\ \E v \in {Latest, Latest - 1} \cap DOMAIN manifests :
         clean' = [clean EXCEPT ![k] = [NoClean EXCEPT !.at = "list", !.since = now, !.read = v, !.older = now - OlderThan,
                                                       !.before = RetainedFrom]]
    /\ UNCHANGED vars

ListVersions(k) ==
    /\ clean[k].at = "list"
    /\ Step(k, [clean[k] EXCEPT !.at = "load", !.listed = DOMAIN manifests])
    /\ UNCHANGED <<manifests, files>>

(* Whether a version goes. *)
(* Mutant: the policy looks at the count alone. *)
selected_by_count(c, v) == v < c.before
selected(c, v) == manifests[v].stamp < c.older /\ v < c.before
(* Mutant: tags are not looked up. *)
KeepsUntagged(c, v) == c.read <= v \/ ~selected(c, v)
Keeps(c, v) == c.read <= v \/ ~selected(c, v) \/ v \in Tagged

reference(versions) == UNION {manifests[v].files \cup {manifests[v].txn} : v \in versions}
Stamps(versions) == {manifests[v].stamp : v \in versions}

(* Every manifest listed is read: those kept say which files are in use,   *)
(* those removed vouch for theirs.  One that another cleanup removed since *)
(* is passed over, unless it was to be kept.                               *)
LoadVersions(k) ==
    LET c == clean[k]
        there == c.listed \cap DOMAIN manifests
        kept == {v \in there : Keeps(c, v)}
        old == there \ kept
        bounded == kept # {} /\ (old = {} \/ Max(Stamps(old)) <= Min(Stamps(kept)))
    IN  /\ c.at = "load"
        /\ IF \E v \in c.listed \ there : v >= c.read THEN Step(k, NoClean)
           ELSE Step(k, [c EXCEPT !.at = "walk", !.listed = {}, !.old = old,
                                  !.referenced = reference(kept), !.verified = reference(old),
                                  !.all = ~bounded, !.cutoff = IF bounded THEN Min(Stamps(kept)) ELSE 0])
        /\ UNCHANGED <<manifests, files>>

(* A file not in use goes when no write in progress can have made it, by   *)
(* its age, or when a version that goes names it.  Those written after the *)
(* earliest version kept are not looked at, index files excepted.          *)
Considered(c, f) == c.all \/ f[1] = "index" \/ files[f] <= c.cutoff
maybe_in_progress(f) == ~DeleteUnverified /\ now - files[f] < Threshold
(* Mutant: every file no version names is garbage. *)
removable_unreferenced(c, f) == f \notin c.referenced
removable_kind(c, f) == f \notin c.referenced /\ (~maybe_in_progress(f) \/ f \in c.verified)

Walk(k) ==
    LET c == clean[k]
    IN  /\ c.at = "walk"
        /\ Step(k, [c EXCEPT !.at = "remove", !.referenced = {}, !.verified = {},
                             !.garbage = {f \in DOMAIN files : Considered(c, f) /\ removable_kind(c, f)}])
        /\ UNCHANGED <<manifests, files>>

(* The manifests are removed first, and then the files. *)
RemoveManifest(k) ==
    /\ clean[k].at = "remove"
    /\ clean[k].old # {}
    /\ LET v == Max(clean[k].old)      \* V2 names list the newest first
       IN  /\ manifests' = Without(manifests, {v})
           /\ Step(k, [clean[k] EXCEPT !.old = @ \ {v}])
    /\ UNCHANGED files

RemoveFile(k) ==
    /\ clean[k].at = "remove"
    /\ clean[k].old = {} /\ clean[k].garbage # {}
    /\ LET f == CHOOSE x \in clean[k].garbage : TRUE      \* the order of the listing
       IN  /\ files' = Without(files, {f})
           /\ Step(k, [clean[k] EXCEPT !.garbage = @ \ {f}])
    /\ UNCHANGED manifests

(* A cleanup ends when it has removed everything, or crashes, or cannot    *)
(* remove a file.                                                          *)
EndCleanup(k) ==
    /\ clean[k].at # "idle"
    /\ Step(k, NoClean)
    /\ UNCHANGED <<manifests, files>>

Clean(k) == \/ BeginCleanup(k) \/ ListVersions(k) \/ LoadVersions(k) \/ Walk(k)
            \/ RemoveManifest(k) \/ RemoveFile(k) \/ EndCleanup(k)

-----------------------------------------------------------------------------
(* Time passes, but not so much that a writer at work, or a cleanup that   *)
(* has not settled what goes, is older than Deadline.                      *)
Since == {job[w].since : w \in {x \in Writers : pc[x] \notin {"idle", "crashed"}}} \cup
         {clean[k].since : k \in {x \in Cleaners : clean[x].at \in {"list", "load", "walk"}}}
Tick ==
    /\ now < MaxTime
    /\ \A t \in Since : now - t < Deadline
    /\ now' = now + 1
    /\ UNCHANGED <<manifests, files, pc, step, job, published, results, clean, runs>>

CleanupInit == Init /\ clean = [k \in Cleaners |-> NoClean] /\ runs = [k \in Cleaners |-> 0]
CleanupNext ==
    \/ \E w \in Writers : Write(w) /\ UNCHANGED <<clean, runs>>
    \/ \E k \in Cleaners : Clean(k)
    \/ Tick
CleanupSpec == CleanupInit /\ [][CleanupNext]_cleanupVars

-----------------------------------------------------------------------------
(* A version number is given out once: publish_manifest never creates the  *)
(* manifest of a version another change was published as, even when a      *)
(* cleanup has removed that manifest since.                                *)
OneCommitPerVersion == \A p, q \in published : p[1] = q[1] => p[2] = q[2]

(* A change its writer was told is committed is part of the latest version:*)
(* no commit is built on, or published behind, a version that lacks it.    *)
CommitsSurvive ==
    \A w \in Writers : \A i \in DOMAIN results[w] :
        results[w][i] = "committed" => <<w, i>> \in manifests[Latest].past

(* No cleanup removes the latest version, or a tagged one; so the latest   *)
(* version's number never goes back.                                       *)
KeepsLatestAndTagged ==
    [][/\ Latest' >= Latest
       /\ DOMAIN manifests \cap (Tagged \cup {Latest}) \subseteq DOMAIN manifests']_cleanupVars
=============================================================================
