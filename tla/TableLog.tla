------------------------------ MODULE TableLog ------------------------------
(***************************************************************************)
(* What the clients of a table are promised: the table is a log of         *)
(* versions, each a set of rows and a configuration, and a call that       *)
(* returns "committed" took effect once, as one new version, while one     *)
(* that failed left nothing.  A delete, update or merge insert takes       *)
(* effect as it was computed from one version, no older than the one the   *)
(* caller had, and only if the rows it replaces are all still there        *)
(* (snapshot isolation, first committer wins).                             *)
(***************************************************************************)
EXTENDS Integers, Sequences

CONSTANTS Clients, Calls, NoCall

VARIABLES
    log,        \* the versions: [rows, config]
    call,       \* what each client is doing, NoCall when nothing
    step,       \* how many calls each client has begun
    from,       \* the oldest version its call may be computed from
    results     \* what its calls returned

vars == <<log, call, step, from, results>>

Last == log[Len(log)]
Row(k, by) == [key |-> k, by |-> by]

(* The rows a call may replace, and those it writes instead, as computed   *)
(* from the rows `seen` of one version; a merge insert replaces one row of *)
(* each key of its source.                                                 *)
Replaced(k, seen) ==
    LET matched == {r \in seen : r.key \in k.keys}
        unmatched == IF k.delete_unmatched THEN seen \ matched ELSE {}
        present == {r.key : r \in matched}
        one_of_each == {S \in SUBSET matched : \A x \in present : \E r \in S : /\ r.key = x
                                                  /\ \A q \in S : q.key = x => q = r}
    IN  CASE k.op \in {"Delete", "Update"} -> {matched}
          [] k.op = "MergeInsert" ->
               IF k.when_matched = "DoNothing" THEN {unmatched} ELSE {S \cup unmatched : S \in one_of_each}

Written(k, seen, replaced, me) ==
    LET present == {r.key : r \in seen}
    IN  CASE k.op = "Delete" -> {}
          [] k.op = "Update" -> {[r EXCEPT !.by = Append(@, me)] : r \in replaced}
          [] k.op = "MergeInsert" ->
               {Row(x, <<me>>) : x \in {y \in k.keys : \/ y \in present /\ k.when_matched = "UpdateAll"
                                                       \/ y \notin present /\ k.insert}}

(* What call `k` may make of the latest version.  A setting that the       *)
(* version it was computed from already had changes nothing.               *)
Effects(k, me, oldest) ==
    LET source == {Row(x, <<me>>) : x \in k.keys}
    IN  CASE k.op \in {"Delete", "Update", "MergeInsert"} ->
               UNION {{[Last EXCEPT !.rows = (@ \ R) \cup Written(k, log[s].rows, R, me)] :
                         R \in {S \in Replaced(k, log[s].rows) : S \subseteq Last.rows}} : s \in oldest..Len(log)}
          [] k.op = "Append" -> {[Last EXCEPT !.rows = @ \cup source]}
          [] k.op = "Overwrite" -> {[Last EXCEPT !.rows = source]}
          [] k.op = "Restore" -> {log[k.version]}
          [] k.op = "Config" ->
               {[Last EXCEPT !.config = [x \in DOMAIN @ \cup {k.key} |-> IF x = k.key THEN k.value ELSE @[x]]]} \cup
               {Last : s \in {s \in oldest..Len(log) : k.key \in DOMAIN log[s].config /\ log[s].config[k.key] = k.value}}
          [] OTHER -> {Last}

Begin(c) ==
    /\ call[c] = NoCall
    /\ \E k \in Calls :
         /\ call' = [call EXCEPT ![c] = k]
         /\ from' = [from EXCEPT ![c] = IF k.read = 0 THEN Len(log) ELSE k.read]
    /\ step' = [step EXCEPT ![c] = @ + 1]
    /\ UNCHANGED <<log, results>>

Return(c, result) ==
    /\ call[c] # NoCall
    /\ call' = [call EXCEPT ![c] = NoCall]
    /\ from' = [from EXCEPT ![c] = 0]
    /\ results' = [results EXCEPT ![c] = Append(@, result)]
    /\ UNCHANGED step

Apply(c) ==
    /\ \E e \in Effects(call[c], <<c, step[c]>>, from[c]) : log' = Append(log, e)
    /\ Return(c, "committed")

Fail(c) == Return(c, "failed") /\ UNCHANGED log

(* A compaction may commit any number of versions with the same rows, and  *)
(* it and an index optimization may find nothing to do.                    *)
Maintains(k) == k.op \in {"Compact", "Optimize"}
Maintain(c) ==
    /\ Maintains(call[c])
    /\ log' = Append(log, Last)
    /\ UNCHANGED <<call, step, from, results>>
Nothing(c) == Maintains(call[c]) /\ Return(c, "committed") /\ UNCHANGED log

Init ==
    /\ Len(log) > 0
    /\ call = [c \in Clients |-> NoCall]
    /\ step = [c \in Clients |-> 0]
    /\ from = [c \in Clients |-> 0]
    /\ results = [c \in Clients |-> << >>]

Next == \E c \in Clients : Begin(c) \/ Apply(c) \/ Fail(c) \/ Maintain(c) \/ Nothing(c)

Spec == Init /\ [][Next]_vars
=============================================================================
