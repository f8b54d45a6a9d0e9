----------------------------- MODULE VersionLog -----------------------------
(***************************************************************************)
(* What publishing a change promises: the versions are a log, a change     *)
(* enters it at most once, at its end, and the writer is told the truth: a *)
(* change reported "committed" is in the log, and one reported "failed" is *)
(* not and never will be.                                                  *)
(***************************************************************************)
EXTENDS Sequences

CONSTANT Changes

VARIABLES
    log,        \* the changes, in the order of their versions
    reported    \* what the writer of a change was told

vars == <<log, reported>>

InLog(c) == \E i \in DOMAIN log : log[i] = c
Tell(c, result) == reported' = [reported EXCEPT ![c] = result]

Commit(c) ==
    /\ ~InLog(c)
    /\ reported[c] = "nothing"
    /\ log' = Append(log, c)
    /\ UNCHANGED reported \/ Tell(c, "committed")

Report(c) ==
    /\ reported[c] = "nothing"
    /\ Tell(c, IF InLog(c) THEN "committed" ELSE "failed")
    /\ UNCHANGED log

Init == log = << >> /\ reported = [c \in Changes |-> "nothing"]

Next == \E c \in Changes : Commit(c) \/ Report(c)

Spec == Init /\ [][Next]_vars
=============================================================================
