---------------------------- MODULE MCThreadPool ----------------------------
(* Two outside threads share a pool of two; a task of each outer job calls *)
(* for_each again.                                                         *)
EXTENDS ThreadPool, TLC

CONSTANTS a, b, c, w1, w2

MCJob == {a, b, c}
MCWorker == {w1, w2}
MCN == (a :> 2) @@ (b :> 2) @@ (c :> 2)
MCSub == (a :> (0 :> NoJob @@ 1 :> c)) @@ (b :> (0 :> NoJob @@ 1 :> NoJob)) @@ (c :> (0 :> NoJob @@ 1 :> NoJob))
MCFails == {<<c, 1>>, <<b, 0>>}
=============================================================================
