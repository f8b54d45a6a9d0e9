------------------------------ MODULE MCPublish ------------------------------
(* Two writers on an object store, from a dataset with one version. *)
EXTENDS Storage, TLC

CONSTANTS w1, w2

OneVersion == <<[NoManifest EXCEPT !.kind = "Append", !.files = {<<"data", w1, 0, 1>>}, !.txn = <<"txn", w1, 0, 1>>]>>
PublishScript == (w1 :> <<{"Append", "Overwrite"}, {"CreateIndex"}>>) @@ (w2 :> <<{"Update"}, {"Restore", "CreateIndex"}>>)
IndexScript == (w1 :> <<{"CreateIndex"}>>) @@ (w2 :> << >>)
=============================================================================
