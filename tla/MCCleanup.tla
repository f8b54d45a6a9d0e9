------------------------------ MODULE MCCleanup ------------------------------
(* Writers beside a cleaner, from a dataset with two versions. *)
EXTENDS Cleanup, TLC

CONSTANTS w1, w2, k1

Version(n) == [NoManifest EXCEPT !.kind = "Append", !.files = {<<"data", w1, 0, n>>}, !.txn = <<"txn", w1, 0, n>>]
TwoVersions == <<Version(1), Version(2)>>
ThreeVersions == <<Version(1), Version(2), Version(3)>>

CleanupScript == (w1 :> <<{"Overwrite"}, {"CreateIndex"}>>) @@ (w2 :> <<{"Update"}>>)
CheckoutScript == (w1 :> <<{"Update"}>>) @@ (w2 :> << >>)
=============================================================================
