----------------------------- MODULE MCPrivacy -----------------------------
(* Two submissions of two visitors, one of them perhaps sealed long ago. *)
EXTENDS Privacy
MCOwner == "n1" :> "ann" @@ "n2" :> "bob"
=============================================================================
