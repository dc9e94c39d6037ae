----------------------------- MODULE MCWsBridge -----------------------------
(* Two orders; two clients track the first one, a third tracks all. *)
EXTENDS WsBridge

CONSTANTS o1, o2, s1, s2, s3

MCPath == s1 :> o1 @@ s2 :> o1 @@ s3 :> "all"
=============================================================================
