------------------------------- MODULE MCBatches -------------------------------
(* A small instance of Batches: two calls, one of them with a line that    *)
(* fails to build between two that do not, and two uploads.                *)
EXTENDS Batches, TLC

CONSTANTS c1, c2, f1, f2, s1

MCCalls == {c1, c2}
MCUploads == {f1, f2}
MCStreams == {s1}
MCLines == (f1 :> <<"good", "bad", "good">>) @@ (f2 :> <<"good", "cut">>)
MCInput == (c1 :> f1) @@ (c2 :> f2)
=============================================================================
