-------------------------- MODULE MCChunkedUpload ---------------------------
(* Two images of different lengths, one schedule task, one id to hand out. *)
EXTENDS ChunkedUpload, TLC
CONSTANTS p, q, s1

MCPayloads == {p, q}
MCPayloadLen == (p :> 2) @@ (q :> 3)
=============================================================================
