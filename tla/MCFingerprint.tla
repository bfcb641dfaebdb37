--------------------------- MODULE MCFingerprint ---------------------------
(***************************************************************************)
(* Short fingerprints of bytes whose bits differ at both ends, so that all *)
(* three lengths of the last group and all shifts occur, and one of 32     *)
(* bytes, the length of SHA-256.  BufferSize has to leave TLC's integers   *)
(* room for one shift.                                                     *)
(***************************************************************************)
EXTENDS Fingerprint

MCBytes == {0, 1, 126, 128, 255}
MCFingerprints ==
    UNION { [1 .. n -> MCBytes] : n \in 1 .. 4 }
        \cup { [i \in 1 .. 32 |-> (i * k) % 256] : k \in {37, 101, 255} }

=============================================================================
