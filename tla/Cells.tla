---------------------------- MODULE Cells ----------------------------
(***************************************************************************)
(* The bytes of flash and of a stream: a plain byte, or the k-th byte of   *)
(* the checksum or digest of some bytes, which equals no other byte.  That *)
(* two bodies share one is left out.                                       *)
(***************************************************************************)
EXTENDS Integers, Sequences, SequencesExt

Byte(n) == [n |-> n, of |-> <<>>]
Bytes(ns) == [i \in DOMAIN ns |-> Byte(ns[i])]
Summed(body, k) == [n |-> 255 + k, of |-> body]
FF == Byte(255)
=============================================================================
