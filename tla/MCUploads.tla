------------------------------ MODULE MCUploads ------------------------------
(***************************************************************************)
(* Uploads of the same two bytes: two under one idempotency key and one    *)
(* under another.                                                          *)
(***************************************************************************)
EXTENDS Uploads, TLC

CONSTANTS u1, u2, u3

MCContent == [u \in Upload |-> <<"x", "y">>]
MCKeys == [u \in Upload |-> IF u = u3 THEN 2 ELSE 1]

\* Requests are interchangeable, and so are the uploads under one key.
MCSymmetry == Permutations(Request) \cup Permutations({u1, u2})

=============================================================================
