--------------------------- MODULE MCIdempotency ---------------------------
(* Idempotency on a small instance: two keys, one of them with expiry; the  *)
(* programs repeat a key, cross the keys in both orders, and differ in      *)
(* their fingerprints or have none.                                         *)
EXTENDS Idempotency

CONSTANTS k1, k2, f1, f2

Call(k, f) == [key |-> k, fp |-> f]

MCPrograms == {<<Call(k1, f2), Call(k1, f2)>>,
               <<Call(k1, f1), Call(k2, f1)>>,
               <<Call(k2, NoFingerprint), Call(k1, f1)>>}
=============================================================================
