---------------------------- MODULE MCNonceCache ----------------------------
(* Two nonces, two handlers and the evictor, on a clock that lets a nonce  *)
(* be recorded, expire, be evicted and be recorded again.                  *)
EXTENDS NonceCache, TLC

Symmetry == Permutations(Nonce) \cup Permutations(Caller)
=============================================================================
