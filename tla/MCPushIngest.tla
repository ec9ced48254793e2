---------------------------- MODULE MCPushIngest ----------------------------
(* Installations for the runs on PushIngest.  One unit of time is a minute:  *)
(* timestampSkew = 1 and nonceTTL = 5 as in server.go:26-27.                *)
EXTENDS PushIngest, TLC

CONSTANTS vps, nas, k1, k2, ahead, cn, key, unknown, large, old, clock

Installed == [machine |-> vps, cn |-> vps, key |-> k1, version |-> 1,
              fits |-> TRUE, offset |-> 0]

\* A well installed agent whose clock runs ahead by the whole skew, so that its
\* pushes stay acceptable for twice the skew, next to six that the server must
\* refuse, or refuse for a while.
MixedConfig ==
    [a \in Agent |->
        CASE a = ahead   -> [Installed EXCEPT !.offset = Skew]
          [] a = cn      -> [Installed EXCEPT !.cn = nas]
          [] a = key     -> [Installed EXCEPT !.key = k2]
          [] a = unknown -> [Installed EXCEPT !.machine = nas, !.cn = nas]
          [] a = large   -> [Installed EXCEPT !.fits = FALSE]
          [] a = old     -> [Installed EXCEPT !.version = 0]
          [] a = clock   -> [Installed EXCEPT !.offset = 2 * Skew]]

TwoConfig == [a \in Agent |->
    IF a = ahead THEN [Installed EXCEPT !.offset = Skew]
    ELSE [Installed EXCEPT !.machine = nas, !.cn = nas, !.key = k2]]

TwoKeys == vps :> k1 @@ nas :> k2
OneKey == vps :> k1

Symmetry == Permutations(Handler) \cup Permutations(Nonce)
=============================================================================
