------------------------------ MODULE PushLog -------------------------------
(***************************************************************************)
(* What the ingestion of pushes promises, without handlers, cache,         *)
(* transactions or restarts: an append-only log that holds each push at    *)
(* most once, and acknowledgements given at most once per push and only    *)
(* for pushes in the log.                                                  *)
(***************************************************************************)
EXTENDS Sequences, SequencesExt

CONSTANT Nonce

VARIABLES pushed,       \* nonces agents have used
          log,          \* the stored pushes, oldest first
          acked         \* nonces answered 200

vars == <<pushed, log, acked>>

Init == pushed = {} /\ log = <<>> /\ acked = {}

Push(n) == /\ n \notin pushed
           /\ pushed' = pushed \cup {n}
           /\ UNCHANGED <<log, acked>>

Store(n) == /\ n \in pushed \ ToSet(log)
            /\ log' = Append(log, n)
            /\ UNCHANGED <<pushed, acked>>

Ack(n) == /\ n \in ToSet(log) \ acked
          /\ acked' = acked \cup {n}
          /\ UNCHANGED <<pushed, log>>

Next == \E n \in Nonce : Push(n) \/ Store(n) \/ Ack(n)

Spec == Init /\ [][Next]_vars
=============================================================================
