-------------------------- MODULE MCDashboardReads --------------------------
(* Two machines whose agents push what heartbeat and system collect; a push *)
(* may carry no metric at all, when the exporter offers none that is known. *)
EXTENDS DashboardReads, TLC

CONSTANTS up, total, avail, heartbeat, system, memory

MCModuleOf == [n \in Name |-> IF n = up THEN heartbeat ELSE system]
MCCarries == {{}, {up, total, avail}}
\* The two ends of what the skew check lets through; heartbeat collects first.
MCOffsets == {(heartbeat :> -(Skew + Delay) @@ system :> -Skew),
              (heartbeat :> Skew @@ system :> Skew)}

MCNeeds == memory :> {total, avail}

Symmetry == Permutations(Handler)
=============================================================================
