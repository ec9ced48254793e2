---------------------------- MODULE MCAgentLoop -----------------------------
(* heartbeat and system, the two modules of the repository. *)
EXTENDS AgentLoop

CONSTANTS heartbeat, system

MCModules == <<heartbeat, system>>

\* heartbeat needs no setting; system needs the URL of its exporter.
MCInstalls == {c \in [{heartbeat, system} -> Setup] : c[heartbeat] \in {"disabled", "good"}}
=============================================================================
