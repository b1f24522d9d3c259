---------------------------- MODULE MCConfigSync ----------------------------
(* Instances of ConfigSync for TLC. *)
EXTENDS ConfigSync, TLC

\* No agent bears the identifier of a seeded node, or every agent that of one
\* which SeedDemo shows behind (seed.go:13-14).
MCNew == [n \in Nodes |-> Absent]
MCPending == [n \in Nodes |-> [sync |-> "PENDING_UPDATE", ver |-> FirstSeq - 1]]

\* Agents, stream slots and REST handlers are interchangeable.
Symmetry == Permutations(Nodes) \cup Permutations(Streams) \cup Permutations(Handlers)
=============================================================================
