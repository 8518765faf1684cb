----------------------------- MODULE MC_Sessions -----------------------------
(***************************************************************************)
(* UserSessions on small instances.                                        *)
(***************************************************************************)
EXTENDS UserSessions

CONSTANTS u1, u2

AllToU1 == [m \in Message |-> u1]

=============================================================================
