----------------------------- MODULE MCMcPortal -----------------------------
(***************************************************************************)
(* McPortal for TLC: two runs of the tool, a portal of three parameter     *)
(* registers (a first, a middle and a last one to tear apart) and one answer *)
(* of each kind: OK, an error, a status the tool does not know.            *)
(***************************************************************************)
EXTENDS McPortal

CONSTANTS h1, h2

MCHosts   == {h1, h2}
MCReplies == {"OK", "BUSY", "UNKNOWN"}

=============================================================================
