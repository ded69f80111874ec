----------------------------- MODULE MCToolRuns -----------------------------
(***************************************************************************)
(* ToolRuns for TLC: three runs, so that two compete while a third works or *)
(* waits in its load.                                                     *)
(***************************************************************************)
EXTENDS ToolRuns

CONSTANTS r1, r2, r3

MCRuns == {r1, r2, r3}

=============================================================================
