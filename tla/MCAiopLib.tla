----------------------------- MODULE MCAiopLib ------------------------------
(***************************************************************************)
(* AiopLib for TLC: two session tokens, so that one session can be leaked   *)
(* while another is open, and both can be leaked so that open must fail.    *)
(***************************************************************************)
EXTENDS AiopLib

CONSTANTS t1, t2

MCTokens == {t1, t2}

=============================================================================
