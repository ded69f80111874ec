------------------------------ MODULE MCMcCmd -------------------------------
(***************************************************************************)
(* McCmd for TLC.  The values hold the boundary bits of every field (0, 7,  *)
(* 8, 15, 16, 31, 32, 63) set and clear, among them a negative int; the     *)
(* flags include every bit, the ones outside the mask too.                 *)
(***************************************************************************)
EXTENDS McCmd

MCFlags  == {{}, {8, 15, 24, 31}, 0..31}
MCTokens == {{0}, 0..15}
MCValues == {{}, {0, 7, 31, 63}, 1..62, 0..63}
MCJunk   == {{}, 0..63}

=============================================================================
