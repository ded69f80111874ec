---------------------------- MODULE MCLoadBuffer ----------------------------
(***************************************************************************)
(* LoadBuffer for TLC: sizes on both sides of every limit and of a page.    *)
(***************************************************************************)
EXTENDS LoadBuffer

MCSizes == {0, 1, 511, 512, 513, 4095, 4096, 4097, 8192,
            MAX_AIOP_IMAGE_FILE_SZ - 1, MAX_AIOP_IMAGE_FILE_SZ, MAX_AIOP_IMAGE_FILE_SZ + 1}

=============================================================================
