---------------------------- MODULE MCAiopDevices ----------------------------
(***************************************************************************)
(* AiopDevices for TLC: the empty directory and every one of three entries,*)
(* with several objects of each kind in any order and entries that are none;*)
(* three calls of aiopt_init, on descriptors for fewer.                    *)
(***************************************************************************)
EXTENDS AiopDevices

Entries == {[kind |-> "dpmcp", link |-> TRUE, id |-> 3], [kind |-> "dpmcp", link |-> TRUE, id |-> 4],
            [kind |-> "dpaiop", link |-> TRUE, id |-> 0], [kind |-> "dpaiop", link |-> TRUE, id |-> 1],
            [kind |-> "dpaiop", link |-> FALSE, id |-> 2], [kind |-> "dpni", link |-> TRUE, id |-> 0]}

MCDirectories == UNION {[1..n -> Entries] : n \in {0, 3}}

=============================================================================
