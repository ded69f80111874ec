----------------------------- MODULE AiopDevices -----------------------------
(***************************************************************************)
(* How aiopt_init finds its objects, src/aiop_lib.c: setup_aiopt_device     *)
(* reads the directory of the IOMMU group and takes the first dpmcp and the *)
(* first dpaiop, whose names, ids and descriptors fill_obj_info keeps in    *)
(* the handle.  A process may call aiopt_init and aiopt_deinit again and    *)
(* again; its descriptors, which nothing closes, and its memory add up.     *)
(*                                                                         *)
(* A string is the block it is allocated in and the entry it names.  Any    *)
(* allocation or system call may fail, and objects may be unplugged after   *)
(* they were listed.                                                        *)
(***************************************************************************)
EXTENDS Integers, Sequences, FiniteSets

CONSTANTS
  Directories,  \* what opendir may list: sequences of Listed
  MaxFds,       \* descriptors a process may have open
  MaxInits      \* bound on the calls of aiopt_init

Types == {"MCP_TYPE", "AIOP_TYPE"}
Kind  == [t \in Types |-> IF t = "MCP_TYPE" THEN "dpmcp" ELSE "dpaiop"]

Listed == [kind : STRING, link : BOOLEAN, id : Nat]

ASSUME DirectoriesAssumption == Directories \subseteq Seq(Listed)
ASSUME BoundsAssumption == MaxFds \in Nat /\ MaxInits \in Nat

VARIABLES
  pc,           \* next step, or "idle"
  obj,          \* "none", "building", "ready", or "ended" after aiopt_deinit
  devices,      \* name and id of each type
  listing, pos, \* the directory and how many of its entries were read
  avail,        \* mcp_avail and aiop_avail
  type,         \* what fill_obj_info is filling
  dir_c, p,     \* its local copies
  heap,         \* blocks in use
  vfio,         \* fsl_vfio_setup has its group, container and device
  dirs, devs,   \* directories and object descriptors that are open
  inits, failed \* history: calls of aiopt_init, and those that failed

scan == <<listing, pos, avail, type>>
fill == <<dir_c, p, heap>>
open == <<vfio, dirs, devs>>
hist == <<inits, failed>>
vars == <<pc, obj, devices, scan, fill, open, hist>>

NULL == [call |-> 0, entry |-> 0, of |-> "nothing"]
ForgetScan == listing' = <<>> /\ pos' = 0 /\ avail' = {} /\ type' = "MCP_TYPE"
NoDevices == [t \in Types |-> [name |-> NULL, id |-> 0]]

Init ==
  /\ pc = "idle" /\ obj = "none" /\ devices = NoDevices
  /\ listing = <<>> /\ pos = 0 /\ avail = {} /\ type = "MCP_TYPE"
  /\ dir_c = NULL /\ p = NULL /\ heap = {}
  /\ vfio = FALSE /\ dirs = 0 /\ devs = 0 /\ inits = 0 /\ failed = 0

Used == (IF vfio THEN 3 ELSE 0) + dirs + devs
Free == Used < MaxFds

Goto(from, to) == pc = from /\ pc' = to

-----------------------------------------------------------------------------
(* A definition whose name ends in an underscore and a fault is a faulty    *)
(* form of the one after it; no behaviour uses it.                          *)

\* The entry is a link to an object of type t that was not taken yet.
Wanted_Any(t, e) == e.link /\ e.kind = Kind[t]
Wanted(t, e) == e.link /\ e.kind = Kind[t] /\ t \notin avail

\* cleanup_aiopt_obj frees a name and forgets it.
Cleaned_Dangling(d) == d
Cleaned(d) == [t \in Types |-> [d[t] EXCEPT !.name = NULL]]

\* Directories open after the last entry was read.
DirsLeft_All == dirs
DirsLeft == dirs - 1

Names == {devices[t].name : t \in Types} \ {NULL}

-----------------------------------------------------------------------------
(* aiopt_init                                                               *)

Call ==
  /\ inits < MaxInits /\ obj \in {"none", "ended"}
  /\ Goto("idle", "vfio")
  /\ obj' = "building" /\ devices' = NoDevices
  /\ inits' = inits + 1
  /\ UNCHANGED <<scan, fill, open, failed>>

Fails == pc' = "idle" /\ obj' = "none" /\ failed' = failed + 1 /\ ForgetScan

\* fsl_vfio_setup finds its group again once it was set up.
SetupVfio ==
  /\ pc = "vfio"
  /\ \/ /\ vfio \/ Used + 3 <= MaxFds
        /\ vfio' = TRUE /\ pc' = "opendir" /\ UNCHANGED <<obj, scan, failed>>
     \/ ~vfio /\ Fails /\ UNCHANGED vfio
  /\ UNCHANGED <<devices, fill, dirs, devs, inits>>

\* The first return of setup_aiopt_device; there is nothing to clean up yet.
OpenDir ==
  /\ pc = "opendir"
  /\ \/ /\ Free /\ dirs' = dirs + 1
        /\ listing' \in Directories /\ pos' = 0 /\ avail' = {}
        /\ pc' = "readdir" /\ UNCHANGED <<obj, type, failed>>
     \/ Fails /\ UNCHANGED dirs
  /\ UNCHANGED <<devices, fill, vfio, devs, inits>>

\* readdir and the tests on the entry.
Read ==
  /\ pc = "readdir" /\ pos < Len(listing)
  /\ pos' = pos + 1
  /\ \/ \E t \in Types : Wanted(t, listing[pos + 1]) /\ type' = t /\ pc' = "copy"
     \/ (\A t \in Types : ~Wanted(t, listing[pos + 1])) /\ UNCHANGED <<pc, type>>
  /\ UNCHANGED <<obj, devices, listing, avail, fill, open, hist>>

CloseDir ==
  /\ pc = "readdir" /\ pos = Len(listing)
  /\ dirs' = DirsLeft
  /\ pc' = IF avail = Types THEN "portal" ELSE "cleanup"
  /\ UNCHANGED <<obj, devices, scan, fill, vfio, devs, hist>>

-----------------------------------------------------------------------------
(* fill_obj_info on entry pos                                               *)

Block(what) == [call |-> inits, entry |-> pos, of |-> what]

\* dir_c, cut up by strtok to find the id
Copy ==
  /\ pc = "copy"
  /\ \/ dir_c' = Block("dir_c") /\ heap' = heap \cup {Block("dir_c")} /\ pc' = "name"
     \/ pc' = "unfill" /\ UNCHANGED <<dir_c, heap>>
  /\ UNCHANGED <<obj, devices, scan, p, open, hist>>

\* p, which becomes the name of the device
Name ==
  /\ pc = "name"
  /\ \/ /\ p' = Block("name") /\ heap' = heap \cup {Block("name")}
        /\ devices' = [devices EXCEPT ![type] = [name |-> Block("name"), id |-> listing[pos].id]]
        /\ pc' = IF type = "AIOP_TYPE" THEN "fd" ELSE "filled"
     \/ pc' = "unfill" /\ UNCHANGED <<p, heap, devices>>
  /\ UNCHANGED <<obj, scan, dir_c, open, hist>>

\* fsl_vfio_get_dev_fd, for the dpaiop only
GetFd ==
  /\ pc = "fd"
  /\ \/ Free /\ devs' = devs + 1 /\ pc' = "info"
     \/ pc' = "unfill" /\ UNCHANGED devs
  /\ UNCHANGED <<obj, devices, scan, fill, vfio, dirs, hist>>

\* fsl_vfio_get_device_info, which opens another descriptor
GetInfo ==
  /\ pc = "info"
  /\ \/ Free /\ devs' = devs + 1 /\ pc' \in {"filled", "unfill"}
     \/ pc' = "unfill" /\ UNCHANGED devs
  /\ UNCHANGED <<obj, devices, scan, fill, vfio, dirs, hist>>

Filled ==
  /\ Goto("filled", "readdir")
  /\ heap' = heap \ {dir_c} /\ dir_c' = NULL /\ p' = NULL
  /\ avail' = avail \cup {type}
  /\ UNCHANGED <<obj, devices, listing, pos, type, open, hist>>

\* err_cleanup of fill_obj_info; the directory stays open.
Unfill ==
  /\ Goto("unfill", "cleanup")
  /\ heap' = heap \ {dir_c, p} /\ dir_c' = NULL /\ p' = NULL
  /\ devices' = IF p # NULL THEN [devices EXCEPT ![type].name = NULL] ELSE devices
  /\ UNCHANGED <<obj, scan, open, hist>>

-----------------------------------------------------------------------------
(* The rest of setup_aiopt_device, and aiopt_deinit                         *)

\* setup_mc_portal: its descriptor is closed again.
Portal ==
  /\ pc = "portal"
  /\ \/ Free /\ pc' = "aiop"
     \/ pc' = "cleanup"
  /\ UNCHANGED <<obj, devices, scan, fill, open, hist>>

\* init_aiop, a session with the MC (AiopLib)
InitAiop ==
  /\ pc = "aiop"
  /\ \/ pc' = "idle" /\ obj' = "ready"
     \/ pc' = "cleanup" /\ UNCHANGED obj
  /\ UNCHANGED <<devices, scan, fill, open, hist>>

\* err_cleanup, and the end of aiopt_init
CleanUp ==
  /\ pc = "cleanup" /\ Fails
  /\ heap' = heap \ Names /\ devices' = Cleaned(devices)
  /\ UNCHANGED <<dir_c, p, open, inits>>

\* aiopt_deinit, once or again: the handle itself is never freed.
Deinit ==
  /\ pc = "idle" /\ UNCHANGED pc
  /\ obj \in {"ready", "ended"} /\ obj' = "ended"
  /\ heap' = heap \ Names /\ devices' = Cleaned(devices)
  /\ ForgetScan
  /\ UNCHANGED <<dir_c, p, open, hist>>

\* The process ends anywhere; the kernel takes everything back.
Exit ==
  /\ inits > 0
  /\ pc' = "idle" /\ obj' = "none" /\ devices' = NoDevices
  /\ ForgetScan
  /\ dir_c' = NULL /\ p' = NULL /\ heap' = {}
  /\ vfio' = FALSE /\ dirs' = 0 /\ devs' = 0 /\ inits' = 0 /\ failed' = 0

Next ==
  \/ Exit
  \/ Call \/ SetupVfio \/ OpenDir \/ Read \/ CloseDir
  \/ Copy \/ Name \/ GetFd \/ GetInfo \/ Filled \/ Unfill
  \/ Portal \/ InitAiop \/ CleanUp \/ Deinit

Spec == Init /\ [][Next]_vars

-----------------------------------------------------------------------------
(* Properties                                                               *)

\* Types; no more descriptors are in use than there are.
TypeOK ==
  /\ pc \in {"idle", "vfio", "opendir", "readdir", "copy", "name", "fd", "info",
             "filled", "unfill", "portal", "aiop", "cleanup"}
  /\ obj \in {"none", "building", "ready", "ended"}
  /\ DOMAIN devices = Types /\ \A t \in Types : devices[t].id \in Nat
  /\ pos \in 0..Len(listing) /\ avail \subseteq Types /\ type \in Types
  /\ vfio \in BOOLEAN /\ dirs \in Nat /\ devs \in Nat /\ Used <= MaxFds
  /\ inits \in 0..MaxInits /\ failed \in 0..inits

\* Every block in use is held by a name of the handle or by a local of the
\* fill in progress, and none of these points to a block that was freed: on no
\* error path, and not by a second aiopt_deinit, is a string lost or freed
\* twice.
NamesAccounted ==
  /\ TypeOK
  /\ heap = Names \cup ({dir_c, p} \ {NULL})

\* aiop_lib.c:461 "only the first occurences of each are taken": once the
\* portal is mapped by the name of the dpmcp and the MC is asked for the id of
\* the dpaiop, both are those of the first link of their kind, name and id of
\* the same entry.
FirstOfEach ==
  pc \in {"portal", "aiop"} \/ obj = "ready" =>
    \A t \in Types : \E k \in 1..Len(listing) :
      /\ listing[k].link /\ listing[k].kind = Kind[t]
      /\ \A j \in 1..(k - 1) : ~(listing[j].link /\ listing[j].kind = Kind[t])
      /\ devices[t].name # NULL /\ devices[t].name.entry = k /\ devices[t].id = listing[k].id

\* What a process can lose: one directory with each aiopt_init that failed,
\* two descriptors of the dpaiop with each, and one set of group, container
\* and device altogether.
LossBounded == pc = "idle" => dirs <= failed /\ devs <= 2 * inits

=============================================================================
