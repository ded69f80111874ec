-------------------------------- MODULE Vfio --------------------------------
(***************************************************************************)
(* The VFIO layer, src/vfio/fsl_vfio.c: the one group and one container     *)
(* slot of a process (VFIO_MAX_GRP and VFIO_MAX_CONTAINERS are 1), their    *)
(* descriptors, the memory the device reaches and the interrupt region     *)
(* mapped along with it.  fsl_vfio_setup is one action per system call that *)
(* can fail; the other functions are one or two.                           *)
(*                                                                         *)
(* Callers hold handles and use no handle they have destroyed, but do not  *)
(* know of each other: a second fsl_vfio_setup returns the same group, and  *)
(* nothing counts its users.  Descriptors are numbers, given out lowest     *)
(* first, so that one closed twice may be somebody else's; 0 is taken by    *)
(* the standard input.  The kernel is external and may refuse any call.    *)
(***************************************************************************)
EXTENDS Integers, FiniteSets, FiniteSetsExt

CONSTANTS
  Groups,       \* IOMMU groups of the containers callers ask for
  Regions,      \* memory callers map for the device
  Fds,          \* numbers the process may use for descriptors
  MaxHandles    \* bound: callers holding a handle at the same time

ASSUME FdsAssumption == Fds \subseteq Nat \ {0} /\ IsFiniteSet(Fds)
ASSUME GroupAssumption == Groups # {} /\ "irq" \notin Regions
ASSUME HandlesAssumption == MaxHandles \in Nat

VARIABLES
  fdt,                  \* descriptor table: what each number is
  files,                \* history: descriptors the rest of the process opened
  group,                \* vfio_groups[0]
  container,            \* vfio_containers[0]
  container_device_fd,
  msi_intr_vaddr,       \* the interrupt region is believed to be mapped
  dma,                  \* regions in the IOMMU of the container
  pc, groupid, fd,      \* the call in progress and its locals
  held,                 \* handles held by callers
  torn,                 \* history: a group was put while another held it
  refused               \* history: the kernel refused the last unmap of the
                        \* interrupt region that it was asked for

tables == <<group, container, container_device_fd, msi_intr_vaddr>>
locals == <<groupid, fd>>
past   == <<torn, refused>>
vars   == <<fdt, files, tables, dma, pc, locals, held, past>>

Kinds  == {"closed", "file", "group", "container", "device"}
Numbers == Fds \cup {0}

Init ==
  /\ fdt = [f \in Numbers |-> IF f = 0 THEN "file" ELSE "closed"]
  /\ files = {0}
  /\ group = [fd |-> 0, groupid |-> 0, used |-> FALSE, container |-> FALSE]
  /\ container = [fd |-> 0, used |-> FALSE, index |-> 0]
  /\ container_device_fd = 0 /\ msi_intr_vaddr = FALSE /\ dma = {}
  /\ pc = "idle" /\ groupid = 0 /\ fd = 0 /\ held = 0
  /\ torn = FALSE /\ refused = FALSE

Of(kind) == {f \in Numbers : fdt[f] = kind}
Is(f, kind) == f \in Numbers /\ fdt[f] = kind
Opened(kind) == [fdt EXCEPT ![Min(Of("closed"))] = kind]
Closed(fs) == [f \in Numbers |-> IF f \in fs THEN "closed" ELSE fdt[f]]

\* open or VFIO_GROUP_GET_DEVICE_FD: succeeds with a new descriptor, or fails.
Open(kind, succeeded, failed) ==
  \/ /\ Of("closed") # {}
     /\ fdt' = Opened(kind)
     /\ succeeded
  \/ UNCHANGED fdt /\ failed

Goto(from, to) == pc = from /\ pc' = to

-----------------------------------------------------------------------------
(* The decisions of the code.  A definition whose name ends in an underscore *)
(* and a fault is a faulty form of the one after it; no behaviour uses it.   *)

\* vfio_disconnect_container on the container and on the group.
Disconnected_FreesSlot(c) == [c EXCEPT !.fd = 0, !.used = FALSE]
Disconnected(c) == [c EXCEPT !.fd = 0]

\* vfio_put_group on the group.
Put_StillUsed(g) == [g EXCEPT !.container = FALSE, !.fd = 0]
Put_KeepsContainer(g) == [g EXCEPT !.fd = 0, !.used = FALSE]
Put(g) == [g EXCEPT !.container = FALSE, !.fd = 0, !.used = FALSE]

\* What a failure of vfio_connect_container closes before vfio_set_group
\* closes the group.
ConnectCloses_Nothing == {}
ConnectCloses == {fd}

\* What vfio_unmap_irq_region asks the kernel to unmap.
IrqToUnmap_Never == {}
IrqToUnmap == IF msi_intr_vaddr THEN {"irq"} ELSE {}

-----------------------------------------------------------------------------
(* fsl_vfio_setup                                                           *)

\* stat, readlink and sscanf find the group of the container, or it fails
\* before it touched anything.
Setup ==
  /\ held < MaxHandles
  /\ Goto("idle", "lookup")
  /\ groupid' \in Groups
  /\ UNCHANGED <<fdt, files, tables, dma, fd, held, past>>

\* The group exists already: its handle is returned again.
FoundGroup ==
  /\ group.used /\ group.groupid = groupid
  /\ Goto("lookup", "idle")
  /\ held' = held + 1
  /\ UNCHANGED <<fdt, files, tables, dma, locals, past>>

\* Another group has the slot: goto cleanup, with group pointing at that one.
NoGroupSpace ==
  /\ group.used /\ group.groupid # groupid
  /\ Goto("lookup", "cleanup")
  /\ UNCHANGED <<fdt, files, tables, dma, locals, held, past>>

\* vfio_set_group
OpenGroup ==
  /\ ~group.used
  /\ pc = "lookup"
  /\ Open("group",
          pc' = "viable"  /\ group' = [group EXCEPT !.fd = Min(Of("closed"))],
          pc' = "cleanup" /\ group' = [group EXCEPT !.fd = -1])
  /\ UNCHANGED <<files, container, container_device_fd, msi_intr_vaddr, dma, locals, held, past>>

FailGroup(closed) ==
  /\ fdt' = Closed(closed \cup {group.fd})
  /\ group' = [group EXCEPT !.fd = 0]
  /\ pc' = "cleanup"

CheckViable ==
  /\ pc = "viable"
  /\ \/ pc' = "connect" /\ group' = [group EXCEPT !.groupid = groupid] /\ UNCHANGED fdt
     \/ FailGroup({})
  /\ UNCHANGED <<files, container, container_device_fd, msi_intr_vaddr, dma, locals, held, past>>

\* vfio_connect_container: a container of an earlier group if the kernel takes
\* its descriptor, a new one otherwise.
Connect ==
  /\ pc = "connect"
  /\ IF Is(container.fd, "container")
       THEN /\ group' = [group EXCEPT !.container = TRUE, !.used = TRUE]
            /\ pc' = "device"
            /\ UNCHANGED <<fdt, fd>>
       ELSE Open("container",
                 pc' = "prepare" /\ fd' = Min(Of("closed")) /\ UNCHANGED group,
                 /\ pc' = "failed" /\ UNCHANGED <<fd, group>>)
  /\ UNCHANGED <<files, container, container_device_fd, msi_intr_vaddr, dma, groupid, held, past>>

\* vfio_set_group: fail
ConnectFailed ==
  /\ pc = "failed"
  /\ FailGroup({})
  /\ UNCHANGED <<files, container, container_device_fd, msi_intr_vaddr, dma, locals, held, past>>

\* API version, IOMMU type, VFIO_GROUP_SET_CONTAINER and VFIO_SET_IOMMU.
Prepare ==
  /\ pc = "prepare"
  /\ \/ pc' = "slot" /\ dma' = {} /\ UNCHANGED <<fdt, group>>
     \/ FailGroup(ConnectCloses) /\ UNCHANGED dma
  /\ UNCHANGED <<files, container, container_device_fd, msi_intr_vaddr, locals, held, past>>

\* The last unused slot takes the container; used and index are never reset.
FindSlot ==
  /\ pc = "slot"
  /\ IF container.used
       THEN FailGroup(ConnectCloses) /\ UNCHANGED container
       ELSE /\ container' = [fd |-> fd, used |-> TRUE, index |-> container.index + 1]
            /\ group' = [group EXCEPT !.container = TRUE, !.used = TRUE]
            /\ pc' = "device"
            /\ UNCHANGED fdt
  /\ UNCHANGED <<files, container_device_fd, msi_intr_vaddr, dma, locals, held, past>>

GetDevice ==
  /\ pc = "device"
  /\ Open("device",
          /\ container_device_fd' = Min(Of("closed"))
          /\ pc' = "idle"
          /\ held' = held + 1,
          pc' = "cleanup" /\ UNCHANGED <<container_device_fd, held>>)
  /\ UNCHANGED <<files, group, container, msi_intr_vaddr, dma, locals, past>>

\* vfio_put_group.  VFIO_GROUP_UNSET_CONTAINER may fail, and the mappings then
\* stay as long as the kernel keeps the container; the result is not looked at.
PutGroup(others) ==
  /\ fdt' = Closed((IF group.container THEN {container.fd} ELSE {}) \cup
                   (IF group.fd # 0 THEN {group.fd} ELSE {}))
  /\ dma' \in IF group.container THEN {dma, {}} ELSE {dma}
  /\ container' = IF group.container THEN Disconnected(container) ELSE container
  /\ group' = Put(group)
  /\ torn' = (torn \/ others > 0)
  /\ UNCHANGED <<files, container_device_fd, msi_intr_vaddr, locals, refused>>

SetupFailed ==
  /\ Goto("cleanup", "idle")
  /\ PutGroup(held)
  /\ UNCHANGED held

-----------------------------------------------------------------------------
(* The functions that take a handle                                         *)

\* fsl_vfio_destroy
Destroy ==
  /\ held > 0
  /\ pc = "idle" /\ UNCHANGED pc
  /\ held' = held - 1
  /\ PutGroup(held - 1)

\* group->container->fd with no container.
Crash ==
  /\ held > 0 /\ ~group.container
  /\ Goto("idle", "segv")
  /\ UNCHANGED <<fdt, files, tables, dma, locals, held, past>>

\* fsl_vfio_setup_dmamap: the region, then vfio_map_irq_region, which notes
\* the address before the ioctl that may fail, and whose result is ignored.
\* Memory that is still mapped is refused, and nothing changes.
SetupDmamap(r) ==
  /\ held > 0 /\ pc = "idle" /\ group.container
  /\ r \notin dma
  /\ \/ UNCHANGED <<dma, msi_intr_vaddr>>
     \/ /\ dma' = dma \cup {r} /\ UNCHANGED msi_intr_vaddr
     \/ /\ ~msi_intr_vaddr /\ Is(container_device_fd, "device")
        /\ msi_intr_vaddr' = TRUE
        /\ dma' \in {dma \cup {r}, dma \cup {r, "irq"}}
  /\ UNCHANGED <<fdt, files, group, container, container_device_fd, pc, locals, held, past>>

\* fsl_vfio_destroy_dmamap asks for the interrupt region to be unmapped too,
\* whatever else is still mapped.  The kernel may refuse either unmap: the error
\* is printed, and msi_intr_vaddr is cleared all the same.
DestroyDmamap(r) ==
  /\ held > 0 /\ pc = "idle" /\ group.container
  /\ r \in dma
  /\ \E gone \in SUBSET ({r} \cup IrqToUnmap) :
       /\ dma' = dma \ gone
       /\ refused' = IF "irq" \in IrqToUnmap THEN "irq" \notin gone ELSE refused
  /\ msi_intr_vaddr' = FALSE
  /\ UNCHANGED <<fdt, files, group, container, container_device_fd, pc, locals, held, torn>>

\* fsl_vfio_map_mcp_obj: the descriptor is closed whether or not the portal
\* could be mapped.
MapMcpObj ==
  /\ held > 0 /\ pc = "idle" /\ Is(group.fd, "group")
  /\ Of("closed") # {}
  /\ fdt' = Opened("device")
  /\ fd' = Min(Of("closed"))
  /\ pc' = "mcp"
  /\ UNCHANGED <<files, tables, dma, groupid, held, past>>

CloseMcp ==
  /\ Goto("mcp", "idle")
  /\ fdt' = Closed({fd})
  /\ UNCHANGED <<files, tables, dma, locals, held, past>>

\* fsl_vfio_get_dev_fd, and fsl_vfio_get_device_info that calls it: nobody
\* ever closes the descriptor.
GetDevFd ==
  /\ held > 0 /\ pc = "idle" /\ Is(group.fd, "group")
  /\ Of("closed") # {}
  /\ fdt' = Opened("device")
  /\ UNCHANGED <<files, tables, dma, pc, locals, held, past>>

\* The rest of the process opens and closes files of its own (aiopt_load).
OpenFile ==
  /\ pc = "idle" /\ Of("closed") # {}
  /\ fdt' = Opened("file")
  /\ files' = files \cup {Min(Of("closed"))}
  /\ UNCHANGED <<tables, dma, pc, locals, held, past>>

CloseFile(f) ==
  /\ pc = "idle" /\ f # 0
  /\ fdt' = Closed({f})
  /\ files' = files \ {f}
  /\ UNCHANGED <<tables, dma, pc, locals, held, past>>

-----------------------------------------------------------------------------
Next ==
  \/ Setup \/ FoundGroup \/ NoGroupSpace \/ OpenGroup \/ CheckViable \/ Connect
  \/ ConnectFailed \/ Prepare \/ FindSlot \/ GetDevice \/ SetupFailed
  \/ Destroy \/ Crash \/ MapMcpObj \/ CloseMcp \/ GetDevFd \/ OpenFile
  \/ \E r \in Regions : SetupDmamap(r) \/ DestroyDmamap(r)
  \/ \E f \in files : CloseFile(f)

Spec == Init /\ [][Next]_vars

-----------------------------------------------------------------------------
(* Properties                                                               *)

\* The types, and the bound of group_list: container->index is at most
\* VFIO_MAX_GRP, so no connection ever writes past the array.
TypeOK ==
  /\ fdt \in [Numbers -> Kinds] /\ files \subseteq Numbers
  /\ group \in [fd : Numbers \cup {-1}, groupid : Groups \cup {0},
                used : BOOLEAN, container : BOOLEAN]
  /\ container \in [fd : Numbers, used : BOOLEAN, index : 0..1]
  /\ container_device_fd \in Numbers /\ msi_intr_vaddr \in BOOLEAN
  /\ dma \subseteq Regions \cup {"irq"}
  /\ pc \in {"idle", "lookup", "viable", "connect", "failed", "prepare", "slot",
             "device", "cleanup", "mcp", "segv"}
  /\ groupid \in Groups \cup {0} /\ fd \in Numbers
  /\ held \in 0..MaxHandles /\ torn \in BOOLEAN /\ refused \in BOOLEAN

\* On every error path of fsl_vfio_setup, and after every put, the descriptors
\* of groups and containers that are open are those the tables (or the
\* container under construction) hold: none is lost, none is kept closed.
DescriptorsOwned ==
  /\ Of("group") = {group.fd} \ {0, -1}
  /\ Of("container") = ({container.fd} \ {0}) \cup (IF pc \in {"prepare", "slot"} THEN {fd} ELSE {})

\* No put, failed setup or repeated destroy closes a descriptor of the rest of
\* the process, the standard input (a container->fd of 0) included.
StrangersKept == files = Of("file")

\* Unless one caller took the group from another, whoever holds a handle can
\* use it: group and container connected and open, and the device's descriptor
\* in place for the interrupt region, and no null container pointer to follow.
HandleReady ==
  /\ pc = "segv" => torn
  /\ pc \in {"idle", "mcp"} /\ held > 0 /\ ~torn =>
       /\ group.used /\ group.container /\ container.used
       /\ Is(group.fd, "group") /\ Is(container.fd, "container")
       /\ Is(container_device_fd, "device")

\* An interrupt region in the IOMMU of the connected container is one that
\* msi_intr_vaddr still leads to, whichever of several mappings is destroyed
\* first and whatever was put and set up again in between; only the kernel's own
\* refusal to unmap it makes the layer forget a region that is still mapped.
IrqNotForgotten == group.container /\ "irq" \in dma => msi_intr_vaddr \/ refused

-----------------------------------------------------------------------------
(* What the sources say and the layer does not do                           *)

\* fsl_vfio.c:214 "IRQ region already mapped; Preventing multiple calls": it
\* is mapped whenever msi_intr_vaddr is set.
IrqMapped == group.container /\ msi_intr_vaddr => "irq" \in dma

\* fsl_vfio.c:174 "In case container reused": a container that nobody is
\* connected to can be used by the next group.
ContainerReusable == pc = "slot" /\ container.fd = 0 => ~container.used

=============================================================================
