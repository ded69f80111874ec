----------------------------- MODULE VfioProofs -----------------------------
(***************************************************************************)
(* Proofs about Vfio, for every set of groups, regions and descriptors and  *)
(* every number of callers.  The invariant comes in layers: what the two    *)
(* tables say of each other (Slots), what each point of a call knows of     *)
(* them (Course), the device's descriptor (Device), what the callers were   *)
(* promised (Callers), and the descriptors themselves, which are the        *)
(* properties DescriptorsOwned and StrangersKept of the module.             *)
(***************************************************************************)
EXTENDS Vfio, FiniteSetTheorems, TLAPS

\* The points of fsl_vfio_setup.
Building == {"viable", "connect", "failed", "prepare", "slot"}
Setups   == {"lookup", "device", "cleanup"} \cup Building

\* The group is in use exactly while it is connected, which is exactly while
\* the container slot has a descriptor; the slot was taken at most once.
Slots ==
  /\ group.used <=> group.container
  /\ group.container <=> container.fd # 0
  /\ group.container => container.used
  /\ container.used <=> container.index = 1
  /\ group.used => group.fd \notin {0, -1}

\* What each point of a call knows.  While a group is under construction no
\* other is in use; an idle layer has no group half set up.
Course ==
  /\ pc \in {"idle", "lookup", "mcp", "segv"} => group.used \/ group.fd = 0
  /\ pc \in Building => ~group.used /\ group.fd \notin {0, -1}
  /\ pc = "device" => group.used
  /\ pc = "cleanup" => group.used \/ group.fd \in {0, -1}
  /\ pc = "slot" => dma = {}
  /\ pc = "mcp" => Is(fd, "device") /\ fd # container_device_fd

\* Nobody closes the device's descriptor, and a group that is in use got one
\* once its set-up was through.
Device ==
  /\ container_device_fd = 0 \/ Is(container_device_fd, "device")
  /\ group.used /\ pc \notin {"device", "cleanup"} => container_device_fd # 0

\* As long as no caller took the group from another, whoever holds a handle
\* has a group in use and a device.
Callers ==
  /\ held > 0 /\ ~torn => group.used /\ container_device_fd # 0
  /\ pc \in Setups => held < MaxHandles
  /\ pc = "segv" => torn

Inv ==
  /\ TypeOK /\ DescriptorsOwned /\ StrangersKept /\ IrqNotForgotten
  /\ 0 \in files
  /\ Slots /\ Course /\ Device /\ Callers

-----------------------------------------------------------------------------
(* Descriptors                                                              *)

\* Every non-empty set of numbers has a least element, and Min is it.
LEMMA MinIsLeast ==
  ASSUME NEW T, T \subseteq Nat, T # {}
  PROVE  Min(T) \in T /\ \A y \in T : Min(T) <= y
<1> DEFINE Upto == {0..x : x \in T}
<1>1. Upto \subseteq FiniteSubsetsOf(Nat) /\ Upto # {}
  <2>1. ASSUME NEW x \in T
        PROVE  0..x \in SUBSET Nat /\ IsFiniteSet(0..x)
    BY FS_Interval
  <2> QED BY <2>1 DEF FiniteSubsetsOf
<1>2. PICK s \in Upto : \A t \in Upto : <<t, s>> \notin StrictSubsetOrdering(Nat)
  BY <1>1, FS_StrictSubsetOrderingWellFounded, WFMin
<1>3. PICK x \in T : s = 0..x
  BY <1>2
<1>4. ASSUME NEW y \in T
      PROVE  x <= y
  <2>1. SUFFICES ASSUME y < x
                 PROVE  FALSE
    OBVIOUS
  <2>2. 0..y \in Upto /\ 0..y \in SUBSET Nat /\ s \in SUBSET Nat
    BY <1>3
  <2>3. 0..y \subseteq s /\ 0..y # s
    BY <1>3, <2>1
  <2> QED BY <1>2, <2>2, <2>3 DEF StrictSubsetOrdering
<1> QED BY <1>4 DEF Min

LEMMA NumbersAreNat == Numbers \subseteq Nat /\ 0 \in Numbers /\ -1 \notin Numbers
  BY FdsAssumption DEF Numbers

\* The number given out was closed, and is not the standard input's.
LEMMA Lowest ==
  ASSUME fdt \in [Numbers -> Kinds], fdt[0] = "file", Of("closed") # {}
  PROVE  /\ Min(Of("closed")) \in Numbers
         /\ Min(Of("closed")) # 0
         /\ fdt[Min(Of("closed"))] = "closed"
<1>1. Of("closed") \subseteq Nat
  BY NumbersAreNat DEF Of
<1>2. Min(Of("closed")) \in Of("closed")
  BY <1>1, MinIsLeast
<1> QED BY <1>2 DEF Of

\* Opening adds the number to its kind and changes no other kind.
LEMMA OpenedKinds ==
  ASSUME fdt \in [Numbers -> Kinds], fdt[0] = "file", Of("closed") # {},
         NEW kind \in Kinds \ {"closed"}, fdt' = Opened(kind)
  PROVE  /\ fdt' \in [Numbers -> Kinds]
         /\ Of(kind)' = Of(kind) \cup {Min(Of("closed"))}
         /\ \A k \in Kinds \ {kind, "closed"} : Of(k)' = Of(k)
         /\ fdt'[Min(Of("closed"))] = kind
         /\ \A f \in Numbers : fdt[f] # "closed" => fdt'[f] = fdt[f]
<1> DEFINE n == Min(Of("closed"))
<1>1. n \in Numbers /\ fdt[n] = "closed"
  BY Lowest
<1>2. fdt' = [fdt EXCEPT ![n] = kind]
  BY DEF Opened
<1> HIDE DEF n
<1>3. \A f \in Numbers : fdt'[f] = IF f = n THEN kind ELSE fdt[f]
  BY <1>1, <1>2
<1>4. fdt' \in [Numbers -> Kinds]
  BY <1>1, <1>2
<1>5. Of(kind)' = Of(kind) \cup {n}
  BY <1>1, <1>3 DEF Of
<1>6. \A k \in Kinds \ {kind, "closed"} : Of(k)' = Of(k)
  BY <1>1, <1>3 DEF Of
<1> QED BY <1>1, <1>3, <1>4, <1>5, <1>6 DEF n

\* Closing takes the numbers from every kind.
LEMMA ClosedKinds ==
  ASSUME fdt \in [Numbers -> Kinds], NEW S, fdt' = Closed(S)
  PROVE  /\ fdt' \in [Numbers -> Kinds]
         /\ \A k \in Kinds \ {"closed"} : Of(k)' = Of(k) \ S
         /\ \A f \in Numbers \ S : fdt'[f] = fdt[f]
  BY DEF Closed, Of, Kinds

\* What the steps make of the record of the group.
GroupRecords == [fd : Numbers \cup {-1}, groupid : Groups \cup {0},
                 used : BOOLEAN, container : BOOLEAN]

LEMMA Records ==
  ASSUME TypeOK
  PROVE  /\ \A n \in Numbers \cup {-1} : [group EXCEPT !.fd = n] \in GroupRecords
         /\ [group EXCEPT !.groupid = groupid] \in GroupRecords
         /\ [group EXCEPT !.container = TRUE, !.used = TRUE] \in GroupRecords
         /\ Put(group) \in GroupRecords
<1> USE DEF TypeOK, GroupRecords
<1>1. \A n \in Numbers \cup {-1} : [group EXCEPT !.fd = n] \in GroupRecords
  OBVIOUS
<1>2. [group EXCEPT !.groupid = groupid] \in GroupRecords
  OBVIOUS
<1>3. [group EXCEPT !.container = TRUE, !.used = TRUE] \in GroupRecords
  OBVIOUS
<1>4. Put(group) \in GroupRecords
  BY NumbersAreNat DEF Put
<1> QED BY <1>1, <1>2, <1>3, <1>4

LEMMA KindFacts ==
  /\ TypeOK => fdt \in [Numbers -> Kinds]
  /\ StrangersKept /\ 0 \in files => fdt[0] = "file"
  BY DEF TypeOK, StrangersKept, Of

-----------------------------------------------------------------------------
(* The steps that touch no descriptor                                       *)

LEMMA InvInit == Init => Inv
<1> SUFFICES ASSUME Init
             PROVE  Inv
  OBVIOUS
<1> USE NumbersAreNat, HandlesAssumption DEF Init
<1>1. fdt \in [Numbers -> Kinds] /\ \A f \in Numbers : fdt[f] = IF f = 0 THEN "file" ELSE "closed"
  BY DEF Kinds
<1>2. TypeOK
  <2>1. group \in [fd : Numbers \cup {-1}, groupid : Groups \cup {0},
                  used : BOOLEAN, container : BOOLEAN]
    OBVIOUS
  <2>2. container \in [fd : Numbers, used : BOOLEAN, index : 0..1]
    OBVIOUS
  <2>3. held \in 0..MaxHandles
    OBVIOUS
  <2>4. files \subseteq Numbers /\ dma \subseteq Regions \cup {"irq"}
    OBVIOUS
  <2> QED BY ONLY <1>1, <2>1, <2>2, <2>3, <2>4, NumbersAreNat, Init DEF Init, TypeOK
<1>3. DescriptorsOwned /\ StrangersKept /\ 0 \in files
  BY <1>1 DEF DescriptorsOwned, StrangersKept, Of
<1>4. IrqNotForgotten /\ Slots /\ Course /\ Device /\ Callers
  BY DEF IrqNotForgotten, Slots, Course, Device, Callers, Building, Setups
<1> QED BY <1>2, <1>3, <1>4 DEF Inv

\* A step that leaves the descriptors, the tables and the mappings alone and
\* goes on in a set-up, or ends one.
LEMMA Going ==
  ASSUME Inv, Setup \/ FoundGroup \/ NoGroupSpace
  PROVE  Inv'
<1>1. TypeOK'
  BY HandlesAssumption
     DEF Inv, TypeOK, Callers, Setups, Building, Setup, FoundGroup, NoGroupSpace,
         Goto, tables, locals, past
<1>2. DescriptorsOwned' /\ StrangersKept' /\ Device' /\ (0 \in files)'
  BY DEF Inv, DescriptorsOwned, StrangersKept, Device, Setup, FoundGroup,
         NoGroupSpace, Goto, tables, locals, past, Of, Is
<1>3. IrqNotForgotten' /\ Slots' /\ Course'
  BY DEF Inv, IrqNotForgotten, Slots, Course, Setup, FoundGroup, NoGroupSpace,
         Goto, tables, locals, past, Building
<1>4. Callers'
  BY HandlesAssumption
     DEF Inv, TypeOK, Callers, Device, Setup, FoundGroup, NoGroupSpace,
         Goto, tables, locals, past, Building, Setups
<1> QED BY <1>1, <1>2, <1>3, <1>4 DEF Inv

\* The mappings change, the descriptors and the tables do not.
LEMMA Mapping ==
  ASSUME Inv, NEW r \in Regions, SetupDmamap(r) \/ DestroyDmamap(r)
  PROVE  Inv'
<1> USE DEF past
<1>1. TypeOK'
  <2>1. dma' \subseteq Regions \cup {"irq"} /\ msi_intr_vaddr' \in BOOLEAN
    BY DEF Inv, TypeOK, SetupDmamap, DestroyDmamap
  <2> QED BY <2>1 DEF Inv, TypeOK, SetupDmamap, DestroyDmamap, locals, past
<1>2. DescriptorsOwned' /\ StrangersKept' /\ Device' /\ (0 \in files)'
  BY DEF Inv, DescriptorsOwned, StrangersKept, Device, SetupDmamap, DestroyDmamap,
         Of, Is
<1>3. IrqNotForgotten'
  <2>1. CASE SetupDmamap(r)
    BY <2>1, GroupAssumption DEF Inv, IrqNotForgotten, SetupDmamap
  <2>2. ASSUME DestroyDmamap(r), group.container, "irq" \in dma'
        PROVE  refused'
    <3>1. "irq" \in dma /\ (msi_intr_vaddr \/ refused)
      BY <2>2 DEF Inv, IrqNotForgotten, DestroyDmamap
    <3>2. msi_intr_vaddr => refused'
      BY <2>2 DEF DestroyDmamap, IrqToUnmap
    <3>3. ~msi_intr_vaddr => refused' = refused
      BY <2>2 DEF DestroyDmamap, IrqToUnmap
    <3> QED BY <3>1, <3>2, <3>3
  <2> QED BY <2>1, <2>2 DEF IrqNotForgotten, DestroyDmamap
<1>4. Slots' /\ Course' /\ Callers'
  BY DEF Inv, Slots, Course, Callers, SetupDmamap, DestroyDmamap, Is, Building, Setups
<1> QED BY <1>1, <1>2, <1>3, <1>4 DEF Inv

LEMMA Crashing ==
  ASSUME Inv, Crash
  PROVE  Inv'
<1>1. TypeOK'
  BY DEF Inv, TypeOK, Crash, Goto, tables, locals, past
<1>2. DescriptorsOwned' /\ StrangersKept' /\ Device' /\ (0 \in files)'
  BY DEF Inv, DescriptorsOwned, StrangersKept, Device, Crash, Goto, tables, locals, past,
         Of, Is
<1>3. IrqNotForgotten' /\ Slots' /\ Course' /\ Callers'
  BY DEF Inv, IrqNotForgotten, Slots, Course, Callers, Crash, Goto, tables, locals, past,
         Building, Setups
<1> QED BY <1>1, <1>2, <1>3 DEF Inv

-----------------------------------------------------------------------------
(* The steps that open a descriptor                                         *)

LEMMA OpeningGroup ==
  ASSUME Inv, OpenGroup
  PROVE  Inv'
<1> USE DEF OpenGroup, Open, locals, past
<1>1. ~group.used /\ group.fd = 0 /\ pc = "lookup" /\ fdt \in [Numbers -> Kinds]
  BY KindFacts DEF Inv, Course
<1>2. CASE UNCHANGED fdt /\ pc' = "cleanup" /\ group' = [group EXCEPT !.fd = -1]
  <2>1. TypeOK'
    <3>1. group' \in GroupRecords
      BY <1>2, Records, NumbersAreNat DEF Inv
    <3> QED BY <1>2, <3>1 DEF Inv, TypeOK, GroupRecords
  <2>2. DescriptorsOwned' /\ StrangersKept' /\ Device' /\ (0 \in files)'
    BY <1>1, <1>2 DEF Inv, TypeOK, DescriptorsOwned, StrangersKept, Device, Of, Is
  <2>3. IrqNotForgotten' /\ Slots' /\ Course' /\ Callers'
    BY <1>1, <1>2 DEF Inv, TypeOK, IrqNotForgotten, Slots, Course, Callers, Building, Setups
  <2> QED BY <2>1, <2>2, <2>3 DEF Inv
<1>3. ASSUME NEW n, n = Min(Of("closed")), Of("closed") # {}, fdt' = Opened("group"),
             pc' = "viable", group' = [group EXCEPT !.fd = n]
      PROVE  Inv'
  <2>1. /\ n \in Numbers /\ n # 0 /\ n # -1
        /\ Of("group")' = Of("group") \cup {n}
        /\ Of("container")' = Of("container") /\ Of("file")' = Of("file")
        /\ \A f \in Numbers : fdt[f] # "closed" => fdt'[f] = fdt[f]
        /\ fdt' \in [Numbers -> Kinds]
    BY <1>1, <1>3, Lowest, OpenedKinds, KindFacts, NumbersAreNat DEF Inv, Kinds
  <2>2. group'.fd = n /\ group'.used = group.used /\ group'.container = group.container
        /\ group'.groupid = group.groupid
    BY <1>3 DEF Inv, TypeOK
  <2>3. TypeOK'
    <3>1. group' \in GroupRecords
      BY <1>3, <2>1, Records DEF Inv
    <3> QED BY <1>3, <2>1, <3>1 DEF Inv, TypeOK, GroupRecords
  <2>4. DescriptorsOwned' /\ StrangersKept' /\ (0 \in files)'
    BY <1>1, <1>3, <2>1, <2>2 DEF Inv, DescriptorsOwned, StrangersKept
  <2>5. Device'
    BY <1>1, <2>1, <2>2 DEF Inv, Device, Is
  <2>6. IrqNotForgotten' /\ Slots' /\ Course' /\ Callers'
    BY <1>1, <1>3, <2>1, <2>2
       DEF Inv, IrqNotForgotten, Slots, Course, Callers, Building, Setups
  <2> QED BY <2>3, <2>4, <2>5, <2>6 DEF Inv
<1> QED BY <1>2, <1>3

LEMMA GettingDevice ==
  ASSUME Inv, GetDevice
  PROVE  Inv'
<1> USE DEF GetDevice, Open, locals, past
<1>1. fdt \in [Numbers -> Kinds] /\ pc = "device" /\ group.used /\ held < MaxHandles
      /\ held \in Nat
  BY KindFacts, HandlesAssumption DEF Inv, Course, Callers, Setups, TypeOK
<1>2. CASE UNCHANGED <<fdt, container_device_fd, held>> /\ pc' = "cleanup"
  <2>1. TypeOK'
    BY <1>2 DEF Inv, TypeOK
  <2>2. DescriptorsOwned' /\ StrangersKept' /\ Device' /\ (0 \in files)'
    BY <1>1, <1>2 DEF Inv, DescriptorsOwned, StrangersKept, Device, Of, Is
  <2>3. IrqNotForgotten' /\ Slots' /\ Course' /\ Callers'
    BY <1>1, <1>2 DEF Inv, IrqNotForgotten, Slots, Course, Callers, Building, Setups
  <2> QED BY <2>1, <2>2, <2>3 DEF Inv
<1>3. ASSUME NEW n, n = Min(Of("closed")), Of("closed") # {}, fdt' = Opened("device"),
             container_device_fd' = n, pc' = "idle", held' = held + 1
      PROVE  Inv'
  <2>1. /\ n \in Numbers /\ n # 0 /\ fdt'[n] = "device"
        /\ Of("group")' = Of("group")
        /\ Of("container")' = Of("container") /\ Of("file")' = Of("file")
        /\ fdt' \in [Numbers -> Kinds]
    BY <1>1, <1>3, Lowest, OpenedKinds, KindFacts DEF Inv, Kinds
  <2>2. TypeOK'
    <3>1. held' \in 0..MaxHandles
      BY <1>1, <1>3, HandlesAssumption
    <3> QED BY <1>3, <2>1, <3>1 DEF Inv, TypeOK
  <2>3. DescriptorsOwned' /\ StrangersKept' /\ Device' /\ (0 \in files)'
    BY <1>1, <1>3, <2>1 DEF Inv, DescriptorsOwned, StrangersKept, Device, Is
  <2>4. IrqNotForgotten' /\ Slots' /\ Course' /\ Callers'
    BY <1>1, <1>3, <2>1 DEF Inv, IrqNotForgotten, Slots, Course, Callers, Building, Setups
  <2> QED BY <2>2, <2>3, <2>4 DEF Inv
<1> QED BY <1>2, <1>3

\* The container of a group under construction, unless it is not needed or
\* cannot be had.
LEMMA Connecting ==
  ASSUME Inv, Connect
  PROVE  Inv'
<1> USE DEF Connect, Open, past
<1>1. /\ fdt \in [Numbers -> Kinds] /\ pc = "connect"
      /\ ~group.used /\ ~group.container /\ container.fd = 0
      /\ group.fd \notin {0, -1} /\ fdt[0] = "file"
  BY KindFacts DEF Inv, Course, Slots, TypeOK, Building
<1>2. ~Is(container.fd, "container")
  BY <1>1 DEF Is
<1>3. CASE UNCHANGED <<fdt, fd, group>> /\ pc' = "failed"
  <2>1. TypeOK'
    BY <1>3 DEF Inv, TypeOK
  <2>2. DescriptorsOwned' /\ StrangersKept' /\ Device' /\ (0 \in files)'
    BY <1>1, <1>3 DEF Inv, DescriptorsOwned, StrangersKept, Device, Of, Is
  <2>3. IrqNotForgotten' /\ Slots' /\ Course' /\ Callers'
    BY <1>1, <1>3 DEF Inv, IrqNotForgotten, Slots, Course, Callers, Building, Setups
  <2> QED BY <2>1, <2>2, <2>3 DEF Inv
<1>4. ASSUME NEW n, n = Min(Of("closed")), Of("closed") # {}, fdt' = Opened("container"),
             pc' = "prepare", fd' = n, UNCHANGED group
      PROVE  Inv'
  <2>1. /\ n \in Numbers /\ n # 0
        /\ Of("container")' = Of("container") \cup {n}
        /\ Of("group")' = Of("group") /\ Of("file")' = Of("file")
        /\ \A f \in Numbers : fdt[f] # "closed" => fdt'[f] = fdt[f]
        /\ fdt' \in [Numbers -> Kinds]
    BY <1>1, <1>4, Lowest, OpenedKinds DEF Kinds
  <2>2. TypeOK'
    BY <1>4, <2>1 DEF Inv, TypeOK
  <2>3. DescriptorsOwned' /\ StrangersKept' /\ (0 \in files)'
    BY <1>1, <1>4, <2>1 DEF Inv, DescriptorsOwned, StrangersKept
  <2>4. Device'
    BY <1>1, <1>4, <2>1 DEF Inv, Device, Is
  <2>5. IrqNotForgotten' /\ Slots' /\ Course' /\ Callers'
    BY <1>1, <1>4 DEF Inv, IrqNotForgotten, Slots, Course, Callers, Building, Setups
  <2> QED BY <2>2, <2>3, <2>4, <2>5 DEF Inv
<1> QED BY <1>2, <1>3, <1>4

\* A descriptor of its own for a portal or for a caller: the tables do not
\* know of it.
LEMMA OpeningOther ==
  ASSUME Inv, MapMcpObj \/ GetDevFd
  PROVE  Inv'
<1> USE DEF past
<1> DEFINE n == Min(Of("closed"))
<1>1. fdt \in [Numbers -> Kinds] /\ fdt[0] = "file"
  BY KindFacts DEF Inv
<1>2. /\ Of("closed") # {} /\ fdt' = Opened("device") /\ pc = "idle"
      /\ UNCHANGED <<files, tables, dma, groupid, held, past>>
      /\ \/ UNCHANGED <<pc, fd>>
         \/ pc' = "mcp" /\ fd' = n
  BY DEF MapMcpObj, GetDevFd, locals, past
<1>3. /\ n \in Numbers /\ n # 0 /\ fdt[n] = "closed" /\ fdt'[n] = "device"
      /\ Of("container")' = Of("container")
      /\ Of("group")' = Of("group") /\ Of("file")' = Of("file")
      /\ \A f \in Numbers : fdt[f] # "closed" => fdt'[f] = fdt[f]
      /\ fdt' \in [Numbers -> Kinds]
  BY <1>1, <1>2, Lowest, OpenedKinds DEF Kinds
<1> HIDE DEF n
<1>4. TypeOK'
  BY <1>2, <1>3 DEF Inv, TypeOK, tables
<1>5. DescriptorsOwned' /\ StrangersKept' /\ (0 \in files)'
  BY <1>2, <1>3 DEF Inv, DescriptorsOwned, StrangersKept, tables
<1>6. Device' /\ (pc' = "mcp" => Is(fd, "device")' /\ fd' # container_device_fd')
  BY <1>2, <1>3 DEF Inv, Device, Is, tables
<1>7. IrqNotForgotten' /\ Slots' /\ Course' /\ Callers'
  BY <1>2, <1>6 DEF Inv, IrqNotForgotten, Slots, Course, Callers, Building, Setups, tables
<1> QED BY <1>4, <1>5, <1>6, <1>7 DEF Inv

\* A file of the rest of the process.
LEMMA OpeningFile ==
  ASSUME Inv, OpenFile
  PROVE  Inv'
<1> DEFINE n == Min(Of("closed"))
<1> USE DEF OpenFile, tables, locals, past
<1>1. fdt \in [Numbers -> Kinds] /\ fdt[0] = "file"
  BY KindFacts DEF Inv
<1>2. /\ n \in Numbers /\ files' = files \cup {n}
      /\ Of("file")' = Of("file") \cup {n}
      /\ Of("container")' = Of("container") /\ Of("group")' = Of("group")
      /\ \A f \in Numbers : fdt[f] # "closed" => fdt'[f] = fdt[f]
      /\ fdt' \in [Numbers -> Kinds]
  BY <1>1, Lowest, OpenedKinds DEF Kinds
<1> HIDE DEF n
<1>3. TypeOK'
  BY <1>2 DEF Inv, TypeOK
<1>4. DescriptorsOwned' /\ StrangersKept' /\ (0 \in files)'
  BY <1>2 DEF Inv, DescriptorsOwned, StrangersKept
<1>5. Device'
  BY <1>2 DEF Inv, Device, Is
<1>6. IrqNotForgotten' /\ Slots' /\ Course' /\ Callers'
  BY DEF Inv, IrqNotForgotten, Slots, Course, Callers, Building, Setups
<1> QED BY <1>3, <1>4, <1>5, <1>6 DEF Inv

-----------------------------------------------------------------------------
(* The steps that close descriptors                                         *)

\* A set-up that fails closes the container under construction, if there is
\* one, and the group.
LEMMA Failing ==
  ASSUME Inv, pc \in Building, NEW S,
         S = IF pc \in {"prepare", "slot"} THEN {fd} ELSE {}, FailGroup(S),
         UNCHANGED <<files, container, container_device_fd, msi_intr_vaddr, dma,
                     groupid, fd, held, past>>
  PROVE  Inv'
<1> USE DEF FailGroup, past
<1>1. /\ fdt \in [Numbers -> Kinds] /\ pc' = "cleanup" /\ ~group.used
      /\ ~group.container /\ container.fd = 0 /\ group.fd \notin {0, -1}
  BY KindFacts DEF Inv, Course, Slots, TypeOK
<1>2. group'.fd = 0 /\ group'.used = FALSE /\ group'.container = FALSE
  BY <1>1 DEF Inv, TypeOK
<1>3. /\ fdt' \in [Numbers -> Kinds]
      /\ \A k \in Kinds \ {"closed"} : Of(k)' = Of(k) \ (S \cup {group.fd})
      /\ \A f \in Numbers \ (S \cup {group.fd}) : fdt'[f] = fdt[f]
  BY <1>1, ClosedKinds
<1>4. group.fd \in Of("group") /\ S \subseteq Of("container")
      /\ Of("container") = S /\ Of("group") = {group.fd}
  BY <1>1 DEF Inv, DescriptorsOwned
<1>5. /\ Of("group")' = {} /\ Of("container")' = {} /\ Of("file")' = Of("file")
      /\ \A f \in Numbers : fdt[f] = "device" => fdt'[f] = "device"
  BY <1>3, <1>4 DEF Of, Kinds
<1>6. TypeOK'
  <2>1. group' \in GroupRecords
    BY Records, NumbersAreNat DEF Inv
  <2> QED BY <1>1, <1>3, <2>1 DEF Inv, TypeOK, GroupRecords
<1>7. DescriptorsOwned' /\ StrangersKept' /\ (0 \in files)'
  BY <1>1, <1>2, <1>5 DEF Inv, DescriptorsOwned, StrangersKept
<1>8. Device'
  BY <1>1, <1>2, <1>5 DEF Inv, Device, Is
<1>9. IrqNotForgotten' /\ Slots' /\ Course' /\ Callers'
  BY <1>1, <1>2 DEF Inv, IrqNotForgotten, Slots, Course, Callers, Building, Setups
<1> QED BY <1>6, <1>7, <1>8, <1>9 DEF Inv

\* The other points of a set-up between the group and the container.
LEMMA Constructing ==
  ASSUME Inv, CheckViable \/ ConnectFailed \/ Prepare
  PROVE  Inv'
<1> USE DEF past
<1>1. pc \in Building
  BY DEF CheckViable, ConnectFailed, Prepare, Building
<1>2. CASE CheckViable /\ pc' = "connect"
  <2>1. /\ group' = [group EXCEPT !.groupid = groupid] /\ pc = "viable"
        /\ UNCHANGED <<fdt, files, container, container_device_fd, msi_intr_vaddr,
                       dma, groupid, fd, held, past>>
    BY <1>2 DEF CheckViable, FailGroup, locals, past
  <2>2. group'.fd = group.fd /\ group'.used = group.used
        /\ group'.container = group.container
    BY <2>1 DEF Inv, TypeOK
  <2>3. TypeOK'
    <3>1. group' \in GroupRecords
      BY <2>1, Records DEF Inv
    <3> QED BY <1>2, <2>1, <3>1 DEF Inv, TypeOK, GroupRecords
  <2>4. DescriptorsOwned' /\ StrangersKept' /\ Device' /\ (0 \in files)'
    BY <1>2, <2>1, <2>2 DEF Inv, DescriptorsOwned, StrangersKept, Device, Of, Is
  <2>5. IrqNotForgotten' /\ Slots' /\ Course' /\ Callers'
    BY <1>2, <2>1, <2>2
       DEF Inv, IrqNotForgotten, Slots, Course, Callers, Building, Setups
  <2> QED BY <2>3, <2>4, <2>5 DEF Inv
<1>3. CASE Prepare /\ pc' = "slot"
  <2>1. /\ dma' = {} /\ pc = "prepare"
        /\ UNCHANGED <<fdt, files, group, container, container_device_fd,
                       msi_intr_vaddr, groupid, fd, held, past>>
    BY <1>3 DEF Prepare, FailGroup, locals, past
  <2>2. TypeOK'
    BY <1>3, <2>1 DEF Inv, TypeOK
  <2>3. DescriptorsOwned' /\ StrangersKept' /\ Device' /\ (0 \in files)'
    BY <1>3, <2>1 DEF Inv, DescriptorsOwned, StrangersKept, Device, Of, Is
  <2>4. IrqNotForgotten' /\ Slots' /\ Course' /\ Callers'
    BY <1>3, <2>1 DEF Inv, IrqNotForgotten, Slots, Course, Callers, Building, Setups
  <2> QED BY <2>2, <2>3, <2>4 DEF Inv
<1>4. CASE CheckViable /\ pc' # "connect"
  BY <1>1, <1>4, Failing DEF CheckViable, locals, past
<1>5. CASE ConnectFailed
  BY <1>1, <1>5, Failing DEF ConnectFailed, locals, past
<1>6. CASE Prepare /\ pc' # "slot"
  <2>1. FailGroup({fd}) /\ pc = "prepare"
    BY <1>6 DEF Prepare, ConnectCloses
  <2> QED BY <1>1, <1>6, <2>1, Failing DEF Prepare, locals, past
<1> QED BY <1>2, <1>3, <1>4, <1>5, <1>6

LEMMA Slotting ==
  ASSUME Inv, FindSlot
  PROVE  Inv'
<1> USE DEF past
<1>1. /\ pc = "slot" /\ ~group.used /\ ~group.container /\ container.fd = 0
      /\ group.fd \notin {0, -1} /\ dma = {}
      /\ UNCHANGED <<files, container_device_fd, msi_intr_vaddr, dma, groupid, fd,
                     held, past>>
  BY DEF Inv, Course, Slots, TypeOK, Building, FindSlot, locals, past
<1>2. CASE container.used
  <2>1. FailGroup({fd}) /\ UNCHANGED container
    BY <1>2 DEF FindSlot, ConnectCloses
  <2> QED BY <1>1, <2>1, Failing DEF Building
<1>3. CASE ~container.used
  <2>1. /\ container' = [fd |-> fd, used |-> TRUE, index |-> container.index + 1]
        /\ group' = [group EXCEPT !.container = TRUE, !.used = TRUE]
        /\ pc' = "device" /\ UNCHANGED fdt
    BY <1>3 DEF FindSlot
  <2>2. container.index = 0
    BY <1>3 DEF Inv, Slots, TypeOK
  <2>3. /\ container'.fd = fd /\ container'.used /\ container'.index = 1
        /\ group'.fd = group.fd /\ group'.used /\ group'.container
    BY <2>1, <2>2 DEF Inv, TypeOK
  <2>4. fd # 0
    <3>1. fd \in Of("container") /\ fdt[0] = "file"
      BY <1>1, KindFacts DEF Inv, DescriptorsOwned
    <3> QED BY <3>1 DEF Of
  <2>5. TypeOK'
    <3>1. group' \in GroupRecords
      BY <2>1, Records DEF Inv
    <3>2. container' \in [fd : Numbers, used : BOOLEAN, index : 0..1]
      BY <2>1, <2>2 DEF Inv, TypeOK
    <3> QED BY <1>1, <2>1, <3>1, <3>2 DEF Inv, TypeOK, GroupRecords
  <2>6. DescriptorsOwned' /\ StrangersKept' /\ Device' /\ (0 \in files)'
    BY <1>1, <2>1, <2>3, <2>4 DEF Inv, DescriptorsOwned, StrangersKept, Device, Of, Is
  <2>7. IrqNotForgotten' /\ Slots' /\ Course' /\ Callers'
    BY <1>1, <2>1, <2>3, <2>4
       DEF Inv, IrqNotForgotten, Slots, Course, Callers, Building, Setups
  <2> QED BY <2>5, <2>6, <2>7 DEF Inv
<1> QED BY <1>2, <1>3

\* vfio_put_group closes what the tables hold, and a caller it takes the group
\* from is one whose handle is torn.
LEMMA Putting ==
  ASSUME Inv, NEW others \in 0..MaxHandles, PutGroup(others), pc \in {"idle", "cleanup"},
         pc' = "idle", held' = others
  PROVE  Inv'
<1> DEFINE S == (IF group.container THEN {container.fd} ELSE {}) \cup
                (IF group.fd # 0 THEN {group.fd} ELSE {})
<1> USE DEF PutGroup
<1>1. /\ fdt \in [Numbers -> Kinds] /\ fdt' = Closed(S)
      /\ UNCHANGED <<files, container_device_fd, msi_intr_vaddr, groupid, fd>>
      /\ dma' \subseteq Regions \cup {"irq"}
      /\ torn' = (torn \/ others > 0)
  BY KindFacts DEF Inv, TypeOK, locals, past
<1>2. group'.fd = 0 /\ ~group'.used /\ ~group'.container
  BY DEF Inv, TypeOK, Put
<1>3. container'.fd = 0 /\ container'.used = container.used
      /\ container'.index = container.index
  <2>1. CASE group.container
    BY <2>1 DEF Inv, TypeOK, Disconnected
  <2>2. CASE ~group.container
    BY <2>2 DEF Inv, Slots, TypeOK
  <2> QED BY <2>1, <2>2
<1>4. /\ fdt' \in [Numbers -> Kinds]
      /\ \A k \in Kinds \ {"closed"} : Of(k)' = Of(k) \ S
      /\ \A f \in Numbers \ S : fdt'[f] = fdt[f]
  BY <1>1, ClosedKinds
<1>5. Of("group") = {group.fd} \ {0, -1} /\ Of("container") = {container.fd} \ {0}
  BY DEF Inv, DescriptorsOwned
<1>6. S \ {-1} = Of("group") \cup Of("container")
  BY <1>5, NumbersAreNat DEF Inv, Slots, TypeOK
<1>7. /\ Of("group")' = {} /\ Of("container")' = {} /\ Of("file")' = Of("file")
      /\ \A f \in Numbers : fdt[f] = "device" => fdt'[f] = "device"
  <2>1. \A f \in Numbers : f \in S => fdt[f] \in {"group", "container"}
    BY <1>6, NumbersAreNat DEF Of
  <2> HIDE DEF S
  <2>2. Of("group") \subseteq S /\ Of("container") \subseteq S
    BY <1>6
  <2>3. Of("group")' = {} /\ Of("container")' = {}
    BY <1>4, <2>2 DEF Kinds
  <2>4. Of("file") \cap S = {}
    BY <2>1 DEF Of
  <2>5. Of("file")' = Of("file")
    BY <1>4, <2>4 DEF Kinds
  <2> QED BY <1>4, <2>1, <2>3, <2>5
<1> HIDE DEF S
<1>8. TypeOK'
  <2>1. group' \in GroupRecords
    BY Records DEF Inv
  <2>2. container' \in [fd : Numbers, used : BOOLEAN, index : 0..1]
    BY NumbersAreNat DEF Inv, TypeOK, Disconnected
  <2>3. torn' \in BOOLEAN
    BY <1>1 DEF Inv, TypeOK
  <2> QED BY <1>1, <1>4, <2>1, <2>2, <2>3 DEF Inv, TypeOK, GroupRecords
<1>9. DescriptorsOwned' /\ StrangersKept' /\ (0 \in files)'
  BY <1>1, <1>2, <1>3, <1>7 DEF Inv, DescriptorsOwned, StrangersKept
<1>10. Device'
  BY <1>1, <1>2, <1>7 DEF Inv, Device, Is
<1>11. IrqNotForgotten' /\ Slots' /\ Course'
  BY <1>2, <1>3 DEF Inv, IrqNotForgotten, Slots, Course, Building
<1>12. Callers'
  BY <1>1 DEF Callers, Setups, Building
<1> QED BY <1>8, <1>9, <1>10, <1>11, <1>12 DEF Inv

\* A portal's descriptor, or a file of the rest of the process.
LEMMA ClosingOther ==
  ASSUME Inv, CloseMcp \/ \E f \in files : CloseFile(f)
  PROVE  Inv'
<1> USE DEF past
<1>1. PICK n \in Numbers :
        /\ fdt' = Closed({n})
        /\ UNCHANGED <<tables, dma, groupid, fd, held, past>>
        /\ \/ /\ fdt[n] = "device" /\ n # container_device_fd
              /\ pc' = "idle" /\ UNCHANGED files /\ pc = "mcp"
           \/ /\ fdt[n] = "file" /\ files' = files \ {n} /\ n # 0
              /\ pc = "idle" /\ UNCHANGED pc
  <2>1. CASE CloseMcp
    <3>1. Is(fd, "device") /\ fd # container_device_fd
      BY <2>1 DEF Inv, Course, CloseMcp, Goto
    <3> QED BY <2>1, <3>1 DEF CloseMcp, Goto, Is, locals, past
  <2>2. ASSUME NEW f \in files, CloseFile(f)
        PROVE  f \in Numbers /\ fdt[f] = "file"
    BY <2>2 DEF Inv, StrangersKept, Of
  <2> QED BY <2>1, <2>2 DEF CloseFile, locals, past
<1>2. fdt \in [Numbers -> Kinds]
  BY KindFacts DEF Inv
<1>3. /\ fdt' \in [Numbers -> Kinds]
      /\ \A k \in Kinds \ {"closed"} : Of(k)' = Of(k) \ {n}
      /\ \A f \in Numbers \ {n} : fdt'[f] = fdt[f]
  BY <1>1, <1>2, ClosedKinds
<1>4. /\ Of("group")' = Of("group") /\ Of("container")' = Of("container")
      /\ Of("file")' = Of("file") \ {n}
  BY <1>1, <1>3 DEF Of, Kinds
<1>5. TypeOK'
  <2>1. files' \subseteq Numbers
    BY <1>1 DEF Inv, TypeOK
  <2>2. pc' = "idle"
    BY <1>1
  <2> QED BY <1>1, <1>3, <2>1, <2>2 DEF Inv, TypeOK, tables
<1>6. DescriptorsOwned'
  BY <1>1, <1>4 DEF Inv, DescriptorsOwned, tables
<1>7. StrangersKept' /\ (0 \in files)'
  BY <1>1, <1>4 DEF Inv, StrangersKept, Of
<1>8. Device'
  BY <1>1, <1>3 DEF Inv, Device, Is, tables
<1>9. IrqNotForgotten' /\ Slots' /\ Course' /\ Callers'
  BY <1>1 DEF Inv, IrqNotForgotten, Slots, Course, Callers, Building, Setups, tables
<1> QED BY <1>5, <1>6, <1>7, <1>8, <1>9 DEF Inv

-----------------------------------------------------------------------------
LEMMA InvNext == Inv /\ [Next]_vars => Inv'
<1> SUFFICES ASSUME Inv, [Next]_vars
             PROVE  Inv'
  OBVIOUS
<1>1. CASE SetupFailed
  <2>1. held \in 0..MaxHandles
    BY DEF Inv, TypeOK
  <2> QED BY <1>1, <2>1, Putting DEF SetupFailed, Goto
<1>2. CASE Destroy
  <2>1. held - 1 \in 0..MaxHandles
    BY <1>2, HandlesAssumption DEF Inv, TypeOK, Destroy
  <2> QED BY <1>2, <2>1, Putting DEF Destroy
<1>3. CASE UNCHANGED vars
  BY <1>3 DEF vars, tables, locals, past, Inv, TypeOK, DescriptorsOwned, StrangersKept,
              IrqNotForgotten, Slots, Course, Device, Callers, Of, Is
<1> QED BY <1>1, <1>2, <1>3, Going, Mapping, Crashing, OpeningGroup, GettingDevice,
           Connecting, OpeningOther, OpeningFile, Constructing, Slotting, ClosingOther
        DEF Next

\* The layers above hold of every behaviour of the layer, with every system
\* call of Vfio free to fail, the two unmaps of fsl_vfio_destroy_dmamap included.
THEOREM Invariance == Spec => []Inv
  BY InvInit, InvNext, PTL DEF Spec

\* Types, and the slot list of the container: fsl_vfio.c never connects a group
\* at an index past VFIO_MAX_GRP.
THEOREM Typing == Spec => []TypeOK
  BY Invariance, PTL DEF Inv

\* Whatever system call fails, and whoever destroys what, the open descriptors
\* of groups and containers are those in the tables of fsl_vfio.c, or the one
\* under construction.
THEOREM Owned == Spec => []DescriptorsOwned
  BY Invariance, PTL DEF Inv

\* No error path and no put of fsl_vfio.c closes a descriptor of the rest of
\* the process, nor the standard input, whose number the cleared tables hold.
THEOREM Strangers == Spec => []StrangersKept
  BY Invariance, PTL DEF Inv

\* As long as no fsl_vfio_destroy or failed fsl_vfio_setup took the group from
\* another caller, a handle leads to an open group, container and device.
THEOREM Ready == Spec => []HandleReady
<1>1. Inv => HandleReady
  <2> SUFFICES ASSUME Inv
               PROVE  HandleReady
    OBVIOUS
  <2>1. pc = "segv" => torn
    BY DEF Inv, Callers
  <2>2. ASSUME pc \in {"idle", "mcp"}, held > 0, ~torn
        PROVE  /\ group.used /\ group.container /\ container.used
               /\ Is(group.fd, "group") /\ Is(container.fd, "container")
               /\ Is(container_device_fd, "device")
    <3>1. group.used /\ container_device_fd # 0
      BY <2>2 DEF Inv, Callers
    <3>2. group.container /\ container.used /\ container.fd # 0
          /\ group.fd \notin {0, -1}
      BY <3>1 DEF Inv, Slots
    <3>3. group.fd \in Of("group") /\ container.fd \in Of("container")
      BY <3>2 DEF Inv, DescriptorsOwned
    <3> QED BY <3>1, <3>2, <3>3 DEF Inv, Device, Is, Of
  <2> QED BY <2>1, <2>2 DEF HandleReady
<1> QED BY <1>1, Invariance, PTL

\* Whichever system call fails, an unmap included, and whatever is put, set up
\* or destroyed in any order: an interrupt region in the IOMMU of the connected
\* container is one that vfio_unmap_irq_region will ask to unmap, unless the
\* kernel refused just that.
THEOREM Irq == Spec => []IrqNotForgotten
  BY Invariance, PTL DEF Inv

=============================================================================
