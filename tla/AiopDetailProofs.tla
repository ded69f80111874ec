-------------------------- MODULE AiopDetailProofs --------------------------
(***************************************************************************)
(* Proofs about the two details of the library that have a module of their  *)
(* own: AiopDevices, how aiopt_init finds its objects, and LoadBuffer, the  *)
(* memory of a load.                                                        *)
(*                                                                         *)
(* AiopDevices, for every directory of the group, every limit of            *)
(* descriptors and every number of calls.  The invariant comes in layers:   *)
(* the step the scan is at (Place), the strings it holds (Strings), the     *)
(* entries it took (First) and what was lost (Loss).                        *)
(*                                                                         *)
(* LoadBuffer, for every set of file sizes and every number of changes of   *)
(* the file.  The arithmetic is in one lemma, Rounding; the rest carries it *)
(* from the stat of a file to its munmap.                                   *)
(***************************************************************************)
EXTENDS AiopDevices, LoadBuffer, TLAPS

Filling == {"copy", "name", "fd", "info", "filled", "unfill"}
Blocks  == [call : Nat, entry : Nat, of : {"dir_c", "name", "nothing"}]

\* The types, and what each step of the scan knows.
Place ==
  /\ pc \in {"idle", "vfio", "opendir", "readdir", "portal", "aiop", "cleanup"} \cup Filling
  /\ obj \in {"none", "building", "ready", "ended"}
  /\ pc = "idle" <=> obj # "building"
  /\ devices \in [Types -> [name : Blocks, id : Nat]]
  /\ listing \in Seq(Listed) /\ pos \in 0..Len(listing)
  /\ avail \subseteq Types /\ type \in Types
  /\ dir_c \in Blocks /\ p \in Blocks
  /\ pc \in Filling => pos \in 1..Len(listing) /\ type \notin avail
  /\ pc \in {"fd", "info"} => type = "AIOP_TYPE"
  /\ pc \in {"vfio", "opendir"} \/ obj \in {"none", "ended"} => avail = {} /\ pos = 0
  /\ pc \in {"portal", "aiop"} \/ obj = "ready" => avail = Types
  /\ vfio \in BOOLEAN /\ dirs \in Nat /\ devs \in Nat
  /\ pc \in {"readdir"} \cup Filling => dirs # 0
  /\ inits \in 0..MaxInits /\ failed \in 0..inits
  /\ obj = "building" => failed < inits

Within == Used <= MaxFds

\* Who has the strings: dir_c and p while an entry is filled in, and p is then
\* the name of the type; the handle, for a type that was taken.
Strings ==
  /\ heap = Names \cup ({dir_c, p} \ {NULL})
  /\ pc \in {"name", "fd", "info", "filled"} => dir_c # NULL
  /\ pc \notin {"name", "fd", "info", "filled", "unfill"} => dir_c = NULL
  /\ pc \in {"fd", "info", "filled"} => p # NULL
  /\ pc \notin {"fd", "info", "filled", "unfill"} => p = NULL
  /\ dir_c # NULL => dir_c.of = "dir_c"
  /\ p # NULL => p.entry = pos /\ devices[type].name = p
  /\ \A t \in Types : devices[t].name # NULL => devices[t].name.of = "name"
  /\ obj \in {"none", "ended"} => \A t \in Types : devices[t].name = NULL
  /\ obj = "building" => \A t \in Types \ avail :
                           t # type \/ p = NULL => devices[t].name = NULL
  /\ \A t \in avail : devices[t].name # NULL /\ devices[t].name.entry \in 1..pos
  /\ pc \in Filling => \A t \in avail : devices[t].name.entry < pos

\* Entry k of the directory is a link to an object of type t.
Links(t, k) == listing[k].link /\ listing[k].kind = Kind[t]

\* A type that was taken has the first of its links; of one that was not, no
\* link was read, the one being filled in apart.
First ==
  /\ \A t \in avail :
       LET k == devices[t].name.entry
       IN  /\ Links(t, k) /\ devices[t].id = listing[k].id
           /\ \A j \in 1..(k - 1) : ~Links(t, j)
  /\ \A t \in Types \ avail : \A j \in 1..pos :
       Links(t, j) => pc \in Filling \cup {"cleanup"} /\ t = type /\ j = pos
  /\ pc \in Filling => Links(type, pos)
  /\ p # NULL => devices[type].id = listing[pos].id

\* No dpaiop was opened in this call yet.
Unopened ==
  /\ obj = "building" /\ "AIOP_TYPE" \notin avail
  /\ pc \notin {"info", "unfill", "cleanup"} /\ (pc = "filled" => type # "AIOP_TYPE")

\* How many directories and descriptors of objects are open, at each step.
Loss ==
  /\ dirs <= failed + 1
  /\ pc \notin {"readdir", "cleanup"} \cup Filling => dirs <= failed
  /\ devs <= 2 * inits
  /\ pc = "info" => devs <= 2 * inits - 1
  /\ Unopened => devs <= 2 * inits - 2

-----------------------------------------------------------------------------
(* The steps of the scan                                                    *)

LEMMA BlockShape ==
  ASSUME Place, NEW w \in {"dir_c", "name"}
  PROVE  /\ Block(w) \in Blocks /\ Block(w) # NULL /\ NULL \in Blocks
         /\ Block(w).of = w /\ Block(w).entry = pos /\ NULL.of = "nothing"
<1>1. inits \in Nat /\ pos \in Nat
  BY BoundsAssumption DEF Place
<1>2. Block(w).of = w /\ NULL.of = "nothing"
  BY DEF Block, NULL
<1>. QED
  BY <1>1, <1>2 DEF Block, NULL, Blocks

LEMMA NullShape == NULL \in Blocks /\ NULL.of = "nothing"
  BY DEF NULL, Blocks

LEMMA EmptyList == <<>> \in Seq(Listed) /\ Len(<<>>) = 0 /\ 0 \in 0..Len(<<>>)
  OBVIOUS

LEMMA Forgotten ==
  ASSUME ForgetScan
  PROVE  /\ listing' \in Seq(Listed) /\ pos' \in 0..Len(listing') /\ pos' = 0
         /\ avail' = {} /\ avail' \subseteq Types /\ type' \in Types
<1>1. listing' \in Seq(Listed) /\ pos' \in 0..Len(listing')
  BY EmptyList DEF ForgetScan
<1>. QED
  BY <1>1 DEF ForgetScan, Types

LEMMA InitPlace == Init => Place /\ Within
<1>. SUFFICES ASSUME Init PROVE Place /\ Within
  OBVIOUS
<1>1. devices \in [Types -> [name : Blocks, id : Nat]]
  BY NullShape DEF Init, NoDevices
<1>2. Place
  <2>1. listing \in Seq(Listed) /\ pos \in 0..Len(listing)
    BY EmptyList DEF Init
  <2>2. avail \subseteq Types /\ type \in Types
    BY DEF Init, Types
  <2>3. inits \in 0..MaxInits /\ failed \in 0..inits /\ pos = 0
    BY BoundsAssumption DEF Init
  <2>4.   /\ dir_c \in Blocks /\ p \in Blocks
    BY NullShape DEF Init
  <2>. QED
    BY <1>1, <2>1, <2>2, <2>3, <2>4 DEF Init, Place, Filling
<1>3. Within
  BY BoundsAssumption DEF Init, Within, Used
<1>. QED
  BY <1>2, <1>3

LEMMA PlaceNext ==
  ASSUME Place, [Next]_vars
  PROVE  Place'
<1>. USE BoundsAssumption, NullShape, EmptyList DEF Place, Filling, scan, fill, open, hist
<1>1. CASE Exit
  <2>1. devices' \in [Types -> [name : Blocks, id : Nat]]
    BY <1>1 DEF Exit, NoDevices
  <2>2. inits' \in 0..MaxInits /\ failed' \in 0..inits' /\ pc' = "idle" /\ obj' = "none"
    BY <1>1 DEF Exit
  <2>3. vfio' = FALSE /\ dirs' \in Nat /\ devs' \in Nat /\ dir_c' \in Blocks /\ p' \in Blocks
    BY <1>1 DEF Exit
  <2>4. ForgetScan
    BY <1>1 DEF Exit
  <2>. QED
    BY <2>1, <2>2, <2>3, <2>4, Forgotten
<1>2. CASE Call
  BY <1>2 DEF Call, Goto, NoDevices, Types
<1>3. CASE SetupVfio
  <2>1. CASE Fails
    BY <1>3, <2>1, Forgotten DEF SetupVfio, Fails
  <2>2. CASE pc' = "opendir"
    BY <1>3, <2>2 DEF SetupVfio, Fails
  <2>. QED
    BY <1>3, <2>1, <2>2 DEF SetupVfio
<1>4. CASE OpenDir
  <2>1. CASE Fails
    BY <1>4, <2>1, Forgotten DEF OpenDir, Fails
  <2>2. CASE pc' = "readdir"
    <3>1. listing' \in Seq(Listed) /\ pos' = 0 /\ pos' \in 0..Len(listing')
      BY <1>4, <2>2, DirectoriesAssumption DEF OpenDir, Fails
    <3>. QED
      BY <1>4, <2>2, <3>1 DEF OpenDir, Fails, Types
  <2>. QED
    BY <1>4, <2>1, <2>2 DEF OpenDir
<1>5. CASE Read
  BY <1>5 DEF Read, Wanted
<1>6. CASE CloseDir
  BY <1>6 DEF CloseDir, DirsLeft
<1>7. CASE Copy
  BY <1>7, BlockShape DEF Copy
<1>8. CASE Name
  <2>1. listing[pos].id \in Nat
    <3>1. listing[pos] \in Listed
      BY <1>8 DEF Name
    <3>. QED
      BY <3>1 DEF Listed
  <2>2. devices' \in [Types -> [name : Blocks, id : Nat]] /\ p' \in Blocks
    <3>1. [name |-> Block("name"), id |-> listing[pos].id] \in [name : Blocks, id : Nat]
      BY <2>1, BlockShape
    <3>2. \/ /\ p' = Block("name")
             /\ devices' = [devices EXCEPT ![type] =
                              [name |-> Block("name"), id |-> listing[pos].id]]
          \/ p' = p /\ devices' = devices
      BY <1>8 DEF Name
    <3>. QED
      <4>1. CASE devices' = devices /\ p' = p
        BY <4>1
      <4>2. CASE /\ p' = Block("name")
                 /\ devices' = [devices EXCEPT ![type] =
                                  [name |-> Block("name"), id |-> listing[pos].id]]
        <5>1. devices' \in [Types -> [name : Blocks, id : Nat]]
          BY <3>1, <4>2, Zenon
        <5>. QED
          BY <4>2, <5>1, BlockShape
      <4>. QED
        BY <3>2, <4>1, <4>2
  <2>. QED
    BY <1>8, <2>2 DEF Name, Types
<1>9. CASE GetFd
  BY <1>9 DEF GetFd
<1>10. CASE GetInfo
  BY <1>10 DEF GetInfo
<1>11. CASE Filled
  BY <1>11 DEF Filled, Goto
<1>12. CASE Unfill
  <2>1. devices' \in [Types -> [name : Blocks, id : Nat]]
    BY <1>12 DEF Unfill
  <2>. QED
    BY <1>12, <2>1 DEF Unfill, Goto
<1>13. CASE Portal
  BY <1>13 DEF Portal
<1>14. CASE InitAiop
  BY <1>14 DEF InitAiop
<1>15. CASE CleanUp
  <2>1. devices' \in [Types -> [name : Blocks, id : Nat]]
    BY <1>15 DEF CleanUp, Cleaned
  <2>. QED
    BY <1>15, <2>1, Forgotten DEF CleanUp, Fails
<1>16. CASE Deinit
  <2>1. devices' \in [Types -> [name : Blocks, id : Nat]]
    BY <1>16 DEF Deinit, Cleaned
  <2>. QED
    BY <1>16, <2>1, Forgotten DEF Deinit
<1>17. CASE UNCHANGED vars
  BY <1>17 DEF vars
<1>. QED
  BY <1>1, <1>2, <1>3, <1>4, <1>5, <1>6, <1>7, <1>8, <1>9, <1>10, <1>11, <1>12, <1>13, <1>14,
     <1>15, <1>16, <1>17 DEF Next

\* No step opens a descriptor when there is none.
LEMMA WithinNext ==
  ASSUME Place, Within, [Next]_vars
  PROVE  Within'
<1>. USE BoundsAssumption DEF Place, Within, Used, Free, open
<1>1. CASE SetupVfio
  BY <1>1 DEF SetupVfio
<1>2. CASE OpenDir
  BY <1>2 DEF OpenDir
<1>3. CASE CloseDir
  BY <1>3 DEF CloseDir, DirsLeft
<1>4. CASE GetFd \/ GetInfo
  BY <1>4 DEF GetFd, GetInfo
<1>5. CASE Exit
  BY <1>5 DEF Exit
<1>6. CASE UNCHANGED <<vfio, dirs, devs>>
  BY <1>6
<1>. QED
  BY <1>1, <1>2, <1>3, <1>4, <1>5, <1>6
     DEF Next, Call, Read, Copy, Name, Filled, Unfill, Portal, InitAiop, CleanUp, Deinit, vars

LEMMA InPlace == Spec => [](Place /\ Within)
<1>1. Place /\ Within /\ [Next]_vars => (Place /\ Within)'
  BY PlaceNext, WithinNext
<1>. QED
  BY InitPlace, <1>1, PTL DEF Spec

LEMMA PlaceTypes == Place /\ Within => TypeOK
  BY DEF Place, Within, TypeOK, Filling

-----------------------------------------------------------------------------
(* The strings                                                              *)

LEMMA NamesNext ==
  ASSUME \A t \in Types : devices'[t].name = devices[t].name
  PROVE  Names' = Names
  BY DEF Names

\* A step that leaves all strings alone, with no entry filled in before or
\* after it.
LEMMA StringsAside ==
  ASSUME Place, Strings, UNCHANGED <<devices, avail, dir_c, p, heap>>,
         pc \notin Filling, pc' \notin Filling, pos' \in Nat, pos' >= pos,
         obj' = obj \/ (obj = "building" /\ obj' = "ready")
  PROVE  Strings'
<1>1. Names' = Names
  BY DEF Names
<1>2. dir_c = NULL /\ p = NULL
  BY DEF Strings, Filling
<1>3. pos \in Nat
  BY DEF Place
<1>. QED
  BY <1>1, <1>2, <1>3 DEF Strings, Filling, Place

LEMMA StringsCopy ==
  ASSUME Place, Place', Strings, Copy
  PROVE  Strings'
<1>1. Names' = Names
  BY DEF Copy, Names
<1>2. dir_c = NULL /\ p = NULL /\ p' = NULL
  BY DEF Copy, Strings, fill
<1>3. CASE pc' = "name"
  BY <1>1, <1>2, <1>3, BlockShape DEF Copy, Strings, Filling, scan
<1>4. CASE pc' = "unfill"
  BY <1>1, <1>2, <1>4 DEF Copy, Strings, Filling, scan
<1>. QED
  BY <1>3, <1>4 DEF Copy

LEMMA StringsName ==
  ASSUME Place, Place', Strings, Name
  PROVE  Strings'
<1>1. CASE pc' = "unfill"
  <2>1. Names' = Names
    BY <1>1 DEF Name, Names
  <2>. QED
    BY <1>1, <2>1 DEF Name, Strings, Filling, scan
<1>2. CASE pc' # "unfill"
  <2>. DEFINE b == Block("name")
  <2>1. b # NULL /\ b.of = "name" /\ b.entry = pos
    BY BlockShape
  <2>. HIDE DEF b
  <2>2. /\ p' = b /\ heap' = heap \cup {b} /\ pc' \in {"fd", "filled"}
        /\ devices' = [devices EXCEPT ![type] = [name |-> b, id |-> listing[pos].id]]
    BY <1>2 DEF Name, b
  <2>3. /\ devices'[type].name = b
        /\ \A t \in Types \ {type} : devices'[t] = devices[t]
        /\ type \in Types \ avail /\ p = NULL /\ devices[type].name = NULL
    BY <2>2 DEF Place, Strings, Name, Filling
  <2>4. Names' = Names \cup {b}
    BY <2>1, <2>3 DEF Names
  <2>. QED
    BY <2>1, <2>2, <2>3, <2>4 DEF Name, Place, Strings, Filling, scan
<1>. QED
  BY <1>1, <1>2

LEMMA StringsFilled ==
  ASSUME Place, Place', Strings, Filled
  PROVE  Strings'
<1>1. Names' = Names
  BY DEF Filled, Names
<1>2. pc = "filled" /\ p # NULL /\ devices[type].name = p /\ type \in Types /\ p.entry = pos
  BY DEF Filled, Goto, Strings, Place
<1>3. p \in Names /\ dir_c \notin Names
  BY <1>2 DEF Names, Strings
<1>4. heap' = Names
  BY <1>2, <1>3 DEF Filled, Strings, Names
<1>. QED
  BY <1>1, <1>2, <1>4 DEF Filled, Goto, Strings, Filling, Place

LEMMA StringsUnfill ==
  ASSUME Place, Place', Strings, Unfill
  PROVE  Strings'
<1>1. pc = "unfill" /\ type \in Types \ avail
  BY DEF Unfill, Goto, Place, Filling
<1>2. \A t \in Types \ {type} : devices'[t] = devices[t]
  BY DEF Unfill, Place
<1>3. devices'[type].name = NULL
  BY <1>1 DEF Unfill, Strings, Place
<1>4. \A t \in Types \ {type} : devices[t].name # NULL => devices[t].name # p
  <2>. SUFFICES ASSUME NEW t \in Types \ {type}, devices[t].name # NULL, devices[t].name = p
                PROVE  FALSE
    OBVIOUS
  <2>1. t \in avail /\ p.entry = pos /\ p.entry < pos
    BY <1>1 DEF Strings, Place, Filling
  <2>2. pos \in Nat
    BY DEF Place
  <2>. QED
    BY <2>1, <2>2
<1>5. dir_c \notin Names
  BY DEF Strings, Names
<1>6. Names' = Names \ {p}
  <2>1. devices[type].name = p
    BY <1>1 DEF Strings, Place
  <2>2. ASSUME NEW x
        PROVE  x \in Names' <=> x \in Names /\ x # p
    BY <1>1, <1>2, <1>3, <1>4, <2>1 DEF Names
  <2>. QED
    BY <2>2
<1>7. heap' = Names'
  BY <1>5, <1>6 DEF Unfill, Strings, Names
<1>. QED
  BY <1>1, <1>2, <1>3, <1>7 DEF Unfill, Goto, Strings, Filling, scan, Place

\* Cleaning up frees the names, and nothing else is in use.
LEMMA StringsCleaned ==
  ASSUME Place, Place', Strings, pc \in {"cleanup", "idle"}, pc' = "idle",
         heap' = heap \ Names, devices' = Cleaned(devices), UNCHANGED <<dir_c, p>>,
         avail' = {}, obj' \in {"none", "ended"}
  PROVE  Strings'
<1>1. \A t \in Types : devices'[t].name = NULL
  BY DEF Cleaned, Place
<1>2. Names' = {}
  BY <1>1 DEF Names
<1>3. dir_c = NULL /\ p = NULL
  BY DEF Strings
<1>. QED
  BY <1>1, <1>2, <1>3 DEF Strings, Filling

\* A step before any string is made.
LEMMA StringsNone ==
  ASSUME Place, Place', dir_c' = NULL, p' = NULL, heap' = {}, avail' = {},
         \A t \in Types : devices'[t].name = NULL, pc' \notin Filling
  PROVE  Strings'
<1>1. Names' = {}
  BY DEF Names
<1>. QED
  BY <1>1 DEF Strings, Filling

LEMMA StringsNext ==
  ASSUME Place, Place', Strings, [Next]_vars
  PROVE  Strings'
<1>. USE DEF scan, fill, open, hist
<1>0. ASSUME pc \in {"vfio", "opendir"} \/ obj \in {"none", "ended"}
      PROVE  /\ dir_c = NULL /\ p = NULL /\ heap = {} /\ avail = {}
             /\ \A t \in Types : devices[t].name = NULL
  <2>1. dir_c = NULL /\ p = NULL /\ avail = {}
    BY <1>0 DEF Strings, Place
  <2>2. \A t \in Types : devices[t].name = NULL
    BY <1>0, <2>1 DEF Strings, Place
  <2>. QED
    BY <2>1, <2>2 DEF Strings, Names
<1>1. CASE Exit
  BY <1>1, StringsNone DEF Exit, ForgetScan, NoDevices, Filling
<1>2. CASE Call
  <2>1. obj \in {"none", "ended"} /\ \A t \in Types : devices'[t].name = NULL
    BY <1>2 DEF Call, NoDevices
  <2>. QED
    BY <1>0, <1>2, <2>1, StringsNone DEF Call, Goto, Filling
<1>3. CASE SetupVfio \/ OpenDir
  <2>1. pc \in {"vfio", "opendir"} /\ avail' = {} /\ pc' \notin Filling
    BY <1>0, <1>3 DEF SetupVfio, OpenDir, Fails, ForgetScan, Filling
  <2>. QED
    BY <1>0, <1>3, <2>1, StringsNone DEF SetupVfio, OpenDir
<1>4. CASE Read
  <2>1. CASE pc' = "copy"
    <3>1. pos' = pos + 1 /\ pos \in Nat /\ dir_c = NULL /\ p = NULL
      BY <1>4 DEF Read, Place, Strings
    <3>2. Names' = Names
      BY <1>4 DEF Read, Names
    <3>3. obj = "building" /\ \A t \in Types \ avail : devices[t].name = NULL
      BY <1>4 DEF Read, Place, Strings
    <3>4. \A t \in avail : devices[t].name.entry \in 1..pos
      BY DEF Strings
    <3>. QED
      BY <1>4, <2>1, <3>1, <3>2, <3>3, <3>4 DEF Read, Strings, Place, Filling
  <2>2. CASE pc' = pc
    BY <1>4, <2>2, StringsAside DEF Read, Place, Filling
  <2>. QED
    BY <1>4, <2>1, <2>2 DEF Read
<1>5. CASE CloseDir
  BY <1>5, StringsAside DEF CloseDir, Place, Filling
<1>6. CASE Copy
  BY <1>6, StringsCopy
<1>7. CASE Name
  BY <1>7, StringsName
<1>8. CASE GetFd \/ GetInfo
  <2>1. Names' = Names
    BY <1>8 DEF GetFd, GetInfo, Names
  <2>. QED
    BY <1>8, <2>1 DEF GetFd, GetInfo, Strings, Filling
<1>9. CASE Filled
  BY <1>9, StringsFilled
<1>10. CASE Unfill
  BY <1>10, StringsUnfill
<1>11. CASE Portal \/ InitAiop
  BY <1>11, StringsAside DEF Portal, InitAiop, Place, Filling
<1>12. CASE CleanUp
  BY <1>12, StringsCleaned DEF CleanUp, Fails, ForgetScan
<1>13. CASE Deinit
  BY <1>13, StringsCleaned DEF Deinit, ForgetScan
<1>14. CASE UNCHANGED vars
  <2>1. Names' = Names
    BY <1>14 DEF vars, Names
  <2>. QED
    BY <1>14, <2>1 DEF vars, Strings, Filling
<1>. QED
  BY <1>1, <1>2, <1>3, <1>4, <1>5, <1>6, <1>7, <1>8, <1>9, <1>10, <1>11, <1>12, <1>13, <1>14
     DEF Next

LEMMA InStrings == Spec => [](Place /\ Strings)
<1>1. Init => Strings
  <2>. SUFFICES ASSUME Init PROVE Strings
    OBVIOUS
  <2>1. \A t \in Types : devices[t].name = NULL
    BY DEF Init, NoDevices
  <2>2. Names = {}
    BY <2>1 DEF Names
  <2>. QED
    BY <2>1, <2>2 DEF Init, Strings, Filling
<1>2. Place /\ Place' /\ Strings /\ [Next]_vars => Strings'
  BY StringsNext
<1>. QED
  BY <1>1, <1>2, InPlace, PTL DEF Spec

\* No string is lost and none is freed twice, on any path of any number of
\* calls of aiopt_init and aiopt_deinit.
THEOREM Accounted == Spec => []NamesAccounted
<1>1. Place /\ Within /\ Strings => NamesAccounted
  BY PlaceTypes DEF Strings, NamesAccounted
<1>. QED
  BY <1>1, InPlace, InStrings, PTL

-----------------------------------------------------------------------------
(* The entries                                                              *)

LEMMA KindsDiffer ==
  ASSUME NEW t \in Types, NEW u \in Types, t # u
  PROVE  Kind[t] # Kind[u]
  BY DEF Kind, Types

LEMMA LinksNext ==
  ASSUME listing' = listing, NEW t, NEW k
  PROVE  Links(t, k)' <=> Links(t, k)
  BY DEF Links

\* A step that reads nothing and takes nothing.
LEMMA FirstAside ==
  ASSUME Place, Strings, First, UNCHANGED <<devices, avail, listing, pos, type, p>>,
         pc \in Filling <=> pc' \in Filling, pc = "cleanup" => pc' = "cleanup"
  PROVE  First'
  BY LinksNext DEF First

\* A step after which nothing is taken and nothing was read.
LEMMA FirstNone ==
  ASSUME Place', avail' = {}, pos' = 0, p' = NULL
  PROVE  First'
<1>1. pc' \notin Filling
  BY DEF Place
<1>2. 1..pos' = {}
  OBVIOUS
<1>. QED
  BY <1>1, <1>2 DEF First

LEMMA FirstRead ==
  ASSUME Place, Place', Strings, First, Read
  PROVE  First'
<1>1. /\ pos' = pos + 1 /\ pos \in Nat /\ UNCHANGED <<devices, avail, listing, p>>
      /\ pc = "readdir" /\ p = NULL
  BY DEF Read, Place, Strings, fill
<1>2. \A t \in Types \ avail : \A j \in 1..pos : ~Links(t, j)
  BY <1>1 DEF First, Filling
<1>3. \A t \in Types : Wanted(t, listing[pos + 1]) <=> Links(t, pos + 1) /\ t \notin avail
  BY DEF Wanted, Links
<1>4. \A t \in Types \ avail : Links(t, pos + 1) => pc' = "copy" /\ t = type'
  <2>. SUFFICES ASSUME NEW t \in Types \ avail, Links(t, pos + 1)
                PROVE  pc' = "copy" /\ t = type'
    OBVIOUS
  <2>1. Wanted(t, listing[pos + 1])
    BY <1>3
  <2>2. PICK u \in Types : Wanted(u, listing[pos + 1]) /\ type' = u /\ pc' = "copy"
    BY <2>1 DEF Read
  <2>. QED
    BY <1>3, <2>2, KindsDiffer DEF Links
<1>5. pc' = "copy" => Links(type', pos + 1)
  BY <1>1, <1>3 DEF Read
<1>6. pc' \in {"copy", "readdir"}
  BY <1>1 DEF Read
<1>7. \A t \in Types \ avail : \A j \in 1..(pos + 1) : Links(t, j) => pc' = "copy" /\ t = type' /\ j = pos + 1
  BY <1>1, <1>2, <1>4
<1>. QED
  BY <1>1, <1>5, <1>6, <1>7, LinksNext DEF First, Filling

LEMMA FirstName ==
  ASSUME Place, Place', Strings, First, Name
  PROVE  First'
<1>1. CASE pc' = "unfill"
  BY <1>1, FirstAside DEF Name, Filling, scan
<1>2. CASE pc' # "unfill"
  <2>. DEFINE b == Block("name")
  <2>1. /\ pc = "name" /\ p' = b /\ pc' \in {"fd", "filled"}
        /\ devices' = [devices EXCEPT ![type] = [name |-> b, id |-> listing[pos].id]]
        /\ UNCHANGED <<listing, pos, avail, type>>
    BY <1>2 DEF Name, scan
  <2>. HIDE DEF b
  <2>2. type \in Types \ avail
    BY <2>1 DEF Place, Filling
  <2>3. devices'[type].id = listing[pos].id /\ \A t \in avail : devices'[t] = devices[t]
    BY <2>1, <2>2 DEF Place
  <2>. QED
    BY <2>1, <2>2, <2>3, LinksNext DEF First, Filling
<1>. QED
  BY <1>1, <1>2

LEMMA FirstFilled ==
  ASSUME Place, Place', Strings, First, Filled
  PROVE  First'
<1>1. /\ pc = "filled" /\ pc' = "readdir" /\ p' = NULL /\ p # NULL
      /\ avail' = avail \cup {type} /\ UNCHANGED <<devices, listing, pos, type>>
  BY DEF Filled, Goto, Strings
<1>2. /\ type \in Types \ avail /\ devices[type].name.entry = pos
      /\ devices[type].id = listing[pos].id /\ Links(type, pos)
  BY <1>1 DEF Place, Strings, First, Filling
<1>3. \A j \in 1..(pos - 1) : ~Links(type, j)
  BY <1>2 DEF First, Place
<1>4. \A t \in Types \ avail' : \A j \in 1..pos : ~Links(t, j)
  BY <1>1 DEF First
<1>. QED
  BY <1>1, <1>2, <1>3, <1>4, LinksNext DEF First, Filling

LEMMA FirstUnfill ==
  ASSUME Place, Place', Strings, First, Unfill
  PROVE  First'
<1>1. /\ pc = "unfill" /\ pc' = "cleanup" /\ p' = NULL
      /\ UNCHANGED <<listing, pos, avail, type>>
  BY DEF Unfill, Goto, scan
<1>2. \A t \in avail : devices'[t] = devices[t]
  BY <1>1 DEF Unfill, Place, Filling
<1>. QED
  BY <1>1, <1>2, LinksNext DEF First, Filling

LEMMA FirstNext ==
  ASSUME Place, Place', Strings, Strings', First, [Next]_vars
  PROVE  First'
<1>. USE DEF scan, fill, open, hist
<1>1. CASE pos' = 0 /\ avail' = {}
  <2>1. pc' \notin Filling
    BY <1>1 DEF Place
  <2>2. p' = NULL
    BY <2>1 DEF Strings, Filling
  <2>. QED
    BY <1>1, <2>2, FirstNone
<1>2. Exit \/ CleanUp \/ Deinit \/ Call \/ SetupVfio \/ OpenDir => pos' = 0 /\ avail' = {}
  BY DEF Exit, CleanUp, Deinit, Call, SetupVfio, OpenDir, Fails, ForgetScan, Goto, Place
<1>3. CASE Read
  BY <1>3, FirstRead
<1>4. CASE CloseDir
  BY <1>4, FirstAside DEF CloseDir, Filling
<1>5. CASE Copy \/ GetFd \/ GetInfo
  BY <1>5, FirstAside DEF Copy, GetFd, GetInfo, Filling
<1>6. CASE Name
  BY <1>6, FirstName
<1>7. CASE Filled
  BY <1>7, FirstFilled
<1>8. CASE Unfill
  BY <1>8, FirstUnfill
<1>9. CASE Portal \/ InitAiop
  BY <1>9, FirstAside DEF Portal, InitAiop, Filling
<1>10. CASE UNCHANGED vars
  BY <1>10, FirstAside DEF vars
<1>. QED
  BY <1>1, <1>2, <1>3, <1>4, <1>5, <1>6, <1>7, <1>8, <1>9, <1>10 DEF Next

LEMMA InFirst == Spec => [](Place /\ Strings /\ First)
<1>1. Init => First
  BY DEF Init, First, Filling
<1>2. Place /\ Place' /\ Strings /\ Strings' /\ First /\ [Next]_vars => First'
  BY FirstNext
<1>. QED
  BY <1>1, <1>2, InStrings, PTL DEF Spec

\* The dpmcp and the dpaiop in use are the first of the directory, name and id
\* of the same entry.
THEOREM TakesFirst == Spec => []FirstOfEach
<1>1. Place /\ Strings /\ First => FirstOfEach
  <2>. SUFFICES ASSUME Place, Strings, First, pc \in {"portal", "aiop"} \/ obj = "ready",
                       NEW t \in Types
                PROVE  \E k \in 1..Len(listing) :
                         /\ listing[k].link /\ listing[k].kind = Kind[t]
                         /\ \A j \in 1..(k - 1) : ~(listing[j].link /\ listing[j].kind = Kind[t])
                         /\ devices[t].name # NULL /\ devices[t].name.entry = k
                         /\ devices[t].id = listing[k].id
    BY DEF FirstOfEach
  <2>1. t \in avail /\ pos \in 0..Len(listing) /\ Len(listing) \in Nat
    BY DEF Place
  <2>2. devices[t].name # NULL /\ devices[t].name.entry \in 1..pos
    BY <2>1 DEF Strings
  <2>3. devices[t].name.entry \in 1..Len(listing)
    BY <2>1, <2>2
  <2>. QED
    BY <2>1, <2>2, <2>3 DEF First, Links
<1>. QED
  BY <1>1, InFirst, PTL

-----------------------------------------------------------------------------
(* What is lost                                                             *)

LEMMA LossNext ==
  ASSUME Place, Place', Loss, [Next]_vars
  PROVE  Loss'
<1>. USE BoundsAssumption DEF Place, Loss, Unopened, Filling, scan, fill, open, hist
<1>0. inits \in Nat /\ failed \in Nat /\ dirs \in Nat /\ devs \in Nat
  OBVIOUS
<1>1. CASE Exit
  BY <1>1 DEF Exit
<1>2. CASE Call
  <2>1. /\ inits' = inits + 1 /\ failed' = failed /\ dirs' = dirs /\ devs' = devs
        /\ pc = "idle" /\ pc' = "vfio"
    BY <1>2 DEF Call, Goto
  <2>2. dirs <= failed /\ devs <= 2 * inits
    BY <2>1
  <2>3. devs <= 2 * (inits + 1) - 2
    BY <1>0, <2>2
  <2>4. devs <= 2 * (inits + 1)
    BY <1>0, <2>2
  <2>5. dirs <= failed + 1
    BY <1>0, <2>2
  <2>. HIDE DEF Place
  <2>. QED
    BY <2>1, <2>2, <2>3, <2>4, <2>5
<1>3. CASE SetupVfio
  <2>1. UNCHANGED <<dirs, devs, inits>> /\ dirs <= failed /\ pc = "vfio"
    BY <1>3 DEF SetupVfio
  <2>2. CASE Fails
    BY <1>0, <2>1, <2>2 DEF Fails
  <2>3. CASE UNCHANGED <<obj, scan, failed>> /\ pc' = "opendir"
    BY <1>0, <2>1, <2>3
  <2>. QED
    BY <1>3, <2>2, <2>3 DEF SetupVfio
<1>14. CASE OpenDir
  <2>1. devs' = devs /\ inits' = inits /\ dirs <= failed /\ pc = "opendir"
    BY <1>14 DEF OpenDir
  <2>2. CASE Fails
    BY <1>0, <1>14, <2>1, <2>2 DEF OpenDir, Fails
  <2>3. CASE dirs' = dirs + 1 /\ failed' = failed /\ pc' = "readdir" /\ obj' = obj /\ avail' = {}
    <3>1. Unopened' => Unopened
      BY <2>1, <2>3
    <3>. QED
      BY <1>0, <2>1, <2>3, <3>1
  <2>. QED
    BY <1>14, <2>2, <2>3 DEF OpenDir, Fails
<1>4. CASE Read
  BY <1>0, <1>4 DEF Read
<1>5. CASE CloseDir
  <2>1. UNCHANGED <<devs, inits, failed>> /\ dirs' = dirs - 1 /\ pc' \in {"portal", "cleanup"}
    BY <1>5 DEF CloseDir, DirsLeft
  <2>2. ~Unopened'
    BY <1>5 DEF CloseDir, Types
  <2>. QED
    BY <1>0, <2>1, <2>2
<1>6. CASE Copy \/ Name
  BY <1>0, <1>6 DEF Copy, Name
<1>7. CASE GetFd
  BY <1>0, <1>7 DEF GetFd
<1>15. CASE GetInfo
  BY <1>0, <1>15 DEF GetInfo
<1>8. CASE Filled
  <2>1. /\ UNCHANGED <<dirs, devs, inits, failed, obj>> /\ pc = "filled" /\ pc' = "readdir"
        /\ avail' = avail \cup {type}
    BY <1>8 DEF Filled, Goto
  <2>2. Unopened' => Unopened
    BY <2>1
  <2>. QED
    BY <2>1, <2>2
<1>12. CASE Unfill
  <2>1. UNCHANGED <<dirs, devs, inits, failed>> /\ pc = "unfill" /\ pc' = "cleanup"
    BY <1>12 DEF Unfill, Goto
  <2>. QED
    BY <2>1
<1>9. CASE Portal \/ InitAiop
  BY <1>0, <1>9 DEF Portal, InitAiop
<1>10. CASE CleanUp
  BY <1>0, <1>10 DEF CleanUp, Fails, ForgetScan
<1>13. CASE Deinit
  BY <1>0, <1>13 DEF Deinit, ForgetScan
<1>11. CASE UNCHANGED vars
  BY <1>11 DEF vars
<1>. QED
  BY <1>1, <1>2, <1>3, <1>4, <1>5, <1>6, <1>7, <1>8, <1>9, <1>10, <1>11, <1>12,
     <1>13, <1>14, <1>15 DEF Next

\* A process loses at most a directory with each aiopt_init that failed, and
\* two descriptors of the dpaiop with each aiopt_init, those that succeeded
\* included.
THEOREM Bounded == Spec => []LossBounded
<1>1. Init => Loss
  BY DEF Init, Loss, Unopened, Filling
<1>2. Place /\ Place' /\ Loss /\ [Next]_vars => Loss'
  BY LossNext
<1>3. Loss => LossBounded
  BY DEF Loss, LossBounded, Filling
<1>. QED
  BY <1>1, <1>2, <1>3, InPlace, PTL DEF Spec

-----------------------------------------------------------------------------
(* LoadBuffer: the rounding of a size                                       *)

\* Every size is some pages and a rest of less than one.
LEMMA Split ==
  ASSUME NEW n \in Nat
  PROVE  \E q \in Nat, r \in 0..4095 : n = 4096 * q + r
<1>. DEFINE q == n \div 4096
<1>1. q \in Nat /\ 4096 * q <= n /\ n < 4096 * q + 4096
  BY SMT
<1>. HIDE DEF q
<1>2. n - 4096 * q \in 0..4095 /\ n = 4096 * q + (n - 4096 * q)
  BY <1>1, SMT
<1>. QED
  BY <1>1, <1>2

\* What rounding a legal size does: it ends in the page of the last byte.
LEMMA Rounding ==
  ASSUME NEW k \in Kinds, NEW n \in 1..Limit(k)
  PROVE  /\ AlignedSize(k, n) \in n..MAX_AIOP_IMAGE_FILE_SZ
         /\ AlignedSize(k, n) - n < AIOPT_ALIGNED_PAGE_SZ
         /\ AlignedSize(k, n) % AIOPT_ALIGNED_PAGE_SZ = 0
         /\ PagesOf(AlignedSize(k, n)) = PagesOf(n)
         /\ AlignedSize(k, n) = PagesOf(n) * AIOPT_ALIGNED_PAGE_SZ
         /\ PagesOf(n) \in 0..PagesOf(Limit(k))
<1>. USE DEF AIOPT_ALIGNED_PAGE_SZ
<1>1. /\ MAX_AIOP_IMAGE_FILE_SZ = 8388608
      /\ k \in {"image", "args"}
      /\ Limit(k) = IF k = "image" THEN 8388608 ELSE 512
      /\ n \in 1..Limit(k) /\ n \in Nat
  BY SMT DEF Kinds, Limit, MAX_AIOP_IMAGE_FILE_SZ, MAX_AIOP_ARGS_FILE_SZ
<1>2. PICK q \in Nat, r \in 0..4095 : n = 4096 * q + r
  BY <1>1, Split, SMTT(30)
<1>3. /\ RoundUp(n) = 4096 * (q + 1) /\ n % 4096 = r
      /\ PagesOf(n) = IF r = 0 THEN q ELSE q + 1
  <2>1. n % 4096 = r
    BY <1>2, SMT
  <2>2. (n + 4096) \div 4096 = q + 1
    <3>1. (4096 * (q + 1) + r) \div 4096 = q + 1
      BY SMT
    <3>. QED
      BY <1>2, <3>1, SMT
  <2>3. (n + 4096 - 1) \div 4096 = IF r = 0 THEN q ELSE q + 1
    <3>1. CASE r = 0
      BY <1>2, <3>1, SMT
    <3>2. CASE r # 0
      <4>1. (4096 * (q + 1) + (r - 1)) \div 4096 = q + 1
        BY <3>2, SMT
      <4>2. n + 4096 - 1 = 4096 * (q + 1) + (r - 1)
        BY <1>2, SMT
      <4>. QED
        BY <3>2, <4>1, <4>2, SMT
    <3>. QED
      BY <3>1, <3>2
  <2>. QED
    BY <2>1, <2>2, <2>3, SMT DEF RoundUp, PagesOf
<1>4. \A c \in Nat : (4096 * c) % 4096 = 0 /\ PagesOf(4096 * c) = c
  <2>. SUFFICES ASSUME NEW c \in Nat  PROVE (4096 * c) % 4096 = 0 /\ PagesOf(4096 * c) = c
    OBVIOUS
  <2>1. (4096 * c) % 4096 = 0 /\ (4096 * c + 4096 - 1) \div 4096 = c
    BY SMT
  <2>. QED
    BY <2>1 DEF PagesOf
<1>5. PagesOf(Limit(k)) = IF k = "image" THEN 2048 ELSE 1
  BY <1>1, SMT DEF PagesOf
\* The pages that the rounded size takes.
<1>. DEFINE c == IF r = 0 THEN q ELSE q + 1
<1>6. /\ AlignedSize(k, n) = 4096 * c /\ PagesOf(n) = c
      /\ n <= 4096 * c /\ 4096 * c - n < 4096
      /\ c \in Nat /\ c <= PagesOf(Limit(k))
  <2>1. k = "args" => r # 0 /\ q = 0
    <3>1. k = "args" => 1 <= n /\ n <= 512
      BY <1>1
    <3>. QED
      BY <1>2, <3>1, SMTT(30)
  <2>2. c \in Nat /\ n <= 4096 * c /\ 4096 * c - n < 4096
    BY <1>2, SMT
  <2>3. c <= PagesOf(Limit(k))
    BY <1>1, <1>2, <1>5, <2>1, SMT
  <2>4. AlignedSize(k, n) = 4096 * c
    BY <1>1, <1>2, <1>3, <2>1, SMT DEF AlignedSize
  <2>. QED
    BY <1>3, <2>2, <2>3, <2>4
<1>. HIDE DEF c
<1>7. 4096 * c \in n..8388608 /\ c \in 0..PagesOf(Limit(k))
  BY <1>1, <1>5, <1>6, SMT
<1>. QED
  BY <1>1, <1>4, <1>6, <1>7, SMT

LEMMA Limits ==
  /\ MAX_AIOP_IMAGE_FILE_SZ \in Nat
  /\ \A k \in Kinds : Limit(k) \in Nat /\ PagesOf(Limit(k)) \in Nat
BY SMT DEF Kinds, Limit, PagesOf, MAX_AIOP_IMAGE_FILE_SZ, MAX_AIOP_ARGS_FILE_SZ, AIOPT_ALIGNED_PAGE_SZ

\* The limits hold at the start and along every step: the whole invariant, one
\* step per action.
LEMMA LoadInductive == LoadInv /\ [LoadNext]_load_vars => LoadInv'
<1>. SUFFICES ASSUME LoadInv, [LoadNext]_load_vars  PROVE LoadInv'
  OBVIOUS
<1>. USE SizesAssumption, Limits DEF LoadInv, LoadTypeOK
<1>0. ASSUME NEW n \in 1..Limit(kind)
      PROVE  /\ AlignedSize(kind, n) \in 0..MAX_AIOP_IMAGE_FILE_SZ
             /\ PagesOf(AlignedSize(kind, n)) = PagesOf(n)
             /\ PagesOf(n) \in 0..PagesOf(Limit(kind))
  BY Limits, Rounding, SMT
<1>1. CASE Begin
  BY <1>1 DEF Begin, Sized, Unmapped, Mapped, Reached, Given, NoFile, NoLoad
<1>2. CASE Stat
  <2>1. CASE file.size \in 1..Limit(kind)
    <3>1. filesize' = file.size /\ load_pc' = "open"
      BY <1>2, <2>1 DEF Stat
    <3>2. filesize' \in 1..Limit(kind)
      BY <2>1, <3>1
    <3>. QED
      BY <1>2, <3>1, <3>2 DEF Stat, Sized, Unmapped, Mapped, Reached, Given
  <2>2. CASE file.size \notin 1..Limit(kind)
    BY <1>2, <2>2 DEF Stat, Sized, Unmapped, Mapped, Reached, Given
  <2>. QED
    BY <2>1, <2>2
<1>3. CASE Open
  BY <1>3 DEF Open, Sized, Unmapped, Mapped, Reached, Given
<1>4. CASE Map
  BY <1>0, <1>4 DEF Map, Sized, Unmapped, Mapped, Reached, Given
<1>5. CASE DmaMap
  BY <1>0, <1>5 DEF DmaMap, Sized, Unmapped, Mapped, Reached, Given
<1>6. CASE Load
  BY <1>6 DEF Load, Sized, Unmapped, Mapped, Reached, Given
<1>7. CASE DmaUnmap
  BY <1>7 DEF DmaUnmap, Sized, Unmapped, Mapped, Reached, Given
<1>8. CASE Out
  <2>1. pages \in {0, PagesOf(filesize)}
    BY <1>0, <1>8 DEF Out, Sized, Mapped
  <2>2. pages' = 0
    BY <1>0, <1>8, <2>1 DEF Out, Sized
  <2>. QED
    BY <1>8, <2>2 DEF Out, Sized, Unmapped, Mapped, Reached, Given, NoFile, NoLoad
<1>9. CASE Change
  BY <1>9 DEF Change, Sized, Unmapped, Mapped, Reached, Given
<1>10. CASE UNCHANGED load_vars
  BY <1>10 DEF load_vars, Sized, Unmapped, Mapped, Reached, Given
<1>. QED
  BY <1>1, <1>2, <1>3, <1>4, <1>5, <1>6, <1>7, <1>8, <1>9, <1>10 DEF LoadNext, LoadStep

\* Every load, whoever changes the file meanwhile, keeps the invariant.
THEOREM LoadInvariance == LoadSpec => []LoadInv
<1>1. LoadInit => LoadInv
  BY SizesAssumption, Limits DEF LoadInit, LoadInv, LoadTypeOK, Sized, Unmapped, Mapped, Reached, Given,
     NoFile, NoLoad
<1>. QED
  BY <1>1, LoadInductive, PTL DEF LoadSpec

\* The device can reach all of what the MC is told to read, and nothing behind
\* the page of its last byte.
THEOREM Fits == LoadSpec => []BufferFits
<1>1. LoadInv => BufferFits
  <2>. SUFFICES ASSUME LoadInv, given # NoLoad, load_pc = "unmap"
                PROVE  /\ given.size <= reach
                       /\ reach - given.size < AIOPT_ALIGNED_PAGE_SZ
                       /\ reach % AIOPT_ALIGNED_PAGE_SZ = 0
                       /\ reach = pages * AIOPT_ALIGNED_PAGE_SZ
    BY DEF BufferFits
  <2>1. filesize \in 1..Limit(kind) /\ kind \in Kinds /\ given.size = filesize
    BY DEF LoadInv, LoadTypeOK, Sized, Given
  <2>2. reach = AlignedSize(kind, filesize) /\ pages = PagesOf(AlignedSize(kind, filesize))
    BY DEF LoadInv, Reached, Mapped
  <2>3. /\ filesize <= AlignedSize(kind, filesize)
        /\ AlignedSize(kind, filesize) - filesize < AIOPT_ALIGNED_PAGE_SZ
        /\ AlignedSize(kind, filesize) % AIOPT_ALIGNED_PAGE_SZ = 0
        /\ AlignedSize(kind, filesize) = PagesOf(AlignedSize(kind, filesize)) * AIOPT_ALIGNED_PAGE_SZ
    BY <2>1, Rounding
  <2>. QED
    BY <2>1, <2>2, <2>3
<1>. QED
  BY <1>1, LoadInvariance, PTL

\* Every page that a load mapped is unmapped when it returns.
THEOREM Released == LoadSpec => []PagesReleased
<1>1. LoadInv => PagesReleased
  BY DEF LoadInv, Unmapped, Reached, PagesReleased
<1>. QED
  BY <1>1, LoadInvariance, PTL

\* Rounding never asks the kernel for a page that a legal file does not have.
THEOREM Loadable == LoadSpec => []LegalFileLoads
<1>1. LoadInv => LegalFileLoads
  <2>. SUFFICES ASSUME LoadInv, load_pc = "dma", opened.size = filesize
                PROVE  pages <= PagesOf(opened.size)
    BY DEF LegalFileLoads
  <2>1. filesize \in 1..Limit(kind) /\ kind \in Kinds
    BY DEF LoadInv, LoadTypeOK, Sized
  <2>2. pages = PagesOf(filesize) /\ PagesOf(filesize) \in Int
    <3>1. pages = PagesOf(AlignedSize(kind, filesize)) /\ pages \in Int
      BY DEF LoadInv, LoadTypeOK, Mapped
    <3>. QED
      BY <2>1, <3>1, Rounding
  <2>. QED
    BY <2>2
<1>. QED
  BY <1>1, LoadInvariance, PTL

=============================================================================
