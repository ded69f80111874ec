----------------------------- MODULE LoadBuffer -----------------------------
(***************************************************************************)
(* The memory of a load, src/aiop_lib.c: how many bytes of which file the   *)
(* MC is told to read, and how many pages are mapped for them.  aiopt_load  *)
(* takes the size of a file by its name, opens the file, maps it rounded up *)
(* to pages, shows the pages to the device, and gives the MC the size.      *)
(* Image and argument file take the same steps with limits and roundings of *)
(* their own; one of them is followed.  Somebody else may write a new file  *)
(* under the same name, or write over the old one, at any time.             *)
(***************************************************************************)
EXTENDS Integers

CONSTANTS
  Sizes,        \* sizes that files have
  MaxChanges    \* bound on the changes of the file

MAX_AIOP_IMAGE_FILE_SZ == 8 * 1024 * 1024
MAX_AIOP_ARGS_FILE_SZ  == 512
AIOPT_ALIGNED_PAGE_SZ  == 4096

ASSUME SizesAssumption == Sizes \subseteq Nat /\ MaxChanges \in Nat

Kinds == {"image", "args"}

VARIABLES
  kind,         \* the file that is followed
  file,         \* what is under its name: [size, version]
  opened,       \* what the descriptor stands for
  load_pc,      \* next step, or "off" when no load is in progress
  filesize,     \* the local variable of that name, or args_filesize
  pages,        \* pages mapped in memory
  reach,        \* bytes from the start of the buffer that are mapped for the
                \* device and not given up
  given         \* what the MC was told to read: size and data

load_vars == <<kind, file, opened, load_pc, filesize, pages, reach, given>>

NoFile == [size |-> 0, version |-> 0]
NoLoad == [size |-> 0, data |-> NoFile]

LoadInit ==
  /\ kind \in Kinds
  /\ file \in [size : Sizes, version : {1}] /\ opened = NoFile
  /\ load_pc = "off" /\ filesize = 0 /\ pages = 0 /\ reach = 0 /\ given = NoLoad

-----------------------------------------------------------------------------
(* A definition whose name ends in an underscore and a fault is a faulty    *)
(* form of the one after it; no behaviour uses it.                          *)

Limit(k) == IF k = "image" THEN MAX_AIOP_IMAGE_FILE_SZ ELSE MAX_AIOP_ARGS_FILE_SZ

RoundUp(n) == ((n + AIOPT_ALIGNED_PAGE_SZ) \div AIOPT_ALIGNED_PAGE_SZ) * AIOPT_ALIGNED_PAGE_SZ

\* The image is rounded up unless it already fills its pages, the arguments
\* always.
AlignedSize_Down(k, n) == (n \div AIOPT_ALIGNED_PAGE_SZ) * AIOPT_ALIGNED_PAGE_SZ
AlignedSize_AlwaysUp(k, n) == RoundUp(n)
AlignedSize(k, n) ==
  IF k = "image" /\ n % AIOPT_ALIGNED_PAGE_SZ = 0 THEN n ELSE RoundUp(n)

\* Pages of n bytes, as the kernel counts them.
PagesOf(n) == (n + AIOPT_ALIGNED_PAGE_SZ - 1) \div AIOPT_ALIGNED_PAGE_SZ

-----------------------------------------------------------------------------
(* One file on its way through aiopt_load                                   *)

Begin ==
  /\ load_pc = "off"
  /\ load_pc' = "stat"
  /\ opened' = NoFile /\ filesize' = 0 /\ given' = NoLoad
  /\ UNCHANGED <<kind, file, pages, reach>>

\* get_aiop_image_fd and get_aiop_args_fd
Stat ==
  /\ load_pc = "stat"
  /\ IF file.size \in 1..Limit(kind)
       THEN filesize' = file.size /\ load_pc' = "open"
       ELSE load_pc' = "off" /\ UNCHANGED filesize
  /\ UNCHANGED <<kind, file, opened, pages, reach, given>>

Open ==
  /\ load_pc = "open"
  /\ \/ opened' = file /\ load_pc' = "map"
     \/ load_pc' = "off" /\ UNCHANGED opened
  /\ UNCHANGED <<kind, file, filesize, pages, reach, given>>

\* The file is copied into private pages as it is mapped.
Map ==
  /\ load_pc = "map"
  /\ \/ pages' = PagesOf(AlignedSize(kind, filesize)) /\ load_pc' = "dma"
     \/ load_pc' = "out" /\ UNCHANGED pages
  /\ UNCHANGED <<kind, file, opened, filesize, reach, given>>

\* A page that lies behind the end of the file cannot be shown to the device.
DmaMap ==
  /\ load_pc = "dma"
  /\ \/ pages <= PagesOf(opened.size) /\ reach' = AlignedSize(kind, filesize) /\ load_pc' = "load"
     \/ load_pc' = "out" /\ UNCHANGED reach
  /\ UNCHANGED <<kind, file, opened, filesize, pages, given>>

\* perform_dpaiop_load fills load_cfg and run_cfg, or fails before it does.
Load ==
  /\ load_pc = "load"
  /\ given' \in {given, [size |-> filesize, data |-> opened]}
  /\ load_pc' = "unmap"
  /\ UNCHANGED <<kind, file, opened, filesize, pages, reach>>

DmaUnmap ==
  /\ load_pc = "unmap"
  /\ reach' = 0 /\ load_pc' = "out"
  /\ UNCHANGED <<kind, file, opened, filesize, pages, given>>

\* err_out: what is unmapped is the size of the file, not of the mapping.
Out ==
  /\ load_pc = "out"
  /\ pages' = IF pages > PagesOf(filesize) THEN pages - PagesOf(filesize) ELSE 0
  /\ opened' = NoFile /\ given' = NoLoad
  /\ load_pc' = "off"
  /\ UNCHANGED <<kind, file, filesize, reach>>

\* A new file takes the name, or new contents take the file; pages that are
\* mapped are copies and stay.
Change ==
  /\ file.version <= MaxChanges
  /\ \E n \in Sizes : file' = [size |-> n, version |-> file.version + 1]
  /\ opened' \in IF load_pc = "map" THEN {opened, file'} ELSE {opened}
  /\ UNCHANGED <<kind, load_pc, filesize, pages, reach, given>>

LoadStep == Stat \/ Open \/ Map \/ DmaMap \/ Load \/ DmaUnmap \/ Out

LoadNext == Begin \/ LoadStep \/ Change

LoadSpec == LoadInit /\ [][LoadNext]_load_vars

-----------------------------------------------------------------------------
(* Properties                                                               *)

\* Types, and the limits: no buffer is larger than the largest file rounded up.
LoadTypeOK ==
  /\ kind \in Kinds
  /\ file.size \in Sizes /\ file.version \in 1..(MaxChanges + 1)
  /\ opened.size \in Sizes \cup {0} /\ opened.version \in 0..(MaxChanges + 1)
  /\ load_pc \in {"off", "stat", "open", "map", "dma", "load", "unmap", "out"}
  /\ filesize \in 0..Limit(kind)
  /\ pages \in 0..PagesOf(Limit(kind))
  /\ reach \in 0..MAX_AIOP_IMAGE_FILE_SZ

\* All that the MC is told to read lies in whole pages the device can reach,
\* and those end with the page of the last byte: nothing else is in its reach.
BufferFits ==
  given # NoLoad /\ load_pc = "unmap" =>
    /\ given.size <= reach
    /\ reach - given.size < AIOPT_ALIGNED_PAGE_SZ
    /\ reach % AIOPT_ALIGNED_PAGE_SZ = 0 /\ reach = pages * AIOPT_ALIGNED_PAGE_SZ

\* Unmapping by the size of the file gives back every page that was mapped by
\* the rounded size, on every path.
PagesReleased == load_pc = "off" => pages = 0 /\ reach = 0

\* A file that did not change since its size was taken can be shown to the
\* device: the rounding adds no page behind its end.
LegalFileLoads ==
  load_pc = "dma" /\ opened.size = filesize => pages <= PagesOf(opened.size)

\* What a load has established at each step; inductive.
Sized    == load_pc \in {"open", "map", "dma", "load", "unmap", "out"} => filesize \in 1..Limit(kind)
Unmapped == load_pc \in {"off", "stat", "open", "map"} => pages = 0
Mapped   == /\ load_pc \in {"dma", "load", "unmap"} => pages = PagesOf(AlignedSize(kind, filesize))
            /\ load_pc = "out" => pages \in {0, PagesOf(AlignedSize(kind, filesize))}
Reached  == reach = (IF load_pc \in {"load", "unmap"} THEN AlignedSize(kind, filesize) ELSE 0)
Given    == given # NoLoad => load_pc \in {"unmap", "out"} /\ given.size = filesize
LoadInv == LoadTypeOK /\ Sized /\ Unmapped /\ Mapped /\ Reached /\ Given

-----------------------------------------------------------------------------
(* What the sources say and the library does not do                          *)

\* aiop_lib.c:627 "filesize Size of data in addr"
SizeIsOfData == given # NoLoad => given.size = given.data.size

=============================================================================
