------------------------------ MODULE AiopLib -------------------------------
(***************************************************************************)
(* The AIOP library, src/aiop_lib.c: the aiopt_ calls a process makes on    *)
(* its handle, one action per step that can fail, with the MC's sessions   *)
(* and the AIOP tile that outlive the process.                             *)
(*                                                                         *)
(* Every call that talks to the MC opens a session on the dpaiop object,   *)
(* sends its commands with the session's token, which is kept by reference *)
(* in the handle, and closes the session.  aiopt_load wraps that in opening *)
(* and mapping the image and argument files and making them visible to the *)
(* device.  Everything outside the library is external and may fail at any  *)
(* time: files, memory, VFIO (module of its own), and each MC command.     *)
(* A process may end anywhere; the kernel then takes back its descriptors  *)
(* and mappings, and may or may not have the MC close its sessions.        *)
(***************************************************************************)
EXTENDS Integers, Sequences, FiniteSets

CONSTANTS
  Tokens,       \* session tokens the MC hands out
  NoToken       \* devices[AIOP_TYPE].token before the first open

ASSUME TokensAssumption == IsFiniteSet(Tokens) /\ NoToken \notin Tokens

Ops   == {"init", "gettod", "settod", "status", "reset", "load", "deinit"}
Files == {"image", "args"}
\* The states a command leaves; the two that last only while the MC executes
\* one (reset and load ongoing) are inside its step.
Tiles == {"RESET_DONE", "LOAD_DONE", "LOAD_ERROR", "BOOT_ONGOING", "BOOT_ERROR", "RUNNING"}
Body  == {"get_sl_version", "get_state", "get_time_of_day", "set_time_of_day",
          "reset", "load", "run"}
InSession == Body \cup {"close"}
Results == {"SUCCESS", "FAILURE"}

VARIABLES
  \* the MC and the tile
  sessions,     \* open sessions on the dpaiop object
  leaked,       \* history: sessions whose close failed or whose process died
  tile,         \* state of the AIOP tile
  \* the handle
  obj,          \* "none", "building" (inside aiopt_init) or "ready"
  token,        \* devices[AIOP_TYPE].token, stale outside a session
  \* the call in progress
  pc,           \* next step, or "off" (no process), "idle", "return"
  op, args,     \* the call and its arguments
  ret,          \* local variable ret
  dpaiop,       \* struct fsl_mc_io is allocated
  trace,        \* history: MC commands of this call and their success
  \* aiopt_load
  args_fd,      \* local variable: "uninitialised", "failed" or "open"
  fds,          \* files held open
  mm,           \* files mapped in memory
  dma,          \* mappings made for the device and not given up
  alien         \* history: a descriptor the call did not open was closed

mcVars   == <<sessions, leaked, tile>>
objVars  == <<obj, token>>
callVars == <<pc, op, args, ret, dpaiop, trace>>
loadVars == <<args_fd, fds, mm, dma, alien>>
vars     == <<mcVars, objVars, callVars, loadVars>>

NoArgs == [afile |-> FALSE, reset |-> FALSE, out |-> TRUE]

\* Arguments that change what a call does: an argument file, the reset flag,
\* a non-NULL output pointer.
ArgsOf(o) ==
  CASE o = "load" -> [afile : BOOLEAN, reset : BOOLEAN, out : {TRUE}]
    [] o \in {"gettod", "status"} -> [afile : {FALSE}, reset : {FALSE}, out : BOOLEAN]
    [] OTHER -> {NoArgs}

Init ==
  /\ sessions = {} /\ leaked = {} /\ tile \in Tiles
  /\ obj = "none" /\ token = NoToken
  /\ pc = "off" /\ op = "deinit" /\ args = NoArgs /\ ret = "SUCCESS"
  /\ dpaiop = FALSE /\ trace = <<>>
  /\ args_fd = "uninitialised" /\ fds = {} /\ mm = {} /\ dma = {} /\ alien = FALSE

-----------------------------------------------------------------------------
(* The control flow.  A definition whose name ends in an underscore and a   *)
(* fault is a faulty form of the one after it; no behaviour uses it.        *)

Ok(c)     == \E k \in 1..Len(trace) : trace[k] = <<c, TRUE>>
Failed(c) == \E k \in 1..Len(trace) : trace[k] = <<c, FALSE>>

Entry(o) ==
  CASE o = "init"   -> "vfio"
    [] o = "load"   -> "open_image"
    [] o = "deinit" -> "return"
    [] OTHER        -> "alloc"

FirstCommand_LoadResets(o, a) ==
  CASE o \in {"init", "status"} -> "get_sl_version"
    [] o = "gettod" -> "get_time_of_day"
    [] o = "settod" -> "set_time_of_day"
    [] OTHER -> "reset"
FirstCommand(o, a) ==
  CASE o \in {"init", "status"} -> "get_sl_version"
    [] o = "gettod" -> "get_time_of_day"
    [] o = "settod" -> "set_time_of_day"
    [] o = "reset" \/ a.reset -> "reset"
    [] OTHER -> "load"

\* Where the call goes after command c: every path through a session closes it.
NextCommand_SkipClose(o, c, ok) ==
  CASE c = "get_sl_version" /\ o = "status" -> IF ok THEN "get_state" ELSE "return"
    [] c = "reset" /\ o = "load" -> "load"
    [] c = "load" /\ ok -> "run"
    [] OTHER -> "close"
NextCommand_Retry(o, c, ok) ==
  CASE c = "get_sl_version" /\ o = "status" /\ ok -> "get_state"
    [] c = "reset" /\ o = "load" -> IF ok THEN "load" ELSE "reset"
    [] c = "load" /\ ok -> "run"
    [] OTHER -> "close"
NextCommand(o, c, ok) ==
  CASE c = "get_sl_version" /\ o = "status" /\ ok -> "get_state"
    [] c = "reset" /\ o = "load" -> "load"
    [] c = "load" /\ ok -> "run"
    [] OTHER -> "close"

\* After perform_dpaiop_load, aiopt_load unmaps; the others return.
AfterSession_NoUnmap(o) == IF o = "load" THEN "out" ELSE "return"
AfterSession(o) == IF o = "load" THEN "unmap_args" ELSE "return"

\* What the call returns once dpaiop_close returned closed: the three calls
\* that read or set something replace an earlier error by that result.
CloseResult_AsTod(o, r, closed) == IF r = "SUCCESS" THEN r ELSE closed
CloseResult(o, r, closed) ==
  IF o \in {"gettod", "settod", "status"} /\ r # "SUCCESS" THEN closed ELSE r

\* aiopt_load when the DMA mapping of the arguments fails: err_cleanup_elf.
ArgsMapFailed_Out == "out"
ArgsMapFailed == "unmap_image"

\* When dpaiop_open fails, the calls return without touching the device.
OpenFailed_GoOn(o, a) == FirstCommand(o, a)
OpenFailed_Retry(o, a) == "open"
OpenFailed(o, a) == AfterSession(o)

-----------------------------------------------------------------------------
(* Processes and calls                                                      *)

Start ==
  /\ pc = "off"
  /\ pc' = "idle"
  /\ UNCHANGED <<mcVars, objVars, op, args, ret, dpaiop, trace, loadVars>>

\* The process exits or is killed.
Exit ==
  /\ pc # "off"
  /\ pc' = "off"
  /\ LET left == leaked \cup (IF pc \in InSession THEN {token} ELSE {})
     IN  \/ leaked' = left /\ UNCHANGED sessions
         \/ leaked' = {} /\ sessions' = sessions \ left
  /\ obj' = "none" /\ token' = NoToken
  /\ op' = "deinit" /\ args' = NoArgs /\ ret' = "SUCCESS"
  /\ dpaiop' = FALSE /\ trace' = <<>>
  /\ args_fd' = "uninitialised" /\ fds' = {} /\ mm' = {} /\ dma' = {} /\ alien' = FALSE
  /\ UNCHANGED tile

\* aiopt_init makes the handle all other calls take.
Call(o, a) ==
  /\ pc = "idle"
  /\ obj = IF o = "init" THEN "none" ELSE "ready"
  /\ op' = o /\ args' = a
  /\ pc' = IF a.out THEN Entry(o) ELSE "return"
  /\ ret' = IF a.out THEN "SUCCESS" ELSE "FAILURE"
  /\ obj' = CASE o = "init" -> "building" [] o = "deinit" -> "none" [] OTHER -> obj
  /\ args_fd' = "uninitialised"
  /\ UNCHANGED <<mcVars, token, dpaiop, trace, fds, mm, dma, alien>>

Return ==
  /\ pc = "return"
  /\ pc' = "idle"
  /\ op' = "deinit" /\ args' = NoArgs /\ ret' = "SUCCESS" /\ trace' = <<>>
  /\ args_fd' = "uninitialised"
  /\ UNCHANGED <<mcVars, objVars, dpaiop, fds, mm, dma, alien>>

\* A step outside the library that succeeds and leads on, or fails and makes
\* the call fail with what follows.
Step(from, to, onFailure) ==
  /\ pc = from
  /\ \/ pc' = to /\ UNCHANGED ret
     \/ pc' = onFailure /\ ret' = "FAILURE"
  /\ UNCHANGED <<op, args, trace, mcVars>>

\* fsl_vfio_setup; fill_mcp_obj_info and fill_aiop_obj_info on the first dpmcp
\* and dpaiop of the container; setup_mc_portal.  A failure frees the object.
InitStep(from, to) ==
  /\ Step(from, to, "return")
  /\ obj' = IF pc' = "return" THEN "none" ELSE obj
  /\ UNCHANGED <<token, dpaiop, loadVars>>

SetupVfio   == InitStep("vfio", "devices")
SetupDevice == InitStep("devices", "portal")
SetupPortal == InitStep("portal", "alloc")

-----------------------------------------------------------------------------
(* A session with the MC                                                    *)

AllocIo ==
  /\ Step("alloc", "open", AfterSession(op))
  /\ dpaiop' = (pc' = "open")
  /\ obj' = IF pc' # "open" /\ op = "init" THEN "none" ELSE obj
  /\ UNCHANGED <<token, loadVars>>

Open ==
  /\ pc = "open"
  /\ \/ \E t \in Tokens \ sessions :
          /\ sessions' = sessions \cup {t}
          /\ token' = t
          /\ pc' = FirstCommand(op, args)
          /\ UNCHANGED <<obj, dpaiop, ret>>
     \/ /\ pc' = OpenFailed(op, args)
        /\ ret' = "FAILURE"
        /\ dpaiop' = FALSE
        /\ obj' = IF op = "init" THEN "none" ELSE obj
        /\ UNCHANGED <<sessions, token>>
  /\ UNCHANGED <<leaked, tile, op, args, trace, loadVars>>

\* What the MC (external) does to the tile for a command it accepts, or
\* starts and then refuses.
Effect(c, ok) ==
  CASE c = "reset" /\ ok  -> {"RESET_DONE"}
    [] c = "load"  /\ ok  -> {"LOAD_DONE"}
    [] c = "load"  /\ ~ok -> {tile, "LOAD_ERROR"}
    [] c = "run"   /\ ok  -> {"BOOT_ONGOING"}
    [] c = "run"   /\ ~ok -> {tile, "BOOT_ERROR"}
    [] OTHER -> {tile}

\* One MC command on the session of the token in the handle.
Command(c) ==
  /\ pc = c
  /\ \E ok \in BOOLEAN :
       /\ ok => token \in sessions
       /\ tile' \in Effect(c, ok)
       /\ trace' = Append(trace, <<c, ok>>)
       /\ ret' = IF ok THEN "SUCCESS" ELSE "FAILURE"
       /\ pc' = NextCommand(op, c, ok)
  /\ UNCHANGED <<sessions, leaked, objVars, op, args, dpaiop, loadVars>>

\* dpaiop_close and the end of the function that opened the session.
Close ==
  /\ pc = "close"
  /\ \E closed \in Results :
       /\ closed = "SUCCESS" => token \in sessions
       /\ sessions' = IF closed = "SUCCESS" THEN sessions \ {token} ELSE sessions
       /\ leaked' = IF closed = "SUCCESS" THEN leaked ELSE leaked \cup {token}
       /\ trace' = Append(trace, <<"close", closed = "SUCCESS">>)
       /\ ret' = CloseResult(op, ret, closed)
  /\ dpaiop' = FALSE
  /\ obj' = IF op = "init" THEN (IF ret' = "SUCCESS" THEN "ready" ELSE "none") ELSE obj
  /\ pc' = AfterSession(op)
  /\ UNCHANGED <<tile, token, op, args, loadVars>>

-----------------------------------------------------------------------------
(* aiopt_load                                                               *)

\* get_aiop_image_fd and get_aiop_args_fd: stat, size limit, open.
OpenImage ==
  /\ Step("open_image", IF args.afile THEN "open_args" ELSE "map_image", "out")
  /\ fds' = IF pc' = "out" THEN fds ELSE fds \cup {"image"}
  /\ UNCHANGED <<objVars, dpaiop, args_fd, mm, dma, alien>>

OpenArgs ==
  /\ Step("open_args", "map_image", "out")
  /\ fds' = IF pc' = "out" THEN fds ELSE fds \cup {"args"}
  /\ args_fd' = IF pc' = "out" THEN "failed" ELSE "open"
  /\ UNCHANGED <<objVars, dpaiop, mm, dma, alien>>

MapFile(from, to, f) ==
  /\ Step(from, to, "out")
  /\ mm' = IF pc' = "out" THEN mm ELSE mm \cup {f}
  /\ UNCHANGED <<objVars, dpaiop, args_fd, fds, dma, alien>>

MapImage == MapFile("map_image", IF args.afile THEN "map_args" ELSE "dma_image", "image")
MapArgs  == MapFile("map_args", "dma_image", "args")

\* fsl_vfio_setup_dmamap and fsl_vfio_destroy_dmamap.  The latter returns
\* nothing, and the library gives a mapping up by calling it; whether the kernel
\* takes it back is left to Vfio.
DmaMap(from, to, onFailure, f) ==
  /\ Step(from, to, onFailure)
  /\ dma' = IF pc' = to THEN dma \cup {f} ELSE dma
  /\ UNCHANGED <<objVars, dpaiop, args_fd, fds, mm, alien>>

DmaMapImage == DmaMap("dma_image", IF args.afile THEN "dma_args" ELSE "alloc", "out", "image")
DmaMapArgs  == DmaMap("dma_args", "alloc", ArgsMapFailed, "args")

DmaUnmap(from, to, f) ==
  /\ pc = from
  /\ pc' = to
  /\ dma' = dma \ {f}
  /\ UNCHANGED <<mcVars, objVars, op, args, ret, dpaiop, trace, args_fd, fds, mm, alien>>

DmaUnmapArgs  == DmaUnmap("unmap_args", "unmap_image", "args")
DmaUnmapImage == DmaUnmap("unmap_image", "out", "image")

\* err_out.  args_fd was assigned only if the arguments were opened; if not,
\* it holds anything: nothing happens for zero or less, and a positive value
\* is closed, whose descriptor it may be.
LoadOut ==
  /\ pc = "out"
  /\ pc' = "return"
  /\ mm' = {}
  /\ fds' = {}
  /\ alien' \in IF args_fd = "uninitialised" THEN {alien, TRUE} ELSE {alien}
  /\ UNCHANGED <<mcVars, objVars, op, args, ret, dpaiop, trace, args_fd, dma>>

\* The tile boots by itself (external).
Boot ==
  /\ tile = "BOOT_ONGOING"
  /\ tile' \in {"RUNNING", "BOOT_ERROR"}
  /\ UNCHANGED <<sessions, leaked, objVars, callVars, loadVars>>

-----------------------------------------------------------------------------
CallStep ==
  \/ SetupVfio \/ SetupDevice \/ SetupPortal
  \/ AllocIo \/ Open \/ Close \/ \E c \in Body : Command(c)
  \/ OpenImage \/ OpenArgs \/ MapImage \/ MapArgs \/ DmaMapImage \/ DmaMapArgs
  \/ DmaUnmapArgs \/ DmaUnmapImage \/ LoadOut
  \/ Return

Next ==
  \/ Start \/ Exit \/ Boot \/ CallStep
  \/ \E o \in Ops : \E a \in ArgsOf(o) : Call(o, a)

Spec == Init /\ [][Next]_vars

\* A process inside a call keeps running; nothing makes it call or exit.
FairSpec == Spec /\ WF_vars(CallStep)

-----------------------------------------------------------------------------
(* Properties                                                               *)

\* The types, and the length of a call: it sends at most reset, load, run and
\* the close of its session.
TypeOK ==
  /\ sessions \subseteq Tokens /\ leaked \subseteq Tokens /\ tile \in Tiles
  /\ obj \in {"none", "building", "ready"} /\ token \in Tokens \cup {NoToken}
  /\ pc \in {"off", "idle", "return", "vfio", "devices", "portal", "alloc", "open",
             "open_image", "open_args", "map_image", "map_args", "dma_image",
             "dma_args", "unmap_args", "unmap_image", "out"} \cup InSession
  /\ op \in Ops /\ args \in ArgsOf(op) /\ ret \in Results /\ dpaiop \in BOOLEAN
  /\ trace \in Seq((Body \cup {"close"}) \X BOOLEAN) /\ Len(trace) <= 4
  /\ args_fd \in {"uninitialised", "failed", "open"}
  /\ fds \subseteq Files /\ mm \subseteq Files /\ dma \subseteq Files /\ alien \in BOOLEAN

\* A session on the dpaiop object is open only while a call is between its
\* dpaiop_open and dpaiop_close, on every error path of the library; one that
\* stays was refused its close, or its process died in the call.
SessionsAccounted ==
  sessions = leaked \cup (IF pc \in InSession THEN {token} ELSE {})

\* The token kept by reference in the handle is used only while it names the
\* session this call opened, and with a live mc_io: a stale token of an
\* earlier call never reaches the MC.
TokenIsLive ==
  pc \in InSession => /\ dpaiop
                     /\ token \in sessions \ leaked

\* The device is given only memory that is mapped, which is not unmapped before
\* the device's mapping of it is given up, and the MC is asked to load and run
\* only while the image and the arguments are both in the device's reach.
DmaBacked ==
  /\ dma \subseteq mm
  /\ op = "load" /\ pc \in InSession \cup {"open"} =>
       dma = IF args.afile THEN Files ELSE {"image"}

\* However a call ends, and whichever of its steps failed: the files that
\* aiopt_load opened are closed, their mappings, in memory and for the device, are
\* given up, and the mc_io of the call's session is freed.  (What aiopt_init
\* opens and never closes is AiopDevices' matter, the interrupt region Vfio's.)
NothingLeftBehind ==
  pc \in {"return", "idle"} => fds = {} /\ mm = {} /\ dma = {} /\ ~dpaiop

\* The library keeps what TileService promises: a call is a job from the moment
\* it is made until its process leaves it.  The tile is reset, loaded and run
\* in order and as asked, and aiopt_load and aiopt_reset answer for it: a
\* failed close, or a failed reset before the load, does not turn success into
\* failure, and nothing turns a failed load or run into success.
Service == INSTANCE TileService WITH
  job    <- IF pc \in {"off", "idle"} THEN [op |-> "none", reset |-> FALSE]
            ELSE [op |-> op, reset |-> args.reset],
  done   <- {c \in {"reset", "load", "run"} : Ok(c)},
  failed <- {c \in {"reset", "load", "run"} : Failed(c)},
  answer <- IF pc = "return" THEN ret ELSE "none"
ImplementsTileService == Service!Spec

\* Every call of the library returns unless its process ends.
CallEnds == pc \notin {"off", "idle"} ~> pc \in {"off", "idle"}

-----------------------------------------------------------------------------
(* What the sources say and the library does not do                          *)

\* aiop_lib.c:852 "In case of failure to close, error is returned, else error
\* as reported by previous calls is returned" (926 and 1030 say the same).
ErrorIsReturned ==
  pc = "return" /\ op \in {"gettod", "settod", "status"} =>
    (ret = "SUCCESS" => \A k \in 1..Len(trace) : trace[k][2])

\* aiop_lib.c:403 "This is not considered an error": aiopt_init does not fail
\* for want of the service layer version alone.
VersionIsOptional ==
  pc = "return" /\ op = "init" /\ Failed("get_sl_version") => ret = "SUCCESS"

\* aiop_cmd.c:701 has the argument file "Optional": without it aiopt_load
\* still closes only the descriptors it opened.
ClosesItsOwn == ~alien

=============================================================================
