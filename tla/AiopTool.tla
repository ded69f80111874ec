------------------------------ MODULE AiopTool ------------------------------
(***************************************************************************)
(* The tool, src/aiop_tool.c: main over the command line (AiopCmd) and the  *)
(* library (AiopLib).  A run parses its command line, fills conf, asks the  *)
(* library for a handle, performs the one operation of its sub-command with *)
(* it, gives it back and exits.  Nothing catches signals: a run may be      *)
(* killed anywhere.  Runs follow one another on the same MC and tile.       *)
(***************************************************************************)
EXTENDS Integers, Sequences, FiniteSets

CONSTANTS
  Words, Text, CommandLines, Environments, Unset, IntWidth, LongWidth,
  Tokens, NoToken,
  SlVersion,      \* service layer version of the tile: [major, minor]
  NotShown        \* no version was printed

VARIABLES
  argv, dprc, gvars, sub_cmd_name, optind, cmd_pc, cmd_ret,
  sessions, leaked, tile, obj, token, lib_pc, op, args, lib_ret, dpaiop, trace,
  args_fd, fds, mm, dma, alien,
  main_pc,        \* place in main, or "off" (no process)
  conf,           \* local variable of main
  ret,            \* local variable of main, in the end the exit status
  group,          \* history: the process has the VFIO group open
  shown,          \* the version printed by the status command
  answered        \* history: MC commands of this run and whether they succeeded

Cmd == INSTANCE AiopCmd WITH pc <- cmd_pc, ret <- cmd_ret
Lib == INSTANCE AiopLib WITH pc <- lib_pc, ret <- lib_ret

\* What the parts assume; a garbled name is one that nobody gave.
ASSUME PartsAssumption ==
  /\ Cmd!TextAssumption /\ Cmd!LinesAssumption /\ Cmd!WidthAssumption
  /\ Lib!TokensAssumption
ASSUME UnsetAssumption == Cmd!Garbled # Unset

cmdVars  == <<argv, dprc, gvars, sub_cmd_name, optind, cmd_pc, cmd_ret>>
libVars  == <<sessions, leaked, tile, obj, token, lib_pc, op, args, lib_ret, dpaiop, trace,
              args_fd, fds, mm, dma, alien>>
mainVars == <<main_pc, conf, ret, group, shown, answered>>
vars     == <<cmdVars, libVars, mainVars>>

NoConf == [command |-> Unset, image_file |-> Unset, args_file |-> Unset,
           reset_flag |-> FALSE, tpc |-> 0]

Init ==
  /\ Cmd!Init /\ Lib!Init
  /\ main_pc = "off" /\ conf = NoConf /\ ret = "SUCCESS"
  /\ group = FALSE /\ shown = NotShown /\ answered = {}

-----------------------------------------------------------------------------
(* What main decides.  A definition whose name ends in an underscore and a  *)
(* fault is a faulty form of the one after it; no behaviour uses it.        *)

\* A file name counts as given if it has a first character, whatever its flag.
\* The name of the container does not matter to the library's model, the time
\* of day is a number it passes on.
create_conf_inst_ByFlag ==
  [command |-> sub_cmd_name,
   image_file |-> Cmd!PathRead(gvars.image_file, gvars.args_file_flag),
   args_file |-> IF gvars.args_file_flag THEN gvars.args_file ELSE Unset,
   reset_flag |-> gvars.reset_flag,
   tpc |-> IF gvars.tpc_flag THEN gvars.tpc ELSE Cmd!DEFAULT_THREAD_PER_CORE]
create_conf_inst ==
  [command |-> sub_cmd_name,
   image_file |-> Cmd!PathRead(gvars.image_file, gvars.args_file_flag),
   args_file |-> Cmd!PathRead(gvars.args_file, gvars.tpc_flag),
   reset_flag |-> gvars.reset_flag,
   tpc |-> IF gvars.tpc_flag THEN gvars.tpc ELSE Cmd!DEFAULT_THREAD_PER_CORE]

\* The sub-commands with an operation in aiopt_ops.
HasOperation(c) == c \in {"load", "reset", "status", "gettod", "settod"}

AfterParsing == IF cmd_ret = "SUCCESS" THEN "dispatch" ELSE "exit"

AfterInit == IF obj = "ready" THEN "op" ELSE "exit"

\* perform_aiop_load waits in a select without descriptors or timeout.
AfterOperation_Waits == "blocked"
AfterOperation == IF conf.command = "load" THEN "blocked" ELSE "deinit"

\* A failure to deinitialise counts only after a success.
ExitStatus_OfDeinit(r, r2) == r2
ExitStatus(r, r2) == IF r = "SUCCESS" THEN r2 ELSE r

\* The arguments of the library call, as AiopLib tells them apart.
OperationArgs_NoReset ==
  IF conf.command = "load"
    THEN [afile |-> conf.args_file # Unset, reset |-> FALSE, out |-> TRUE]
    ELSE Lib!NoArgs
OperationArgs ==
  IF conf.command = "load"
    THEN [afile |-> conf.args_file # Unset, reset |-> conf.reset_flag, out |-> TRUE]
    ELSE Lib!NoArgs

\* perform_aiop_get_status prints the minor version as the major one.
StatusReport == [major |-> SlVersion.minor, minor |-> SlVersion.major]

-----------------------------------------------------------------------------
(* main                                                                     *)

Start ==
  /\ main_pc = "off"
  /\ main_pc' = "parse"
  /\ Cmd!Exec /\ Lib!Start
  /\ UNCHANGED <<conf, ret, group, shown, answered>>

Parse ==
  /\ main_pc = "parse"
  /\ Cmd!ParseStep
  /\ UNCHANGED <<libVars, mainVars>>

\* A command line that was refused exits with 0.
Parsed ==
  /\ main_pc = "parse" /\ cmd_pc = "done"
  /\ main_pc' = AfterParsing
  /\ conf' = IF main_pc' = "dispatch" THEN create_conf_inst ELSE conf
  /\ UNCHANGED <<cmdVars, libVars, ret, group, shown, answered>>

\* get_ops_handler
Dispatch ==
  /\ main_pc = "dispatch"
  /\ IF HasOperation(conf.command)
       THEN main_pc' = "init" /\ UNCHANGED ret
       ELSE main_pc' = "exit" /\ ret' = "FAILURE"
  /\ UNCHANGED <<cmdVars, libVars, conf, group, shown, answered>>

CallLibrary(place, o, a) ==
  /\ main_pc = place
  /\ Lib!Call(o, a)
  /\ UNCHANGED <<cmdVars, mainVars>>

CallInit   == CallLibrary("init", "init", Lib!NoArgs)
Operation  == CallLibrary("op", conf.command, OperationArgs)
CallDeinit == CallLibrary("deinit", "deinit", Lib!NoArgs)

\* A step inside the call.  There is no file of a garbled name.
LibraryStep ==
  /\ main_pc \in {"init", "op", "deinit"} /\ lib_pc # "return"
  /\ Lib!CallStep
  /\ lib_pc = "open_image" /\ conf.image_file = Cmd!Garbled => lib_pc' = "out"
  /\ lib_pc = "open_args" /\ conf.args_file = Cmd!Garbled => lib_pc' = "out"
  /\ answered' = answered \cup {e \in Lib!Body \X BOOLEAN :
                                 lib_pc = e[1] /\ trace' = Append(trace, e)}
  /\ group' = (group \/ (lib_pc = "vfio" /\ lib_pc' # "return"))
  /\ UNCHANGED <<cmdVars, main_pc, conf, ret, shown>>

LibraryReturns(place) == main_pc = place /\ lib_pc = "return" /\ Lib!Return

InitReturns ==
  /\ LibraryReturns("init")
  /\ main_pc' = AfterInit
  /\ ret' = IF main_pc' = "exit" THEN "FAILURE" ELSE ret
  /\ UNCHANGED <<cmdVars, conf, group, shown, answered>>

OperationReturns ==
  /\ LibraryReturns("op")
  /\ main_pc' = AfterOperation
  /\ ret' = lib_ret
  /\ shown' = IF conf.command = "status" /\ lib_ret = "SUCCESS" THEN StatusReport ELSE shown
  /\ UNCHANGED <<cmdVars, conf, group, answered>>

DeinitReturns ==
  /\ LibraryReturns("deinit")
  /\ main_pc' = "exit"
  /\ ret' = ExitStatus(ret, lib_ret)
  /\ UNCHANGED <<cmdVars, conf, group, shown, answered>>

Gone ==
  /\ main_pc' = "off" /\ conf' = NoConf /\ ret' = "SUCCESS"
  /\ group' = FALSE /\ shown' = NotShown /\ answered' = {}
  /\ Cmd!End /\ Lib!Exit

Exit == main_pc = "exit" /\ Gone
Kill == main_pc \notin {"off", "exit"} /\ Gone

\* The tile boots by itself, between runs too.
Boot == Lib!Boot /\ UNCHANGED <<cmdVars, mainVars>>

MainStep ==
  \/ Parse \/ Parsed \/ Dispatch
  \/ CallInit \/ Operation \/ CallDeinit \/ LibraryStep
  \/ InitReturns \/ OperationReturns \/ DeinitReturns
  \/ Exit

Next == Start \/ MainStep \/ Kill \/ Boot

Spec == Init /\ [][Next]_vars

\* A run that can go on does; nobody has to start or kill one.
FairSpec == Spec /\ WF_vars(MainStep)

-----------------------------------------------------------------------------
(* Properties                                                               *)

\* Types; the library is called from three places of main only, and no command
\* but a load waits for ever.
TypeOK ==
  /\ main_pc \in {"off", "parse", "dispatch", "init", "op", "blocked", "deinit", "exit"}
  /\ conf.command \in Cmd!Commands \cup {Unset} /\ conf.reset_flag \in BOOLEAN
  /\ {conf.image_file, conf.args_file} \subseteq Words \cup {Unset, Cmd!Garbled}
  /\ conf.tpc \in 0..Cmd!MAX_THREAD_PER_CORE
  /\ ret \in {"SUCCESS", "FAILURE"} /\ answered \subseteq Lib!Body \X BOOLEAN
  /\ main_pc = "blocked" => conf.command = "load"
  /\ main_pc \notin {"init", "op", "deinit"} => lib_pc = (IF main_pc = "off" THEN "off" ELSE "idle")

\* What the library is asked to do is what the words of the command line say:
\* the sub-command, whether the tile is reset first, whether there are
\* arguments, also when a long path has overwritten one of the flags; and it is
\* asked on a valid handle.
CallAsAsked ==
  /\ TypeOK
  /\ main_pc = "op" => obj = "ready"
  /\ main_pc = "op" /\ lib_pc # "idle" =>
       /\ Cmd!WordsMeant
       /\ op = argv[1]
       /\ op = "load" => /\ args.reset = Cmd!Given("r")
                        /\ args.afile = Cmd!Given("a")

\* The exit status of a reset tells whether the tile was reset; 0 also means
\* that the command line was refused, and then the MC was sent nothing.  A load
\* exits by itself only if it never got a handle.  No handle is left.
ExitTells ==
  main_pc = "exit" =>
    /\ obj = "none"
    /\ cmd_ret = "FAILURE" => answered = {}
    /\ cmd_ret = "SUCCESS" /\ argv[1] = "reset" => (ret = "SUCCESS" <=> <<"reset", TRUE>> \in answered)
    /\ cmd_ret = "SUCCESS" /\ argv[1] = "load" => ret = "FAILURE" /\ answered \subseteq {<<"get_sl_version", FALSE>>, <<"get_sl_version", TRUE>>}

\* From the words of a command line to the tile: it is reset only for a reset,
\* or a load with -r, loaded and started only for a load, and the line was
\* meant to work; it boots by itself.
Asks(c) ==
  /\ Cmd!WordsMeant
  /\ IF c = "reset" THEN argv[1] = "reset" \/ (argv[1] = "load" /\ Cmd!Given("r"))
     ELSE c \in {"load", "run"} /\ argv[1] = "load"
TileAsTyped == [][tile' # tile => Boot \/ (main_pc = "op" /\ Asks(lib_pc))]_vars

\* A run of the tool, with every step of its command line and its calls, is a
\* run of ToolRuns: it goes for its group, holds it, works on the tile and
\* leaves, and its exit status is one of those that its work allows.
RunPlace ==
  IF main_pc \in {"off", "parse", "dispatch"} \/ cmd_ret = "FAILURE" THEN "off"
  ELSE CASE main_pc = "init" -> IF lib_pc = "return" /\ lib_ret = "FAILURE" THEN "leave"
                                ELSE IF group THEN "look" ELSE "setup"
         [] main_pc = "op"   -> IF lib_pc # "return" THEN "work"
                                ELSE IF conf.command = "load" THEN "blocked" ELSE "leave"
         [] OTHER            -> IF main_pc = "blocked" THEN "blocked" ELSE "leave"
TheJob == IF RunPlace = "off" THEN [op |-> "none", reset |-> FALSE]
          ELSE [op |-> conf.command, reset |-> conf.command = "load" /\ conf.reset_flag]
TheRun  == {"run"}
Changes == {"reset", "load", "run"}
OneRun == INSTANCE ToolRuns WITH
  Runs   <- TheRun,
  NoRun  <- "none",
  owner  <- IF group THEN "run" ELSE "none",
  at     <- [r \in TheRun |-> RunPlace],
  job    <- [r \in TheRun |-> TheJob],
  done   <- [r \in TheRun |-> {c \in Changes : <<c, TRUE>> \in answered}],
  failed <- [r \in TheRun |-> {c \in Changes : <<c, FALSE>> \in answered}],
  ret    <- [r \in TheRun |-> IF RunPlace = "off" THEN "SUCCESS"
                             ELSE IF lib_pc = "return" /\ main_pc # "deinit" THEN lib_ret ELSE ret]
ImplementsToolRuns == OneRun!Spec

\* Every run but a load ends, whatever fails in it.
RunEnds == main_pc # "off" /\ argv # <<>> /\ argv[1] # "load" ~> main_pc = "off"

-----------------------------------------------------------------------------
(* What the sources say and the tool does not do                             *)

\* TODO:17 "AIOP Tool is a run-to-completion tool".
RunsToCompletion == main_pc # "off" ~> main_pc = "off"

\* aiop_tool.c:267 prints the first number as "Major Version".
MajorIsMajor == shown # NotShown => shown.major = SlVersion.major

=============================================================================
