--------------------------- MODULE AiopToolProofs ---------------------------
(***************************************************************************)
(* Proofs about AiopTool.  What a run of the tool does lies between the     *)
(* words of its command line and the answers of the MC, with the parser and *)
(* the library in between: the invariant joins those of AiopCmdProofs and   *)
(* AiopLibProofs with what main knows at each place of them.                *)
(***************************************************************************)
EXTENDS AiopTool, FiniteSetTheorems, TLAPS

\* The parts again, with what is proved about them.
CmdP == INSTANCE AiopCmdProofs WITH pc <- cmd_pc, ret <- cmd_ret
LibP == INSTANCE AiopLibProofs WITH pc <- lib_pc, ret <- lib_ret

Callers  == {"init", "op", "deinit"}
Versions == {"get_sl_version"} \X BOOLEAN

\* What the parts keep by themselves.
Parts ==
  CmdP!Inv /\ LibP!Place /\ LibP!Course /\ LibP!Handle

\* Where main is while the parser and the library are where they are.
Places ==
  /\ main_pc \in {"off", "parse", "dispatch", "blocked", "exit"} \cup Callers
  /\ main_pc = "off" <=> cmd_pc = "off"
  /\ main_pc \notin {"off", "parse"} => cmd_pc = "done"
  /\ main_pc \notin {"off", "parse", "exit"} => cmd_ret = "SUCCESS"
  /\ main_pc \notin Callers => lib_pc = (IF main_pc = "off" THEN "off" ELSE "idle")
  /\ main_pc \in Callers => lib_pc # "off"

\* What main has decided: conf says what the globals do, and the library is
\* called with it.
Decided ==
  /\ main_pc \notin {"off", "parse"} /\ cmd_ret = "SUCCESS" => conf = create_conf_inst
  /\ main_pc \in {"off", "parse"} \/ cmd_ret = "FAILURE" => conf = NoConf
  /\ main_pc = "blocked" => conf.command = "load"
  /\ main_pc = "deinit" => conf.command # "load"
  /\ main_pc \in Callers /\ lib_pc # "idle" =>
       op = IF main_pc = "op" THEN conf.command ELSE main_pc
  /\ main_pc = "op" /\ lib_pc # "idle" => args = OperationArgs

\* What main holds: the handle, and the VFIO group with it.
Held ==
  /\ main_pc \in {"off", "parse", "dispatch", "exit"} => obj = "none"
  /\ main_pc \in {"op", "blocked"} => obj = "ready"
  /\ main_pc \in {"off", "parse", "dispatch"} \/ cmd_ret = "FAILURE" => ~group
  /\ main_pc = "init" /\ lib_pc \in {"idle", "vfio"} => ~group
  /\ main_pc = "init" /\ lib_pc \notin {"idle", "vfio"} =>
       group \/ (lib_pc = "return" /\ lib_ret = "FAILURE")
  /\ main_pc \in {"op", "blocked", "deinit"} => group

\* What the MC answered in this run, and that main's result goes by it.
Answered(c, ok) == <<c, ok>> \in answered
Told ==
  /\ ret \in {"SUCCESS", "FAILURE"} /\ group \in BOOLEAN
  /\ answered \subseteq Lib!Body \X BOOLEAN
  /\ main_pc \in {"off", "parse", "dispatch", "init", "op"} \/ cmd_ret = "FAILURE" =>
       ret = "SUCCESS"
  /\ main_pc \in {"off", "parse", "dispatch"} \/ cmd_ret = "FAILURE" => answered = {}
  /\ main_pc = "init" => answered \subseteq Versions
  /\ main_pc = "op" =>
       /\ LibP!Made   = {c \in Changes : Answered(c, TRUE)}
       /\ LibP!Missed = {c \in Changes : Answered(c, FALSE)}
  /\ main_pc \in {"blocked", "deinit", "exit"} /\ conf.command = "reset" =>
       (ret = "SUCCESS" <=> Answered("reset", TRUE))
  /\ main_pc = "exit" /\ conf.command = "load" => ret = "FAILURE" /\ answered \subseteq Versions

Main == Places /\ Decided /\ Held /\ Told
Inv  == Parts /\ Main

-----------------------------------------------------------------------------
(* The parts                                                                *)

\* The parser that main calls is the one that the proofs are about: the same
\* definitions, taken twice.
LEMMA SameParser ==
  /\ Cmd!Init <=> CmdP!Init
  /\ Cmd!Exec <=> CmdP!Exec
  /\ Cmd!CheckHelp <=> CmdP!CheckHelp
  /\ Cmd!FindSubcmd <=> CmdP!FindSubcmd
  /\ Cmd!Usage <=> CmdP!Usage
  /\ Cmd!Option <=> CmdP!Option
  /\ Cmd!Mandatory <=> CmdP!Mandatory
  /\ Cmd!End <=> CmdP!End
  /\ Cmd!WordsMeant <=> CmdP!WordsMeant
  /\ \A o : Cmd!Given(o) <=> CmdP!Given(o)
<1>1. Cmd!Init <=> CmdP!Init
  BY DEF Cmd!Init, CmdP!Init, Cmd!Zero, CmdP!Zero
<1>2. Cmd!Exec <=> CmdP!Exec
  BY DEF Cmd!Exec, CmdP!Exec, Cmd!Zero, CmdP!Zero
<1>3. Cmd!CheckHelp <=> CmdP!CheckHelp
  BY DEF Cmd!CheckHelp, CmdP!CheckHelp, Cmd!Finish, CmdP!Finish
<1>4. Cmd!FindSubcmd <=> CmdP!FindSubcmd
  BY DEF Cmd!FindSubcmd, CmdP!FindSubcmd, Cmd!Commands, CmdP!Commands, Cmd!FromEnvironment,
         CmdP!FromEnvironment, Cmd!Finish, CmdP!Finish, Cmd!MAX_CONTAINER_NAME_LEN,
         CmdP!MAX_CONTAINER_NAME_LEN, Cmd!CONTAINER_ENV, CmdP!CONTAINER_ENV,
         Cmd!DEFAULT_DPRC_NAME, CmdP!DEFAULT_DPRC_NAME, Cmd!CONTAINER_DEF,
         CmdP!CONTAINER_DEF
<1>5. Cmd!Usage <=> CmdP!Usage
  BY DEF Cmd!Usage, CmdP!Usage, Cmd!Finish, CmdP!Finish
<1>6. Cmd!Option <=> CmdP!Option
  BY DEF Cmd!Option, CmdP!Option, Cmd!getopt_long, CmdP!getopt_long, Cmd!ValidArgs,
         CmdP!ValidArgs, Cmd!Refused, CmdP!Refused, Cmd!Applied, CmdP!Applied, Cmd!Finish,
         CmdP!Finish, Cmd!WithValue, CmdP!WithValue, Cmd!PathAccepted, CmdP!PathAccepted,
         Cmd!container_name_from_args, CmdP!container_name_from_args,
         Cmd!image_file_from_args, CmdP!image_file_from_args, Cmd!args_file_from_args,
         CmdP!args_file_from_args, Cmd!timeofday_from_args, CmdP!timeofday_from_args,
         Cmd!debug_flag_from_args, CmdP!debug_flag_from_args, Cmd!thread_per_core_from_args,
         CmdP!thread_per_core_from_args, Cmd!MAX_PATH_LEN, CmdP!MAX_PATH_LEN,
         Cmd!MAX_CONTAINER_NAME_LEN, CmdP!MAX_CONTAINER_NAME_LEN, Cmd!CONTAINER_USR,
         CmdP!CONTAINER_USR, Cmd!Spills, CmdP!Spills, Cmd!strtoul, CmdP!strtoul,
         Cmd!LONG_MAX, CmdP!LONG_MAX, Cmd!atoi, CmdP!atoi, Cmd!MAX_THREAD_PER_CORE,
         CmdP!MAX_THREAD_PER_CORE, Cmd!DEFAULT_THREAD_PER_CORE,
         CmdP!DEFAULT_THREAD_PER_CORE, Cmd!ULONG_MAX, CmdP!ULONG_MAX, Cmd!INT_MAX,
         CmdP!INT_MAX
<1>7. Cmd!Mandatory <=> CmdP!Mandatory
  BY DEF Cmd!Mandatory, CmdP!Mandatory, Cmd!Complete, CmdP!Complete, Cmd!Finish, CmdP!Finish
<1>8. Cmd!End <=> CmdP!End
  BY DEF Cmd!End, CmdP!End, Cmd!Zero, CmdP!Zero
<1>9. Cmd!WordsMeant <=> CmdP!WordsMeant
  BY DEF Cmd!WordsMeant, CmdP!WordsMeant, Cmd!Commands, CmdP!Commands, Cmd!Word,
         CmdP!Word, Cmd!OptionPlaces, CmdP!OptionPlaces, Cmd!Takes, CmdP!Takes,
         Cmd!WithValue, CmdP!WithValue, Cmd!PathAccepted, CmdP!PathAccepted, Cmd!ValueAt,
         CmdP!ValueAt, Cmd!Given, CmdP!Given, Cmd!Starts, CmdP!Starts, Cmd!Letters,
         CmdP!Letters, Cmd!MAX_PATH_LEN, CmdP!MAX_PATH_LEN, Cmd!Places, CmdP!Places,
         Cmd!Max, CmdP!Max, Cmd!Aligned, CmdP!Aligned, Cmd!RunBefore, CmdP!RunBefore
<1>10. \A o : Cmd!Given(o) <=> CmdP!Given(o)
  BY DEF Cmd!Given, CmdP!Given, Cmd!Places, CmdP!Places, Cmd!OptionPlaces,
         CmdP!OptionPlaces, Cmd!Word, CmdP!Word, Cmd!WithValue, CmdP!WithValue, Cmd!Starts,
         CmdP!Starts, Cmd!Aligned, CmdP!Aligned, Cmd!Letters, CmdP!Letters, Cmd!RunBefore,
         CmdP!RunBefore, Cmd!Max, CmdP!Max
<1> QED BY <1>1, <1>2, <1>3, <1>4, <1>5, <1>6, <1>7, <1>8, <1>9, <1>10

\* So is the library.
LEMMA SameLibrary ==
  /\ Lib!Init <=> LibP!Init
  /\ Lib!Start <=> LibP!Start
  /\ Lib!Exit <=> LibP!Exit
  /\ Lib!Boot <=> LibP!Boot
  /\ Lib!Return <=> LibP!Return
  /\ Lib!CallStep <=> LibP!CallStep
  /\ \A o, a : Lib!Call(o, a) <=> LibP!Call(o, a)
<1>1. Lib!Init <=> LibP!Init
  BY DEF Lib!Init, LibP!Init, Lib!Tiles, LibP!Tiles, Lib!NoArgs, LibP!NoArgs
<1>2. Lib!Start <=> LibP!Start
  BY DEF Lib!Start, LibP!Start, Lib!mcVars, LibP!mcVars, Lib!objVars, LibP!objVars,
         Lib!loadVars, LibP!loadVars
<1>3. Lib!Exit <=> LibP!Exit
  BY DEF Lib!Exit, LibP!Exit, Lib!InSession, LibP!InSession, Lib!NoArgs, LibP!NoArgs,
         Lib!Body, LibP!Body
<1>4. Lib!Boot <=> LibP!Boot
  BY DEF Lib!Boot, LibP!Boot, Lib!objVars, LibP!objVars, Lib!callVars, LibP!callVars,
         Lib!loadVars, LibP!loadVars
<1>5. Lib!Return <=> LibP!Return
  BY DEF Lib!Return, LibP!Return, Lib!NoArgs, LibP!NoArgs, Lib!mcVars, LibP!mcVars,
         Lib!objVars, LibP!objVars
<1>6. Lib!CallStep <=> LibP!CallStep
  BY DEF Lib!CallStep, LibP!CallStep, Lib!SetupVfio, LibP!SetupVfio, Lib!SetupDevice,
         LibP!SetupDevice, Lib!SetupPortal, LibP!SetupPortal, Lib!AllocIo, LibP!AllocIo,
         Lib!Open, LibP!Open, Lib!Close, LibP!Close, Lib!Body, LibP!Body, Lib!Command,
         LibP!Command, Lib!OpenImage, LibP!OpenImage, Lib!OpenArgs, LibP!OpenArgs,
         Lib!MapImage, LibP!MapImage, Lib!MapArgs, LibP!MapArgs, Lib!DmaMapImage,
         LibP!DmaMapImage, Lib!DmaMapArgs, LibP!DmaMapArgs, Lib!DmaUnmapArgs,
         LibP!DmaUnmapArgs, Lib!DmaUnmapImage, LibP!DmaUnmapImage, Lib!LoadOut,
         LibP!LoadOut, Lib!Return, LibP!Return, Lib!InitStep, LibP!InitStep, Lib!Step,
         LibP!Step, Lib!AfterSession, LibP!AfterSession, Lib!loadVars, LibP!loadVars,
         Lib!FirstCommand, LibP!FirstCommand, Lib!OpenFailed, LibP!OpenFailed, Lib!Results,
         LibP!Results, Lib!CloseResult, LibP!CloseResult, Lib!Effect, LibP!Effect,
         Lib!NextCommand, LibP!NextCommand, Lib!objVars, LibP!objVars, Lib!MapFile,
         LibP!MapFile, Lib!DmaMap, LibP!DmaMap, Lib!ArgsMapFailed, LibP!ArgsMapFailed,
         Lib!DmaUnmap, LibP!DmaUnmap, Lib!mcVars, LibP!mcVars, Lib!NoArgs, LibP!NoArgs
<1>7. \A o, a : Lib!Call(o, a) <=> LibP!Call(o, a)
  BY DEF Lib!Call, LibP!Call, Lib!Entry, LibP!Entry, Lib!mcVars, LibP!mcVars
<1> QED BY <1>1, <1>2, <1>3, <1>4, <1>5, <1>6, <1>7

\* What the parts assume of the constants.
LEMMA Lines == CmdP!TextAssumption /\ CmdP!LinesAssumption /\ CmdP!WidthAssumption
  BY PartsAssumption
     DEF Cmd!Letters, CmdP!Letters, Cmd!WithValue, CmdP!WithValue, Cmd!Commands, CmdP!Commands

LEMMA Toks == LibP!IsFiniteSet(Tokens) /\ NoToken \notin Tokens
<1>1. Lib!IsFiniteSet(Tokens) <=> LibP!IsFiniteSet(Tokens)
  BY DEF Lib!IsFiniteSet, LibP!IsFiniteSet
<1> QED BY <1>1, PartsAssumption DEF Lib!TokensAssumption

\* What main makes of an accepted line: an operation that it has, with what the
\* words asked for; nothing else, however long the paths.
LEMMA Decides ==
  ASSUME CmdP!Inv, cmd_pc = "done", cmd_ret = "SUCCESS"
  PROVE  /\ Cmd!WordsMeant
         /\ create_conf_inst.command = argv[1] /\ HasOperation(argv[1])
         /\ create_conf_inst.reset_flag \in BOOLEAN
         /\ create_conf_inst.reset_flag <=> argv[1] = "reset" \/ Cmd!Given("r")
         /\ create_conf_inst.args_file # Unset <=> Cmd!Given("a")
         /\ {create_conf_inst.image_file, create_conf_inst.args_file}
              \subseteq Words \cup {Unset, Cmd!Garbled}
         /\ create_conf_inst.tpc \in 0..Cmd!MAX_THREAD_PER_CORE
<1>1. /\ CmdP!WordsMeant /\ argv[1] \in CmdP!Commands \ {"help"} /\ sub_cmd_name = argv[1]
      /\ gvars.reset_flag <=> argv[1] = "reset" \/ CmdP!Given("r")
      /\ gvars.args_file # Unset <=> CmdP!Given("a")
  BY Lines, CmdP!Accepted
<1>2. CmdP!TypeOK
  BY Lines, CmdP!Kinds DEF CmdP!Inv
<1>3. gvars.reset_flag \in BOOLEAN
  BY <1>2 DEF CmdP!TypeOK
<1>4. {gvars.image_file, gvars.args_file} \subseteq Words \cup {Unset} /\ gvars.tpc \in 0..16
  BY <1>2 DEF CmdP!TypeOK, CmdP!MAX_THREAD_PER_CORE
<1>5. /\ create_conf_inst.command = sub_cmd_name
      /\ create_conf_inst.reset_flag = gvars.reset_flag
      /\ create_conf_inst.image_file \in {gvars.image_file, Cmd!Garbled}
      /\ create_conf_inst.args_file \in {gvars.args_file, Cmd!Garbled}
      /\ create_conf_inst.args_file # gvars.args_file => gvars.args_file # Unset
      /\ create_conf_inst.tpc \in {gvars.tpc, 0}
  BY DEF create_conf_inst, Cmd!PathRead, Cmd!DEFAULT_THREAD_PER_CORE
<1>6. HasOperation(argv[1])
  BY <1>1 DEF HasOperation, CmdP!Commands
<1>7. Cmd!WordsMeant /\ \A o : Cmd!Given(o) <=> CmdP!Given(o)
  BY <1>1, SameParser
<1>8. create_conf_inst.args_file # Unset <=> Cmd!Given("a")
  BY <1>1, <1>5, <1>7, UnsetAssumption
<1>9. create_conf_inst.tpc \in 0..Cmd!MAX_THREAD_PER_CORE
  BY <1>4, <1>5 DEF Cmd!MAX_THREAD_PER_CORE
<1>10. {create_conf_inst.image_file, create_conf_inst.args_file}
          \subseteq Words \cup {Unset, Cmd!Garbled}
  BY <1>4, <1>5
<1> QED BY <1>1, <1>3, <1>5, <1>6, <1>7, <1>8, <1>9, <1>10

\* The arguments of the operation are ones that the library is made for.
LEMMA Passes ==
  ASSUME Inv, main_pc = "op"
  PROVE  /\ conf.command \in LibP!Ops \ {"init", "deinit"}
         /\ OperationArgs \in LibP!ArgsOf(conf.command) /\ OperationArgs.out
<1>1. /\ conf.command = argv[1] /\ HasOperation(argv[1]) /\ conf.reset_flag \in BOOLEAN
  BY Decides DEF Inv, Parts, Main, Places, Decided, Callers
<1>2. conf.command \in {"load", "reset", "status", "gettod", "settod"}
  BY <1>1 DEF HasOperation
<1>3. CASE conf.command = "load"
  BY <1>1, <1>3 DEF OperationArgs, LibP!ArgsOf, LibP!Ops
<1>4. CASE conf.command # "load"
  BY <1>2, <1>4 DEF OperationArgs, LibP!ArgsOf, LibP!Ops, Lib!NoArgs, LibP!NoArgs
<1> QED BY <1>3, <1>4

\* A step of the tool is one of the parser's or none, and one of the library's
\* or none.
LEMMA Moves ==
  ASSUME Inv, [Next]_vars
  PROVE  [CmdP!Next]_CmdP!vars /\ [LibP!Next]_LibP!vars
<1> USE DEF cmdVars, libVars, mainVars, CmdP!vars, LibP!vars, LibP!mcVars, LibP!objVars,
            LibP!callVars, LibP!loadVars
<1>1. CASE Start
  BY <1>1, SameParser, SameLibrary DEF Start, CmdP!Next, LibP!Next
<1>2. CASE Parse
  BY <1>2, SameParser DEF Parse, Cmd!ParseStep, CmdP!ParseStep, CmdP!Next
<1>3. CASE Parsed \/ Dispatch
  BY <1>3 DEF Parsed, Dispatch
<1>4. CASE CallInit \/ CallDeinit
  <2>1. /\ "init" \in LibP!Ops /\ "deinit" \in LibP!Ops
        /\ Lib!NoArgs \in LibP!ArgsOf("init") /\ Lib!NoArgs \in LibP!ArgsOf("deinit")
    BY DEF LibP!Ops, LibP!ArgsOf, Lib!NoArgs, LibP!NoArgs
  <2> QED BY <1>4, <2>1, SameLibrary DEF CallInit, CallDeinit, CallLibrary, LibP!Next
<1>5. CASE Operation
  BY <1>5, Passes, SameLibrary DEF Operation, CallLibrary, LibP!Next
<1>6. CASE LibraryStep
  BY <1>6, SameLibrary DEF LibraryStep, LibP!Next
<1>7. CASE InitReturns \/ OperationReturns \/ DeinitReturns
  BY <1>7, SameLibrary
     DEF InitReturns, OperationReturns, DeinitReturns, LibraryReturns, LibP!Next, LibP!CallStep
<1>8. CASE Exit \/ Kill
  BY <1>8, SameParser, SameLibrary DEF Exit, Kill, Gone, CmdP!Next, LibP!Next
<1>9. CASE Boot
  BY <1>9, SameLibrary DEF Boot, LibP!Next
<1>10. CASE UNCHANGED vars
  BY <1>10 DEF vars
<1> QED BY <1>1, <1>2, <1>3, <1>4, <1>5, <1>6, <1>7, <1>8, <1>9, <1>10 DEF Next, MainStep

LEMMA PartsBegin == Init => Parts
  BY Lines, Toks, SameParser, SameLibrary, CmdP!Starting, LibP!Begins DEF Init, Parts

LEMMA PartsNext ==
  ASSUME Inv, [Next]_vars
  PROVE  Parts'
<1>1. CmdP!Inv'
  BY Lines, Moves, CmdP!Keeps DEF Inv, Parts
<1>2. (LibP!Place /\ LibP!Course /\ LibP!Handle)'
  BY Toks, Moves, LibP!Keeps DEF Inv, Parts
<1> QED BY <1>1, <1>2 DEF Parts

-----------------------------------------------------------------------------
(* What main knows                                                          *)

\* Asking for the version is none of the changes of the tile.
LEMMA NoVersions == \A c \in Changes, ok \in BOOLEAN : <<c, ok>> \notin Versions
  BY DEF Changes, Versions

\* No value is no sub-command.
LEMMA NoCommand == Unset \notin {"load", "reset"}
  BY Lines DEF CmdP!LinesAssumption, CmdP!Commands

LEMMA MainBegin == Init => Main
  BY SameParser, SameLibrary
     DEF Init, CmdP!Init, LibP!Init, Main, Places, Decided, Held, Told, Callers, create_conf_inst

LEMMA MainStart ==
  ASSUME Inv, Start
  PROVE  Main'
<1>1. /\ main_pc = "off" /\ main_pc' = "parse" /\ cmd_pc' = "help" /\ lib_pc' = "idle"
      /\ UNCHANGED <<conf, ret, group, answered, obj>>
  BY SameParser, SameLibrary DEF Start, CmdP!Exec, LibP!Start, LibP!objVars
<1> QED BY <1>1 DEF Inv, Main, Places, Decided, Held, Told, Answered, Callers

LEMMA MainParse ==
  ASSUME Inv, Parse
  PROVE  Main'
<1>1. CmdP!ParseStep
  BY SameParser DEF Parse, Cmd!ParseStep, CmdP!ParseStep
<1>2. cmd_pc' # "off" /\ cmd_pc # "off"
  BY <1>1, Lines, CmdP!Parses
<1> QED BY <1>2
           DEF Parse, libVars, mainVars, Inv, Main, Places, Decided, Held, Told, Answered, Callers

LEMMA MainParsed ==
  ASSUME Inv, Parsed
  PROVE  Main'
<1>1. cmd_ret \in {"SUCCESS", "FAILURE"}
  BY Lines, CmdP!Kinds DEF Inv, Parts, CmdP!Inv, CmdP!TypeOK
<1>2. create_conf_inst' = create_conf_inst
  BY DEF Parsed, cmdVars, create_conf_inst
<1>3. CASE cmd_ret = "SUCCESS"
  BY <1>2, <1>3
     DEF Parsed, AfterParsing, cmdVars, libVars, Inv, Main, Places, Decided, Held, Told, Answered,
         Callers
<1>4. CASE cmd_ret = "FAILURE"
  BY <1>4, NoCommand
     DEF Parsed, AfterParsing, cmdVars, libVars, Inv, Main, Places, Decided, Held, Told, Answered,
         Callers, NoConf
<1> QED BY <1>1, <1>3, <1>4

LEMMA MainDispatch ==
  ASSUME Inv, Dispatch
  PROVE  Main'
<1>1. HasOperation(conf.command)
  BY Decides DEF Inv, Parts, Main, Places, Decided, Dispatch
<1>2. create_conf_inst' = create_conf_inst
  BY DEF Dispatch, cmdVars, create_conf_inst
<1> QED
  BY <1>1, <1>2
     DEF Dispatch, cmdVars, libVars, Inv, Main, Places, Decided, Held, Told, Answered, Callers

\* A call is made: for the handle, with the operation, or to give it back.
LEMMA MainCall ==
  ASSUME Inv, CallInit \/ Operation \/ CallDeinit
  PROVE  Main'
<1>1. create_conf_inst' = create_conf_inst /\ OperationArgs' = OperationArgs
  BY DEF CallInit, Operation, CallDeinit, CallLibrary, cmdVars, mainVars, create_conf_inst,
         OperationArgs
<1>2. UNCHANGED <<cmdVars, mainVars>> /\ main_pc \in Callers /\ lib_pc = "idle"
      /\ UNCHANGED trace
  BY SameLibrary DEF CallInit, Operation, CallDeinit, CallLibrary, LibP!Call, Callers
<1>3. LibP!Made' = LibP!Made /\ LibP!Missed' = LibP!Missed
  BY <1>2, Toks, LibP!Unsent
<1>4. CASE CallInit
  <2>1. op' = "init" /\ lib_pc' = "vfio" /\ main_pc = "init"
    BY <1>4, SameLibrary DEF CallInit, CallLibrary, LibP!Call, LibP!Entry, Lib!NoArgs
  <2> QED BY <1>1, <1>2, <2>1
             DEF cmdVars, mainVars, Inv, Main, Places, Decided, Held, Told, Answered, Callers
<1>5. CASE CallDeinit
  <2>1. op' = "deinit" /\ lib_pc' = "return" /\ main_pc = "deinit"
    BY <1>5, SameLibrary DEF CallDeinit, CallLibrary, LibP!Call, LibP!Entry, Lib!NoArgs
  <2> QED BY <1>1, <1>2, <2>1
             DEF cmdVars, mainVars, Inv, Main, Places, Decided, Held, Told, Answered, Callers
<1>6. CASE Operation
  <2>1. /\ op' = conf.command /\ args' = OperationArgs /\ lib_pc' \notin {"off", "idle"}
        /\ obj' = obj /\ main_pc = "op"
    BY <1>6, Passes, SameLibrary DEF Operation, CallLibrary, LibP!Call, LibP!Entry
  <2> QED BY <1>1, <1>2, <1>3, <2>1
             DEF cmdVars, mainVars, Inv, Main, Places, Decided, Held, Told, Answered, Callers
<1> QED BY <1>4, <1>5, <1>6

\* What a step inside the call adds to the answers, and what it does to the tile.
LEMMA StepAnswers ==
  ASSUME Inv, LibraryStep
  PROVE  /\ main_pc \in {"init", "op"} /\ UNCHANGED <<op, args, main_pc, conf, ret, cmdVars>>
         /\ lib_pc \notin {"off", "idle", "return"} /\ lib_pc' \notin {"off", "idle", "vfio"}
         /\ \/ /\ lib_pc \in LibP!Body /\ lib_pc' # "return"
               /\ \E ok \in BOOLEAN :
                    /\ answered' = answered \cup {<<lib_pc, ok>>}
                    /\ tile' \in LibP!Effect(lib_pc, ok)
                    /\ LibP!Made' = LibP!Made \cup {c \in LibP!Changes : c = lib_pc /\ ok}
                    /\ LibP!Missed' = LibP!Missed \cup {c \in LibP!Changes : c = lib_pc /\ ~ok}
            \/ UNCHANGED <<answered, tile, LibP!Made, LibP!Missed>>
<1>1. LibP!CallStep /\ lib_pc # "return" /\ LibP!Place /\ main_pc \in Callers
  BY SameLibrary DEF LibraryStep, Inv, Parts, Callers
<1>2. /\ UNCHANGED <<op, args>> /\ lib_pc \notin LibP!NoCall /\ lib_pc' \notin LibP!NoCall
      /\ lib_pc \in LibP!InInit \cup LibP!InLoad \cup LibP!ToMc /\ lib_pc' # "vfio"
  BY <1>1, Toks, LibP!Inside
<1>3. UNCHANGED <<main_pc, conf, ret, cmdVars>>
  BY DEF LibraryStep
<1>4. answered' = answered \cup LibP!Answers
  BY DEF LibraryStep, LibP!Answers, Lib!Body, LibP!Body
<1>5. main_pc # "deinit"
  <2>1. op # "deinit"
    BY <1>1, <1>2 DEF LibP!Place, LibP!Control, LibP!InInit, LibP!InLoad
  <2> QED BY <1>1, <1>2, <2>1 DEF Inv, Main, Decided, LibP!NoCall
<1>6. CASE lib_pc \in LibP!Body
  <2>1. PICK ok \in BOOLEAN :
          /\ LibP!Answers = {<<lib_pc, ok>>}
          /\ tile' \in LibP!Effect(lib_pc, ok) /\ lib_pc' \in LibP!InSession
          /\ LibP!Made' = LibP!Made \cup {c \in LibP!Changes : c = lib_pc /\ ok}
          /\ LibP!Missed' = LibP!Missed \cup {c \in LibP!Changes : c = lib_pc /\ ~ok}
    BY <1>1, <1>6, Toks, LibP!Commands
  <2>2. lib_pc' # "return"
    BY <2>1 DEF LibP!InSession, LibP!Body
  <2> QED BY <1>1, <1>2, <1>3, <1>4, <1>5, <1>6, <2>1, <2>2 DEF LibP!NoCall, Callers
<1>7. CASE lib_pc \notin LibP!Body
  <2>1. LibP!Answers = {} /\ LibP!Made' = LibP!Made /\ LibP!Missed' = LibP!Missed /\ tile' = tile
    BY <1>1, <1>7, Toks, LibP!Others
  <2> QED BY <1>1, <1>2, <1>3, <1>4, <1>5, <1>7, <2>1 DEF LibP!NoCall, Callers
<1> QED BY <1>6, <1>7

\* aiopt_init asks for nothing but the version of the service layer.
LEMMA InitAsks ==
  ASSUME Inv, main_pc = "init", lib_pc \in LibP!Body
  PROVE  lib_pc = "get_sl_version"
<1>1. op = "init"
  BY DEF Inv, Main, Decided, Callers, LibP!Body
<1> QED BY <1>1 DEF Inv, Parts, LibP!Place, LibP!Control, LibP!Body

LEMMA MainLibraryStep ==
  ASSUME Inv, Parts', LibraryStep
  PROVE  Main'
<1>1. /\ main_pc \in {"init", "op"} /\ UNCHANGED <<op, args, main_pc, conf, ret, cmdVars>>
      /\ lib_pc \notin {"off", "idle", "return"} /\ lib_pc' \notin {"off", "idle", "vfio"}
  BY StepAnswers
<1>2. create_conf_inst' = create_conf_inst /\ OperationArgs' = OperationArgs
  BY <1>1 DEF cmdVars, create_conf_inst, OperationArgs
<1>3. cmd_ret = "SUCCESS" /\ cmd_ret' = "SUCCESS" /\ cmd_pc' = cmd_pc
  BY <1>1 DEF Inv, Main, Places, cmdVars
<1>4. Places'
  BY <1>1, <1>3 DEF Inv, Main, Places, Callers
<1>5. Decided'
  BY <1>1, <1>2, <1>3 DEF Inv, Main, Decided, Callers
<1>6. Held'
  <2>1. group' = (group \/ (lib_pc = "vfio" /\ lib_pc' # "return"))
    BY DEF LibraryStep
  <2>2. CASE main_pc = "init"
    <3>1. lib_pc = "vfio" /\ lib_pc' = "return" => lib_ret' = "FAILURE"
      BY SameLibrary, Toks, LibP!Vfio DEF LibraryStep, Inv, Parts
    <3> QED BY <1>1, <1>3, <2>1, <2>2, <3>1 DEF Inv, Main, Held
  <2>3. CASE main_pc = "op"
    <3>1. op = conf.command /\ conf.command \notin {"init", "deinit"}
      BY <1>1, <2>3, Passes DEF Inv, Main, Decided, Callers
    <3>2. obj' = "ready"
      BY <1>1, <3>1 DEF Parts, LibP!Handle, LibP!NoCall
    <3> QED BY <1>1, <1>3, <2>1, <2>3, <3>2 DEF Inv, Main, Held
  <2> QED BY <1>1, <2>2, <2>3
<1>7. Told'
  <2>1. group' \in BOOLEAN /\ ret' \in {"SUCCESS", "FAILURE"} /\ ret' = "SUCCESS"
    BY <1>1 DEF LibraryStep, Inv, Main, Told
  <2>2. answered' \subseteq Lib!Body \X BOOLEAN
    BY DEF LibraryStep, Inv, Main, Told
  <2>3. CASE main_pc = "init"
    <3>1. answered' \subseteq Versions
      BY <2>3, StepAnswers, InitAsks DEF Inv, Main, Told, Versions
    <3> QED BY <1>1, <1>3, <2>1, <2>2, <2>3, <3>1 DEF Told
  <2>4. CASE main_pc = "op"
    <3>1. /\ LibP!Made   = {c \in Changes : Answered(c, TRUE)}
          /\ LibP!Missed = {c \in Changes : Answered(c, FALSE)}
      BY <2>4 DEF Inv, Main, Told
    <3>2. /\ LibP!Made'   = {c \in Changes : Answered(c, TRUE)'}
          /\ LibP!Missed' = {c \in Changes : Answered(c, FALSE)'}
      BY <3>1, StepAnswers DEF Answered, Changes, LibP!Changes
    <3> QED BY <1>1, <1>3, <2>1, <2>2, <2>4, <3>2 DEF Told
  <2> QED BY <1>1, <2>3, <2>4
<1> QED BY <1>4, <1>5, <1>6, <1>7 DEF Main

\* What the library has said when it returns to main.
LEMMA Returned ==
  ASSUME Inv, main_pc \in Callers, lib_pc = "return"
  PROVE  /\ main_pc = "init" => obj = (IF lib_ret = "SUCCESS" THEN "ready" ELSE "none")
         /\ main_pc = "op" => obj = "ready"
         /\ main_pc = "deinit" => obj = "none" /\ lib_ret = "SUCCESS"
         /\ lib_ret \in {"SUCCESS", "FAILURE"}
<1>1. op = IF main_pc = "op" THEN conf.command ELSE main_pc
  BY DEF Inv, Main, Decided
<1>2. main_pc = "op" => conf.command \notin {"init", "deinit"}
  BY Passes
<1>3. lib_ret \in {"SUCCESS", "FAILURE"}
  BY DEF Inv, Parts, LibP!Place, LibP!Data, LibP!Results
<1> QED BY <1>1, <1>2, <1>3 DEF Inv, Parts, LibP!Handle, LibP!NoCall, Callers

\* The operation's result goes by the answers of the MC.
LEMMA ReturnedOp ==
  ASSUME Inv, main_pc = "op", lib_pc = "return"
  PROVE  conf.command = "reset" => (lib_ret = "SUCCESS" <=> Answered("reset", TRUE))
<1>1. op = conf.command
  BY DEF Inv, Main, Decided, Callers
<1>2. LibP!Made = {c \in Changes : Answered(c, TRUE)}
  BY DEF Inv, Main, Told
<1> QED BY <1>1, <1>2 DEF Inv, Parts, LibP!Course, LibP!AfterMc, Changes

LEMMA MainReturns ==
  ASSUME Inv, InitReturns \/ OperationReturns \/ DeinitReturns
  PROVE  Main'
<1>1. /\ UNCHANGED <<cmdVars, conf, group, answered, obj>> /\ main_pc \in Callers
      /\ lib_pc = "return" /\ lib_pc' = "idle" /\ trace' = <<>>
  BY SameLibrary
     DEF InitReturns, OperationReturns, DeinitReturns, LibraryReturns, LibP!Return,
         LibP!objVars, Callers
<1>2. create_conf_inst' = create_conf_inst /\ cmd_ret' = cmd_ret /\ cmd_pc' = cmd_pc
      /\ cmd_ret = "SUCCESS"
  BY <1>1 DEF cmdVars, create_conf_inst, Inv, Main, Places, Callers
<1>3. LibP!Made' = {} /\ LibP!Missed' = {}
  BY <1>1, Toks, LibP!NothingSentNext
<1>4. CASE InitReturns
  <2>1. main_pc = "init" /\ answered \subseteq Versions /\ ret = "SUCCESS"
    BY <1>4 DEF InitReturns, LibraryReturns, Inv, Main, Told
  <2>2. \A c \in Changes, ok \in BOOLEAN : ~Answered(c, ok)'
    BY <1>1, <2>1, NoVersions DEF Answered
  <2>3. CASE lib_ret = "SUCCESS"
    <3>1. main_pc' = "op" /\ ret' = "SUCCESS" /\ obj' = "ready" /\ group
      BY <1>1, <1>4, <2>1, <2>3, Returned DEF InitReturns, AfterInit, Inv, Main, Held
    <3> QED BY <1>1, <1>2, <1>3, <2>2, <3>1
            DEF Inv, Main, Places, Decided, Held, Told, Callers
  <2>4. CASE lib_ret = "FAILURE"
    <3>1. main_pc' = "exit" /\ ret' = "FAILURE" /\ obj' = "none"
      BY <1>1, <1>4, <2>1, <2>4, Returned DEF InitReturns, AfterInit
    <3>2. ~Answered("reset", TRUE)'
      BY <2>2 DEF Changes
    <3>3. Places' /\ Decided'
      BY <1>1, <1>2, <2>1, <3>1 DEF Inv, Main, Places, Decided, Callers
    <3>4. Held'
      BY <1>1, <1>2, <2>1, <3>1 DEF Inv, Main, Held
    <3>5. Told'
      BY <1>1, <1>2, <2>1, <3>1, <3>2 DEF Inv, Main, Told
    <3> QED BY <3>3, <3>4, <3>5 DEF Main
  <2> QED BY <1>1, <2>3, <2>4, Returned
<1>5. CASE OperationReturns
  <2>1. main_pc = "op" /\ ret' = lib_ret /\ main_pc' = AfterOperation
    BY <1>5 DEF OperationReturns, LibraryReturns
  <2>2. /\ obj' = "ready" /\ lib_ret \in {"SUCCESS", "FAILURE"}
        /\ conf.command = "reset" => (lib_ret = "SUCCESS" <=> Answered("reset", TRUE)')
    BY <1>1, <2>1, Returned, ReturnedOp DEF Answered
  <2>3. main_pc' = (IF conf.command = "load" THEN "blocked" ELSE "deinit")
    BY <2>1 DEF AfterOperation
  <2>4. Places' /\ Decided'
    BY <1>1, <1>2, <2>1, <2>3 DEF Inv, Main, Places, Decided, Callers
  <2>5. Held'
    BY <1>1, <1>2, <2>1, <2>2, <2>3 DEF Inv, Main, Held
  <2>6. Told'
    BY <1>1, <1>2, <2>1, <2>2, <2>3 DEF Inv, Main, Told
  <2> QED BY <2>4, <2>5, <2>6 DEF Main
<1>6. CASE DeinitReturns
  <2>1. /\ main_pc = "deinit" /\ main_pc' = "exit"
        /\ lib_ret = "SUCCESS" /\ ret' = ret /\ obj' = "none"
    BY <1>1, <1>6, Returned DEF DeinitReturns, LibraryReturns, ExitStatus, Inv, Main, Told
  <2> QED BY <1>1, <1>2, <2>1
          DEF Inv, Main, Places, Decided, Held, Told, Answered, Callers
<1> QED BY <1>4, <1>5, <1>6

\* Nothing of a run is left when its process is gone.
LEMMA MainGone ==
  ASSUME Inv, Exit \/ Kill
  PROVE  Main'
<1>1. /\ main_pc' = "off" /\ conf' = NoConf /\ ret' = "SUCCESS" /\ group' = FALSE
      /\ answered' = {} /\ cmd_pc' = "off" /\ lib_pc' = "off" /\ obj' = "none"
  BY SameParser, SameLibrary DEF Exit, Kill, Gone, CmdP!End, LibP!Exit
<1> QED BY <1>1, NoCommand DEF NoConf, Main, Places, Decided, Held, Told, Callers

\* A step that is none of main's: the tile boots, or nothing happens.
LEMMA MainAside ==
  ASSUME Inv, Boot \/ UNCHANGED vars
  PROVE  Main'
<1>1. UNCHANGED <<cmdVars, mainVars, obj, lib_pc, op, args, lib_ret, trace>>
  BY SameLibrary DEF Boot, vars, libVars, LibP!Boot, LibP!objVars, LibP!callVars
<1>2. create_conf_inst' = create_conf_inst /\ OperationArgs' = OperationArgs
  BY <1>1 DEF cmdVars, mainVars, create_conf_inst, OperationArgs
<1>3. LibP!Made' = LibP!Made /\ LibP!Missed' = LibP!Missed
  BY <1>1, Toks, LibP!Unsent
<1>4. Places' /\ Held'
  BY <1>1 DEF cmdVars, mainVars, Inv, Main, Places, Held
<1>5. Decided'
  BY <1>1, <1>2 DEF cmdVars, mainVars, Inv, Main, Decided
<1>6. Told'
  BY <1>1, <1>3 DEF cmdVars, mainVars, Inv, Main, Told, Answered
<1> QED BY <1>4, <1>5, <1>6 DEF Main

LEMMA Keeps == Inv /\ [Next]_vars => Inv'
<1> SUFFICES ASSUME Inv, [Next]_vars PROVE Inv'
  OBVIOUS
<1>1. Parts'
  BY PartsNext
<1>2. Main'
  BY <1>1, MainStart, MainParse, MainParsed, MainDispatch, MainCall, MainLibraryStep,
     MainReturns, MainGone, MainAside DEF Next, MainStep
<1> QED BY <1>1, <1>2 DEF Inv

\* The parts and main stay in step over any number of runs, killed anywhere.
THEOREM Invariance == Spec => []Inv
<1>1. Init => Inv
  BY PartsBegin, MainBegin DEF Inv
<1> QED BY <1>1, Keeps, PTL DEF Spec

-----------------------------------------------------------------------------
(* The command line and the exit status                                     *)

LEMMA Kinds == Inv => TypeOK
<1> SUFFICES ASSUME Inv PROVE TypeOK
  OBVIOUS
<1>1. conf = NoConf \/ (conf = create_conf_inst /\ cmd_pc = "done" /\ cmd_ret = "SUCCESS")
  <2>1. cmd_ret \in {"SUCCESS", "FAILURE"}
    BY Lines, CmdP!Kinds DEF Inv, Parts, CmdP!Inv, CmdP!TypeOK
  <2> QED BY <2>1 DEF Inv, Main, Places, Decided
<1>2. /\ conf.command \in Cmd!Commands \cup {Unset} /\ conf.reset_flag \in BOOLEAN
      /\ {conf.image_file, conf.args_file} \subseteq Words \cup {Unset, Cmd!Garbled}
      /\ conf.tpc \in 0..Cmd!MAX_THREAD_PER_CORE
  <2>1. CASE conf = NoConf
    BY <2>1 DEF NoConf, Cmd!MAX_THREAD_PER_CORE
  <2>2. CASE conf = create_conf_inst /\ cmd_pc = "done" /\ cmd_ret = "SUCCESS"
    BY <2>2, Decides DEF Inv, Parts, HasOperation, Cmd!Commands
  <2> QED BY <1>1, <2>1, <2>2
<1> QED BY <1>2 DEF TypeOK, Inv, Main, Places, Decided, Told, Callers

\* Whatever line is accepted, the library is asked for what its words say: from
\* the options to the arguments of the call.
THEOREM Asked == Spec => []CallAsAsked
<1>1. ASSUME Inv PROVE CallAsAsked
  <2>1. TypeOK
    BY <1>1, Kinds
  <2>2. main_pc = "op" => obj = "ready"
    BY <1>1 DEF Inv, Main, Held
  <2>3. ASSUME main_pc = "op", lib_pc # "idle"
        PROVE  /\ Cmd!WordsMeant /\ op = argv[1]
               /\ op = "load" => args.reset = Cmd!Given("r") /\ args.afile = Cmd!Given("a")
    <3>1. conf = create_conf_inst /\ op = conf.command /\ args = OperationArgs
          /\ cmd_pc = "done" /\ cmd_ret = "SUCCESS"
      BY <1>1, <2>3 DEF Inv, Main, Places, Decided, Callers
    <3>2. /\ Cmd!WordsMeant /\ conf.command = argv[1] /\ conf.reset_flag \in BOOLEAN
          /\ conf.reset_flag <=> argv[1] = "reset" \/ Cmd!Given("r")
          /\ conf.args_file # Unset <=> Cmd!Given("a")
      BY <1>1, <3>1, Decides DEF Inv, Parts
    <3>3. op = "load" => args.reset = conf.reset_flag /\ args.afile = (conf.args_file # Unset)
      BY <3>1 DEF OperationArgs
    <3>4. Cmd!Given("r") \in BOOLEAN /\ Cmd!Given("a") \in BOOLEAN
      BY DEF Cmd!Given
    <3>5. op = "load" => /\ conf.reset_flag = Cmd!Given("r")
                         /\ (conf.args_file # Unset) = Cmd!Given("a")
      BY <3>1, <3>2, <3>4
    <3> QED BY <3>1, <3>2, <3>3, <3>5
  <2> QED BY <2>1, <2>2, <2>3 DEF CallAsAsked
<1> QED BY Invariance, <1>1, PTL

\* The exit status of a run tells what the MC answered, and no handle is left,
\* whatever failed on the way.
THEOREM Tells == Spec => []ExitTells
<1>1. ASSUME Inv PROVE ExitTells
  <2>1. SUFFICES ASSUME main_pc = "exit" PROVE ExitTells
    BY DEF ExitTells
  <2>2. obj = "none" /\ (cmd_ret = "FAILURE" => answered = {})
    BY <1>1, <2>1 DEF Inv, Main, Held, Told
  <2>3. cmd_ret = "SUCCESS" => conf.command = argv[1]
    BY <1>1, <2>1, Decides DEF Inv, Parts, Main, Places, Decided
  <2>4. Versions \subseteq {<<"get_sl_version", FALSE>>, <<"get_sl_version", TRUE>>}
    <3>1. ASSUME NEW e \in Versions
          PROVE  e \in {<<"get_sl_version", FALSE>>, <<"get_sl_version", TRUE>>}
      <4>1. PICK ok \in BOOLEAN : e = <<"get_sl_version", ok>>
        BY DEF Versions
      <4>2. ok = TRUE \/ ok = FALSE
        OBVIOUS
      <4> QED BY <4>1, <4>2
    <3> QED BY <3>1
  <2> QED BY <1>1, <2>1, <2>2, <2>3, <2>4 DEF ExitTells, Inv, Main, Told, Answered
<1> QED BY Invariance, <1>1, PTL

-----------------------------------------------------------------------------
(* The tile                                                                 *)

\* A command that changes the tile is one of the three.
LEMMA OnlyChanges ==
  ASSUME NEW c \in LibP!Body, NEW ok \in BOOLEAN, tile' \in LibP!Effect(c, ok), tile' # tile
  PROVE  c \in Changes
  BY DEF LibP!Effect, LibP!Body, Changes

\* No step of any run, on any path, does to the tile what was not typed.
THEOREM OnlyAsTyped == Spec => TileAsTyped
<1>1. ASSUME Inv, CallAsAsked, [Next]_vars, tile' # tile, ~Boot
      PROVE  main_pc = "op" /\ Asks(lib_pc)
  <2>1. LibraryStep
    BY <1>1, SameLibrary
       DEF Next, MainStep, Start, Parse, Parsed, Dispatch, CallInit, Operation, CallDeinit,
           CallLibrary, InitReturns, OperationReturns, DeinitReturns, LibraryReturns, Exit,
           Kill, Gone, vars, libVars, LibP!Start, LibP!Exit, LibP!Call, LibP!Return,
           LibP!mcVars
  <2>2. main_pc \in {"init", "op"} /\ lib_pc \in LibP!Body /\ lib_pc \in Changes
    <3>1. /\ main_pc \in {"init", "op"} /\ lib_pc \in LibP!Body
          /\ \E ok \in BOOLEAN : tile' \in LibP!Effect(lib_pc, ok)
      BY <1>1, <2>1, StepAnswers
    <3> QED BY <1>1, <3>1, OnlyChanges
  <2>3. main_pc = "op"
    BY <1>1, <2>2, InitAsks DEF Changes
  <2>4. /\ Cmd!WordsMeant /\ op = argv[1] /\ (op = "load" => args.reset = Cmd!Given("r"))
    BY <1>1, <2>2, <2>3 DEF CallAsAsked, Changes
  <2>5. /\ lib_pc \in {"load", "run"} => op = "load"
        /\ lib_pc = "reset" => op = "reset" \/ (op = "load" /\ args.reset)
    BY <1>1 DEF Inv, Parts, LibP!Place, LibP!Control
  <2> QED BY <2>2, <2>3, <2>4, <2>5 DEF Asks, Changes
<1>2. Inv /\ CallAsAsked /\ [Next]_vars =>
        [tile' # tile => Boot \/ (main_pc = "op" /\ Asks(lib_pc))]_vars
  BY <1>1
<1> QED BY <1>2, Invariance, Asked, PTL DEF Spec, TileAsTyped

-----------------------------------------------------------------------------
(* The refinement: a run of the tool is one of ToolRuns                     *)

\* What ToolRuns sees of the only run.
Owner     == IF group THEN "run" ELSE "none"
Tried(ok) == {c \in Changes : Answered(c, ok)}
TriedAll  == Tried(TRUE) \cup Tried(FALSE)
Result    == IF RunPlace = "off" THEN "SUCCESS"
             ELSE IF lib_pc = "return" /\ main_pc # "deinit" THEN lib_ret ELSE ret
View      == <<tile, Owner, RunPlace, TheJob, Tried(TRUE), Tried(FALSE), Result>>

\* Functions on one run.
LEMMA OneRunOnly ==
  /\ \A r : r \in TheRun <=> r = "run"
  /\ \A x : [r \in TheRun |-> x]["run"] = x
  /\ \A x, y : [[r \in TheRun |-> x] EXCEPT !["run"] = y] = [r \in TheRun |-> y]
  BY DEF TheRun

\* A step that changes nothing of that is none of the run's.
LEMMA RunAside ==
  ASSUME UNCHANGED View
  PROVE  UNCHANGED OneRun!vars
  BY DEF View, Owner, Tried, Answered, Result, OneRun!vars, OneRun!runVars

\* Each action of ToolRuns, told by what changes of it.
LEMMA RunExec ==
  ASSUME RunPlace = "off", RunPlace' = "setup", TheJob' \in OneRun!Jobs,
         UNCHANGED <<tile, Owner, Tried(TRUE), Tried(FALSE), Result>>
  PROVE  OneRun!Next
<1>1. OneRun!Exec("run", TheJob')
  BY OneRunOnly DEF OneRun!Exec, OneRun!Goto, Owner, Tried, Answered, Result
<1> QED BY <1>1, OneRunOnly DEF OneRun!Next

LEMMA RunOpens ==
  ASSUME RunPlace = "setup", RunPlace' = "look", ~group, group',
         UNCHANGED <<tile, TheJob, Tried(TRUE), Tried(FALSE), Result>>
  PROVE  OneRun!Next
<1>1. OneRun!OpenGroup("run")
  BY OneRunOnly DEF OneRun!OpenGroup, OneRun!GroupFree, OneRun!Goto, Tried, Answered, Result
<1> QED BY <1>1, OneRunOnly DEF OneRun!Next, OneRun!RunStep

LEMMA RunFails ==
  ASSUME RunPlace \in {"setup", "look"}, RunPlace' = "leave", Result' = "FAILURE",
         UNCHANGED <<tile, Owner, TheJob, Tried(TRUE), Tried(FALSE)>>
  PROVE  OneRun!Next
<1>1. OneRun!InitFails("run")
  BY OneRunOnly DEF OneRun!InitFails, OneRun!Returns, Owner, Tried, Answered, Result
<1> QED BY <1>1, OneRunOnly DEF OneRun!Next, OneRun!RunStep

LEMMA RunReady ==
  ASSUME RunPlace = "look", RunPlace' = "work",
         UNCHANGED <<tile, Owner, TheJob, Tried(TRUE), Tried(FALSE), Result>>
  PROVE  OneRun!Next
<1>1. OneRun!InitDone("run")
  BY OneRunOnly DEF OneRun!InitDone, OneRun!Goto, Owner, Tried, Answered, Result
<1> QED BY <1>1, OneRunOnly DEF OneRun!Next, OneRun!RunStep

LEMMA RunChanges ==
  ASSUME NEW c \in Changes, RunPlace = "work", OneRun!NextChange("run") = c,
         \/ tile' = OneRun!Outcome(c) /\ Tried(TRUE)' = Tried(TRUE) \cup {c}
            /\ Tried(FALSE)' = Tried(FALSE)
         \/ tile' \in OneRun!Damage(c) /\ Tried(FALSE)' = Tried(FALSE) \cup {c}
            /\ Tried(TRUE)' = Tried(TRUE),
         UNCHANGED <<Owner, RunPlace, TheJob, Result>>
  PROVE  OneRun!Next
<1>1. OneRun!Change("run", c)
  BY OneRunOnly DEF OneRun!Change, Owner, Tried, Answered, Result
<1> QED BY <1>1, OneRunOnly DEF OneRun!Next, OneRun!RunStep, OneRun!Changes, Changes

LEMMA RunWorked ==
  ASSUME RunPlace = "work", RunPlace' = (IF TheJob.op = "load" THEN "blocked" ELSE "leave"),
         TriedAll = {} \/ OneRun!NextChange("run") = "none",
         Result' \in OneRun!Answers("run"),
         UNCHANGED <<tile, Owner, TheJob, Tried(TRUE), Tried(FALSE)>>
  PROVE  OneRun!Next
<1>1. OneRun!WorkDone("run")
  BY OneRunOnly DEF OneRun!WorkDone, OneRun!AfterWork, OneRun!Goto, OneRun!Returns,
                    OneRun!Tried, TriedAll, Owner, Tried, Answered, Result
<1> QED BY <1>1, OneRunOnly DEF OneRun!Next, OneRun!RunStep

LEMMA RunGone ==
  ASSUME RunPlace # "off", RunPlace' = "off", ~group', tile' = tile,
         Tried(TRUE)' = {}, Tried(FALSE)' = {}
  PROVE  OneRun!Next
<1>1. TheJob' = OneRun!NoJob /\ Result' = "SUCCESS" /\ Owner' = "none"
  BY DEF TheJob, OneRun!NoJob, Result, Owner
<1>2. OneRun!Returns("run", "SUCCESS")
  BY <1>1, OneRunOnly DEF OneRun!Returns, Result
<1>3. OneRun!Gone("run")
  BY <1>1, <1>2, OneRunOnly DEF OneRun!Gone, OneRun!OwnerAfter, Owner, Tried, Answered
<1>4. OneRun!Exit("run") \/ OneRun!Kill("run")
  BY <1>3, OneRunOnly DEF OneRun!Exit, OneRun!Kill
<1> QED BY <1>4, OneRunOnly DEF OneRun!Next, OneRun!RunStep

\* Before its command line was accepted, or if it is refused, nothing happens.
LEMMA RefineParsing ==
  ASSUME Inv, Start \/ Parse \/ Parsed
  PROVE  UNCHANGED View
<1>1. RunPlace = "off" /\ RunPlace' = "off"
  <2>1. CASE Start \/ Parse
    BY <2>1 DEF Start, Parse, mainVars, RunPlace
  <2>2. CASE Parsed
    BY <2>2, Lines, CmdP!Kinds
       DEF Parsed, AfterParsing, cmdVars, RunPlace, Inv, Parts, CmdP!Inv, CmdP!TypeOK
  <2> QED BY <2>1, <2>2
<1>2. UNCHANGED <<tile, group, answered>>
  BY SameLibrary DEF Start, Parse, Parsed, libVars, mainVars, LibP!Start, LibP!mcVars
<1> QED BY <1>1, <1>2 DEF View, Owner, TheJob, Tried, Answered, Result

LEMMA RefineDispatch ==
  ASSUME Inv, Dispatch
  PROVE  OneRun!Next
<1>1. conf.command = argv[1] /\ HasOperation(conf.command) /\ conf.reset_flag \in BOOLEAN
  BY Decides DEF Dispatch, Inv, Parts, Main, Places, Decided
<1>2. /\ main_pc' = "init" /\ UNCHANGED <<tile, conf, group, answered, ret, cmd_ret, lib_pc>>
      /\ ~group /\ lib_pc = "idle" /\ ret = "SUCCESS" /\ cmd_ret = "SUCCESS"
  BY <1>1 DEF Dispatch, cmdVars, libVars, Inv, Main, Places, Held, Told, Callers
<1>3. RunPlace = "off" /\ RunPlace' = "setup"
  BY <1>2 DEF Dispatch, RunPlace
<1>4. TheJob' \in OneRun!Jobs
  <2>1. TheJob' = [op |-> conf.command, reset |-> conf.command = "load" /\ conf.reset_flag]
    BY <1>2, <1>3 DEF TheJob
  <2>2. conf.command \in OneRun!Ops
    BY <1>1 DEF HasOperation, OneRun!Ops
  <2>3. CASE conf.command = "load" /\ conf.reset_flag
    <3>1. TheJob' = [op |-> "load", reset |-> TRUE]
      BY <2>1, <2>3
    <3> QED BY <3>1 DEF OneRun!Jobs
  <2>4. CASE ~(conf.command = "load" /\ conf.reset_flag)
    <3>1. TheJob' = [op |-> conf.command, reset |-> FALSE]
      BY <2>1, <2>4
    <3> QED BY <2>2, <3>1 DEF OneRun!Jobs
  <2> QED BY <2>3, <2>4
<1>5. UNCHANGED <<Owner, Tried(TRUE), Tried(FALSE), Result>>
  BY <1>2, <1>3 DEF Owner, Tried, Answered, Result
<1> QED BY <1>2, <1>3, <1>4, <1>5, RunExec

LEMMA RefineCall ==
  ASSUME Inv, CallInit \/ Operation \/ CallDeinit
  PROVE  UNCHANGED View
<1>1. /\ UNCHANGED <<cmdVars, mainVars, tile>> /\ main_pc \in Callers /\ lib_pc = "idle"
      /\ lib_pc' = "return" => main_pc = "deinit"
  <2>1. CASE CallInit \/ CallDeinit
    BY <2>1, SameLibrary
       DEF CallInit, CallDeinit, CallLibrary, LibP!Call, LibP!Entry, LibP!mcVars, Lib!NoArgs,
            Callers
  <2>2. CASE Operation
    BY <2>2, Passes, SameLibrary
       DEF Operation, CallLibrary, LibP!Call, LibP!Entry, LibP!mcVars, Callers
  <2> QED BY <2>1, <2>2
<1>2. RunPlace' = RunPlace
  BY <1>1 DEF cmdVars, mainVars, RunPlace
<1> QED BY <1>1, <1>2 DEF mainVars, View, Owner, TheJob, Tried, Answered, Result

\* Nothing that the initialisation asks for is a change.
LEMMA InitTriesNothing ==
  ASSUME answered \subseteq Versions
  PROVE  Tried(TRUE) = {} /\ Tried(FALSE) = {}
  BY NoVersions DEF Tried, Answered

LEMMA InitTriesNothingNext ==
  ASSUME answered' \subseteq Versions
  PROVE  Tried(TRUE)' = {} /\ Tried(FALSE)' = {}
  BY NoVersions DEF Tried, Answered

LEMMA RefineInit ==
  ASSUME Inv, Inv', LibraryStep, main_pc = "init"
  PROVE  OneRun!Next \/ UNCHANGED View
<1>1. /\ UNCHANGED <<main_pc, conf, ret, cmd_ret>> /\ lib_pc \notin {"off", "idle", "return"}
      /\ cmd_ret = "SUCCESS" /\ ret = "SUCCESS"
  BY StepAnswers DEF cmdVars, Inv, Main, Places, Told
<1>2. UNCHANGED <<Tried(TRUE), Tried(FALSE)>>
  BY <1>1, InitTriesNothing, InitTriesNothingNext DEF Inv, Main, Told
<1>3. tile' = tile
  BY StepAnswers, InitAsks DEF LibP!Effect
<1>4. group' = (group \/ (lib_pc = "vfio" /\ lib_pc' # "return")) /\ group \in BOOLEAN
  BY DEF LibraryStep, Inv, Main, Told
<1>5. RunPlace = (IF group THEN "look" ELSE "setup")
  BY <1>1 DEF RunPlace
<1>6. /\ ~group <=> lib_pc = "vfio"
      /\ lib_pc = "vfio" /\ lib_pc' = "return" => lib_ret' = "FAILURE"
      /\ lib_ret' \in {"SUCCESS", "FAILURE"}
  <2>1. ~group <=> lib_pc = "vfio"
    BY <1>1 DEF Inv, Main, Held
  <2>2. lib_pc = "vfio" /\ lib_pc' = "return" => lib_ret' = "FAILURE"
    BY SameLibrary, Toks, LibP!Vfio DEF LibraryStep, Inv, Parts
  <2>3. lib_ret' \in {"SUCCESS", "FAILURE"}
    BY DEF Inv, Parts, LibP!Place, LibP!Data, LibP!Results
  <2> QED BY <2>1, <2>2, <2>3
<1>7. TheJob' = TheJob
  BY <1>1, <1>5 DEF TheJob, RunPlace
<1>8. CASE lib_pc' = "return" /\ lib_ret' = "FAILURE"
  <2>1. RunPlace' = "leave" /\ Result' = "FAILURE"
    BY <1>1, <1>8 DEF RunPlace, Result
  <2>2. Owner' = Owner
    BY <1>4, <1>8 DEF Owner
  <2> QED BY <1>2, <1>3, <1>5, <1>7, <2>1, <2>2, RunFails
<1>9. CASE ~(lib_pc' = "return" /\ lib_ret' = "FAILURE")
  <2>1. RunPlace' = "look" /\ group'
    BY <1>1, <1>4, <1>6, <1>9 DEF RunPlace
  <2>2. Result' = Result
    BY <1>1, <1>5, <1>6, <1>9, <2>1 DEF Result
  <2>3. CASE group
    <3>1. RunPlace = "look" /\ Owner' = Owner
      BY <1>5, <2>1, <2>3 DEF Owner
    <3> QED BY <1>2, <1>3, <1>7, <2>1, <2>2, <3>1 DEF View
  <2>4. CASE ~group
    BY <1>2, <1>3, <1>5, <1>7, <2>1, <2>2, <2>4, RunOpens
  <2> QED BY <2>3, <2>4
<1> QED BY <1>8, <1>9

\* The next change of the run, by the answers so far.
NextTry ==
  CASE op = "reset" /\ TriedAll = {} -> "reset"
    [] op = "load" /\ TriedAll = {} -> IF TheJob.reset THEN "reset" ELSE "load"
    [] op = "load" /\ TriedAll = {"reset"} -> "load"
    [] op = "load" /\ "load" \in Tried(TRUE) /\ "run" \notin TriedAll -> "run"
    [] OTHER -> "none"

LEMMA NextIsTry ==
  ASSUME TheJob.op = op
  PROVE  OneRun!NextChange("run") = NextTry
  BY OneRunOnly DEF OneRun!NextChange, OneRun!Tried, NextTry, TriedAll, Tried, Answered

\* What the library goes to change next is what ToolRuns has the run change.
LEMMA ChangeIsNext ==
  ASSUME Inv, main_pc = "op", lib_pc \in Changes
  PROVE  OneRun!NextChange("run") = lib_pc
<1>1. /\ op = conf.command /\ args = OperationArgs
      /\ LibP!Made = Tried(TRUE) /\ LibP!Missed = Tried(FALSE) /\ cmd_ret = "SUCCESS"
  BY DEF Inv, Main, Places, Decided, Told, Tried, Changes, Callers
<1>2. RunPlace = "work"
  BY <1>1 DEF RunPlace, Changes
<1>3. TheJob.op = op /\ TheJob.reset = (op = "load" /\ conf.reset_flag)
  BY <1>1, <1>2 DEF TheJob
<1>4. op = "load" => args.reset = conf.reset_flag
  BY <1>1 DEF OperationArgs
<1>5. /\ lib_pc \in {"load", "run"} => op = "load"
      /\ lib_pc = "reset" => op = "reset" \/ (op = "load" /\ args.reset)
  BY DEF Inv, Parts, LibP!Place, LibP!Control
<1>6. /\ lib_pc = "reset" => TriedAll = {}
      /\ lib_pc = "load" => TriedAll = IF args.reset THEN {"reset"} ELSE {}
      /\ lib_pc = "run" => "load" \in Tried(TRUE) /\ "run" \notin TriedAll
  BY <1>1 DEF Inv, Parts, LibP!Course, LibP!AfterMc, TriedAll
<1>7. OneRun!NextChange("run") = NextTry
  BY <1>3, NextIsTry
<1> HIDE DEF Tried
<1> USE DEF NextTry, TriedAll
<1>8. CASE lib_pc = "reset"
  BY <1>3, <1>4, <1>5, <1>6, <1>7, <1>8
<1>9. CASE lib_pc = "load"
  BY <1>3, <1>4, <1>5, <1>6, <1>7, <1>9
<1>10. CASE lib_pc = "run"
  BY <1>3, <1>4, <1>5, <1>6, <1>7, <1>10
<1> QED BY <1>8, <1>9, <1>10 DEF Changes

\* The operation is over when nothing is left to change, and answers for it.
LEMMA OperationOver ==
  ASSUME Inv, Inv', LibraryStep, main_pc = "op", lib_pc' = "return",
         UNCHANGED <<answered, tile>>
  PROVE  OneRun!Next
<1>1. /\ UNCHANGED <<main_pc, conf, ret, cmd_ret, op>> /\ lib_pc # "return"
      /\ cmd_ret = "SUCCESS" /\ op = conf.command
  BY StepAnswers DEF cmdVars, Inv, Main, Places, Decided, Callers
<1>2. UNCHANGED <<Tried(TRUE), Tried(FALSE)>>
  BY DEF Tried, Answered
<1>3. (LibP!Made' = Tried(TRUE)) /\ (LibP!Missed' = Tried(FALSE))
  BY <1>1, <1>2 DEF Inv, Main, Told, Tried
<1>4. group' = group
  BY <1>1 DEF LibraryStep, Inv, Main, Held
<1>5. RunPlace = "work" /\ RunPlace' = (IF conf.command = "load" THEN "blocked" ELSE "leave")
  BY <1>1 DEF RunPlace
<1>6. TheJob' = TheJob /\ TheJob.op = op
  BY <1>1, <1>5 DEF TheJob
<1>7. Result' = lib_ret' /\ lib_ret' \in {"SUCCESS", "FAILURE"}
  <2>1. lib_ret' \in {"SUCCESS", "FAILURE"}
    BY DEF Inv, Parts, LibP!Place, LibP!Data, LibP!Results
  <2> QED BY <1>1, <1>5, <2>1 DEF Result
<1>8. OneRun!NextChange("run") = NextTry
  BY <1>6, NextIsTry
<1>9. /\ op = "load" => \/ Tried(TRUE) = {} /\ Tried(FALSE) = {}
                        \/ "load" \in Tried(FALSE) \ Tried(TRUE) /\ "run" \notin TriedAll
                        \/ "load" \in Tried(TRUE) /\ "run" \in TriedAll
      /\ op = "load" => (lib_ret' = "SUCCESS" <=> {"load", "run"} \subseteq Tried(TRUE))
      /\ op = "reset" => (lib_ret' = "SUCCESS" <=> "reset" \in Tried(TRUE))
  BY <1>1, <1>3 DEF Inv, Parts, LibP!Course, LibP!AfterMc, TriedAll
<1>10. OneRun!Answers("run") =
         CASE op = "load"  -> {IF "run" \in Tried(TRUE) THEN "SUCCESS" ELSE "FAILURE"}
           [] op = "reset" -> {IF "reset" \in Tried(TRUE) THEN "SUCCESS" ELSE "FAILURE"}
           [] OTHER -> {"SUCCESS", "FAILURE"}
  BY <1>6, OneRunOnly DEF OneRun!Answers, Tried, Answered
<1>11. TriedAll = {} \/ OneRun!NextChange("run") = "none"
  <2> HIDE DEF Tried
  <2> USE DEF NextTry, TriedAll
  <2>1. CASE op = "load"
    <3>1. CASE "load" \in Tried(FALSE) \ Tried(TRUE)
      BY <1>8, <2>1, <3>1
    <3>2. CASE "load" \in Tried(TRUE) /\ "run" \in TriedAll
      BY <1>8, <2>1, <3>2
    <3> QED BY <1>9, <2>1, <3>1, <3>2
  <2>2. CASE op # "load"
    BY <1>8, <2>2
  <2> QED BY <2>1, <2>2
<1>12. "run" \in Tried(TRUE) /\ op = "load" => "load" \in Tried(TRUE)
  BY <1>9 DEF TriedAll
<1>13. Result' \in OneRun!Answers("run")
  <2>1. CASE op = "load"
    BY <1>7, <1>9, <1>10, <1>12, <2>1
  <2>2. CASE op # "load"
    BY <1>7, <1>9, <1>10, <2>2
  <2> QED BY <2>1, <2>2
<1>14. Owner' = Owner
  BY <1>4 DEF Owner
<1> QED BY <1>1, <1>2, <1>5, <1>6, <1>11, <1>13, <1>14, RunWorked

LEMMA RefineOperation ==
  ASSUME Inv, Inv', LibraryStep, main_pc = "op"
  PROVE  OneRun!Next \/ UNCHANGED View
<1>1. /\ UNCHANGED <<main_pc, conf, ret, cmd_ret>> /\ lib_pc # "return"
      /\ cmd_ret = "SUCCESS"
  BY StepAnswers DEF cmdVars, Inv, Main, Places
<1>2. group' = group /\ Owner' = Owner
  BY <1>1 DEF LibraryStep, Inv, Main, Held, Owner
<1>3. ASSUME lib_pc' # "return"
      PROVE  UNCHANGED <<RunPlace, TheJob, Result>> /\ RunPlace = "work"
  BY <1>1, <1>3 DEF RunPlace, TheJob, Result
<1>4. ASSUME NEW ok \in BOOLEAN, lib_pc \in LibP!Body, lib_pc' # "return",
             answered' = answered \cup {<<lib_pc, ok>>},
             tile' \in LibP!Effect(lib_pc, ok)
      PROVE  OneRun!Next \/ UNCHANGED View
  <2>1. \A b \in BOOLEAN : Tried(b)' = Tried(b) \cup {c \in Changes : c = lib_pc /\ b = ok}
    BY <1>4 DEF Tried, Answered
  <2>2. CASE lib_pc \in Changes
    <3>1. OneRun!NextChange("run") = lib_pc
      BY <2>2, ChangeIsNext
    <3>2. CASE ok
      <4>1. tile' = OneRun!Outcome(lib_pc)
        BY <1>4, <2>2, <3>2 DEF LibP!Effect, OneRun!Outcome, Changes
      <4>2. Tried(TRUE)' = Tried(TRUE) \cup {lib_pc} /\ Tried(FALSE)' = Tried(FALSE)
        BY <2>1, <2>2, <3>2
      <4> QED BY <1>2, <1>3, <1>4, <2>2, <3>1, <4>1, <4>2, RunChanges
    <3>3. CASE ~ok
      <4>1. tile' \in OneRun!Damage(lib_pc)
        BY <1>4, <2>2, <3>3 DEF LibP!Effect, OneRun!Damage, Changes
      <4>2. Tried(FALSE)' = Tried(FALSE) \cup {lib_pc} /\ Tried(TRUE)' = Tried(TRUE)
        BY <2>1, <2>2, <3>3
      <4> QED BY <1>2, <1>3, <1>4, <2>2, <3>1, <4>1, <4>2, RunChanges
    <3> QED BY <3>2, <3>3
  <2>3. CASE lib_pc \notin Changes
    <3>1. tile' = tile
      BY <1>4, <2>3 DEF LibP!Effect, Changes
    <3>2. Tried(TRUE)' = Tried(TRUE) /\ Tried(FALSE)' = Tried(FALSE)
      BY <2>1, <2>3
    <3> QED BY <1>2, <1>3, <1>4, <3>1, <3>2 DEF View
  <2> QED BY <2>2, <2>3
<1>5. ASSUME UNCHANGED <<answered, tile>>
      PROVE  OneRun!Next \/ UNCHANGED View
  <2>1. CASE lib_pc' = "return"
    BY <1>5, <2>1, OperationOver
  <2>2. CASE lib_pc' # "return"
    <3>1. UNCHANGED <<Tried(TRUE), Tried(FALSE)>>
      BY <1>5 DEF Tried, Answered
    <3> QED BY <1>2, <1>3, <1>5, <2>2, <3>1 DEF View
  <2> QED BY <2>1, <2>2
<1> QED BY <1>4, <1>5, StepAnswers

\* The library gives its result back to main.
LEMMA RefineReturns ==
  ASSUME Inv, Inv', InitReturns \/ OperationReturns \/ DeinitReturns
  PROVE  OneRun!Next \/ UNCHANGED View
<1>1. /\ UNCHANGED <<conf, group, answered, cmd_ret, tile>> /\ main_pc \in Callers
      /\ lib_pc = "return" /\ lib_pc' = "idle" /\ cmd_ret = "SUCCESS"
  BY SameLibrary
     DEF InitReturns, OperationReturns, DeinitReturns, LibraryReturns, LibP!Return, LibP!mcVars,
         cmdVars, Callers, Inv, Main, Places
<1>2. UNCHANGED <<Owner, Tried(TRUE), Tried(FALSE)>>
  BY <1>1 DEF Owner, Tried, Answered
<1>3. CASE InitReturns
  <2>1. main_pc = "init" /\ ret = "SUCCESS"
    BY <1>3 DEF InitReturns, LibraryReturns, Inv, Main, Told
  <2>2. CASE lib_ret = "SUCCESS"
    <3>1. main_pc' = "op" /\ ret' = "SUCCESS" /\ group
      BY <1>1, <1>3, <2>1, <2>2, Returned DEF InitReturns, AfterInit, Inv, Main, Held
    <3>2. RunPlace = "look" /\ RunPlace' = "work"
      BY <1>1, <2>1, <2>2, <3>1 DEF RunPlace
    <3>3. TheJob' = TheJob /\ Result' = Result
      BY <1>1, <2>1, <2>2, <3>1, <3>2 DEF TheJob, Result
    <3> QED BY <1>1, <1>2, <3>2, <3>3, RunReady
  <2>3. CASE lib_ret = "FAILURE"
    <3>1. main_pc' = "exit" /\ ret' = "FAILURE"
      BY <1>1, <1>3, <2>1, <2>3, Returned DEF InitReturns, AfterInit
    <3>2. RunPlace = "leave" /\ RunPlace' = "leave"
      BY <1>1, <2>1, <2>3, <3>1 DEF RunPlace
    <3>3. TheJob' = TheJob /\ Result' = Result
      BY <1>1, <2>1, <2>3, <3>1, <3>2 DEF TheJob, Result
    <3> QED BY <1>1, <1>2, <3>2, <3>3 DEF View
  <2> QED BY <1>1, <2>2, <2>3, Returned
<1>4. CASE OperationReturns
  <2>1. /\ main_pc = "op" /\ ret' = lib_ret
        /\ main_pc' = (IF conf.command = "load" THEN "blocked" ELSE "deinit")
    BY <1>4 DEF OperationReturns, LibraryReturns, AfterOperation
  <2>2. RunPlace = (IF conf.command = "load" THEN "blocked" ELSE "leave") /\ RunPlace' = RunPlace
    BY <1>1, <2>1 DEF RunPlace
  <2>3. TheJob' = TheJob /\ Result' = Result
    BY <1>1, <2>1, <2>2 DEF TheJob, Result
  <2> QED BY <1>1, <1>2, <2>2, <2>3 DEF View
<1>5. CASE DeinitReturns
  <2>1. main_pc = "deinit" /\ main_pc' = "exit" /\ ret' = ret
    BY <1>1, <1>5, Returned DEF DeinitReturns, LibraryReturns, ExitStatus, Inv, Main, Told
  <2>2. RunPlace = "leave" /\ RunPlace' = "leave"
    BY <1>1, <2>1 DEF RunPlace
  <2>3. TheJob' = TheJob /\ Result' = Result
    BY <1>1, <2>1, <2>2 DEF TheJob, Result
  <2> QED BY <1>1, <1>2, <2>2, <2>3 DEF View
<1> QED BY <1>3, <1>4, <1>5

\* The process is gone: the run leaves, or never had begun.
LEMMA RefineGone ==
  ASSUME Inv, Exit \/ Kill
  PROVE  OneRun!Next \/ UNCHANGED View
<1>1. main_pc' = "off" /\ ~group' /\ answered' = {} /\ tile' = tile /\ main_pc # "off"
  BY SameLibrary DEF Exit, Kill, Gone, LibP!Exit
<1>2. RunPlace' = "off" /\ Tried(TRUE)' = {} /\ Tried(FALSE)' = {}
  BY <1>1 DEF RunPlace, Tried, Answered
<1>3. CASE RunPlace # "off"
  BY <1>1, <1>2, <1>3, RunGone
<1>4. CASE RunPlace = "off"
  <2>1. main_pc \in {"off", "parse", "dispatch"} \/ cmd_ret = "FAILURE"
    BY <1>4 DEF RunPlace
  <2>2. ~group /\ answered = {}
    BY <2>1 DEF Inv, Main, Held, Told
  <2> QED BY <1>1, <1>2, <1>4, <2>2 DEF View, Owner, TheJob, Tried, Answered, Result
<1> QED BY <1>3, <1>4

\* A step that is none of main's.
LEMMA RefineAside ==
  ASSUME Boot \/ UNCHANGED vars
  PROVE  OneRun!Next \/ UNCHANGED View
<1>1. UNCHANGED <<cmdVars, mainVars, lib_pc, lib_ret>>
  BY SameLibrary DEF Boot, vars, libVars, LibP!Boot, LibP!callVars
<1>2. UNCHANGED <<Owner, RunPlace, TheJob, Tried(TRUE), Tried(FALSE), Result>>
  BY <1>1 DEF cmdVars, mainVars, Owner, RunPlace, TheJob, Tried, Answered, Result
<1>3. CASE Boot
  <2>1. OneRun!Boot
    BY <1>2, <1>3, SameLibrary
       DEF Boot, LibP!Boot, OneRun!Boot, OneRun!runVars, Owner, Tried, Answered, Result
  <2> QED BY <2>1 DEF OneRun!Next
<1>4. CASE UNCHANGED vars
  BY <1>2, <1>4 DEF vars, libVars, View
<1> QED BY <1>3, <1>4

\* Every step of a run of the tool is a step of ToolRuns or none: whatever its
\* command line, its answers and its end.
THEOREM Refinement == Spec => ImplementsToolRuns
<1>1. Init => OneRun!Init
  <2> SUFFICES ASSUME Init PROVE OneRun!Init
    OBVIOUS
  <2>1. tile \in OneRun!Tiles
    BY SameLibrary DEF Init, LibP!Init, LibP!Tiles, OneRun!Tiles
  <2>2. RunPlace = "off" /\ ~group /\ answered = {}
    BY DEF Init, RunPlace
  <2> QED BY <2>1, <2>2 DEF OneRun!Init, OneRun!NoJob, TheJob
<1>2. Inv /\ Inv' /\ [Next]_vars => [OneRun!Next]_OneRun!vars
  <2> SUFFICES ASSUME Inv, Inv', [Next]_vars PROVE [OneRun!Next]_OneRun!vars
    OBVIOUS
  <2>1. OneRun!Next \/ UNCHANGED View
    <3>1. LibraryStep => OneRun!Next \/ UNCHANGED View
      BY RefineInit, RefineOperation, StepAnswers
    <3> QED BY <3>1, RefineParsing, RefineDispatch, RefineCall, RefineReturns, RefineGone,
                RefineAside DEF Next, MainStep
  <2> QED BY <2>1, RunAside
<1> QED BY Invariance, <1>1, <1>2, PTL DEF Spec, ImplementsToolRuns, OneRun!Spec


-----------------------------------------------------------------------------
(* The tool and the tile                                                    *)

\* ToolRuns again, with what is proved about it.
OneRunP == INSTANCE ToolRunsProofs WITH
  Runs   <- TheRun,
  NoRun  <- "none",
  owner  <- IF group THEN "run" ELSE "none",
  at     <- [r \in TheRun |-> RunPlace],
  job    <- [r \in TheRun |-> TheJob],
  done   <- [r \in TheRun |-> {c \in Changes : <<c, TRUE>> \in answered}],
  failed <- [r \in TheRun |-> {c \in Changes : <<c, FALSE>> \in answered}],
  ret    <- [r \in TheRun |-> IF RunPlace = "off" THEN "SUCCESS"
                             ELSE IF lib_pc = "return" /\ main_pc # "deinit" THEN lib_ret ELSE ret]

LEMMA TheRuns == OneRunP!RunsAssumption
<1>1. OneRunP!IsFiniteSet(TheRun)
  <2>1. OneRunP!IsFiniteSet(TheRun) <=> IsFiniteSet(TheRun)
    BY DEF OneRunP!IsFiniteSet, IsFiniteSet
  <2> QED BY <2>1, FS_Singleton DEF TheRun
<1> QED BY <1>1 DEF TheRun, OneRunP!RunsAssumption

LEMMA SameRuns ==
  /\ OneRun!Init <=> OneRunP!Init
  /\ OneRun!Next <=> OneRunP!Next
  /\ UNCHANGED OneRun!vars <=> UNCHANGED OneRunP!vars
<1>1. OneRun!Init <=> OneRunP!Init
  BY DEF OneRun!Init, OneRunP!Init, OneRun!Tiles, OneRunP!Tiles, OneRun!NoJob, OneRunP!NoJob
<1>2. OneRun!Next <=> OneRunP!Next
  BY DEF OneRun!Next, OneRunP!Next, OneRun!Boot, OneRunP!Boot, OneRun!RunStep,
         OneRunP!RunStep, OneRun!Kill, OneRunP!Kill, OneRun!Jobs, OneRunP!Jobs, OneRun!Exec,
         OneRunP!Exec, OneRun!runVars, OneRunP!runVars, OneRun!OpenGroup, OneRunP!OpenGroup,
         OneRun!InitFails, OneRunP!InitFails, OneRun!InitDone, OneRunP!InitDone,
         OneRun!Changes, OneRunP!Changes, OneRun!Change, OneRunP!Change, OneRun!WorkDone,
         OneRunP!WorkDone, OneRun!Exit, OneRunP!Exit, OneRun!Gone, OneRunP!Gone, OneRun!Ops,
         OneRunP!Ops, OneRun!Goto, OneRunP!Goto, OneRun!GroupFree, OneRunP!GroupFree,
         OneRun!Returns, OneRunP!Returns, OneRun!NextChange, OneRunP!NextChange,
         OneRun!Outcome, OneRunP!Outcome, OneRun!Damage, OneRunP!Damage, OneRun!AfterWork,
         OneRunP!AfterWork, OneRun!Tried, OneRunP!Tried, OneRun!Answers, OneRunP!Answers,
         OneRun!NoJob, OneRunP!NoJob, OneRun!OwnerAfter, OneRunP!OwnerAfter
<1>3. UNCHANGED OneRun!vars <=> UNCHANGED OneRunP!vars
  BY DEF OneRun!vars, OneRunP!vars, OneRun!runVars, OneRunP!runVars
<1> QED BY <1>1, <1>2, <1>3

\* Seen from the tile, the whole tool is one user after another.
THEOREM ServesTile == Spec => OneRunP!ImplementsTileService
<1>1. OneRun!Spec => OneRunP!Spec
  <2>1. [OneRun!Next]_OneRun!vars => [OneRunP!Next]_OneRunP!vars
    BY SameRuns
  <2> QED BY <2>1, SameRuns, PTL DEF OneRun!Spec, OneRunP!Spec
<1>2. OneRunP!Spec => OneRunP!ImplementsTileService
  BY TheRuns, OneRunP!Refinement
<1> QED BY <1>1, <1>2, Refinement, PTL DEF ImplementsToolRuns

=============================================================================
