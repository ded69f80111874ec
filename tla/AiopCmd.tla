------------------------------ MODULE AiopCmd -------------------------------
(***************************************************************************)
(* The command line, src/aiop_cmd.c: parse_command_line_args and what it    *)
(* leaves in the globals gvars and sub_cmd_name.  One action per step of it: *)
(* the search for help, the sub-command, the environment, each round of the *)
(* getopt loop, and the end of the sub-command's handler.                   *)
(*                                                                         *)
(* A word of the command line is a value; Text tells what the code can see  *)
(* in it: its length, the option it spells, the file it names, the decimal  *)
(* number it starts with.  The long and the short form of an option are one *)
(* word.                                                                    *)
(*                                                                         *)
(* gvars is one struct: the byte after image_file is the low byte of        *)
(* args_file_flag, and the byte after args_file that of tpc_flag (short     *)
(* integers, little-endian), which is where the terminator of a path of     *)
(* MAX_PATH_LEN characters goes.                                            *)
(***************************************************************************)
EXTENDS Integers, Sequences, FiniteSetsExt

CONSTANTS
  Words, Text,                \* the words users write, and what each looks like
  CommandLines,               \* argv[1..argc-1]: sequences of words
  Environments,               \* values of the variable DPRC: a word or Unset
  Unset,                      \* no value
  IntWidth, LongWidth         \* bits of an int and of a long

MAX_CONTAINER_NAME_LEN  == 10
MAX_PATH_LEN            == 256
MAX_THREAD_PER_CORE     == 16
DEFAULT_THREAD_PER_CORE == 0
DEFAULT_DPRC_NAME       == "dprc.5"
CONTAINER_DEF == 1
CONTAINER_ENV == 2
CONTAINER_USR == 3

WithValue == {"g", "f", "a", "t", "c"}
Letters   == WithValue \cup {"r", "d", "v"}
Commands  == {"help", "load", "reset", "status", "gettod", "settod"}
INT_MAX   == 2^(IntWidth - 1) - 1
LONG_MAX  == 2^(LongWidth - 1) - 1
ULONG_MAX == 2^LongWidth - 1

ASSUME TextAssumption ==
  Text \in [Words -> [len : Nat, help : BOOLEAN, opt : Letters \cup {"?", "none"},
                      file : {"regular", "special", "none"},
                      neg : BOOLEAN, digits : Nat, rest : BOOLEAN, hex : BOOLEAN]]
ASSUME LinesAssumption ==
  /\ Commands \subseteq Words /\ Unset \notin Words
  /\ CommandLines \subseteq Seq(Words) /\ Environments \subseteq Words \cup {Unset}
\* The widths of the platforms, and small ones that TLC's numbers pass.
ASSUME WidthAssumption == IntWidth \in {6, 16, 32} /\ LongWidth \in {8, 32, 64} /\ IntWidth < LongWidth

VARIABLES
  argv, dprc,         \* the command line and the environment of the process
  gvars,              \* the globals of the same name
  sub_cmd_name,
  optind,             \* getopt's place in argv + 1, as a C index
  pc,                 \* next step, or "off" (no process) or "done"
  ret

vars == <<argv, dprc, gvars, sub_cmd_name, optind, pc, ret>>

\* Static storage: all zero before main.
Zero == [image_file |-> Unset, image_file_flag |-> FALSE,
         args_file |-> Unset, args_file_flag |-> FALSE,
         tpc |-> 0, tpc_flag |-> FALSE,
         container_name |-> Unset, container_name_flag |-> 0,
         reset_flag |-> FALSE, tod_val |-> 0, tod_flag |-> FALSE,
         status_flag |-> FALSE, debug_flag |-> FALSE, verbose_flag |-> FALSE]

Init ==
  /\ argv = <<>> /\ dprc = Unset
  /\ gvars = Zero /\ sub_cmd_name = Unset /\ optind = 1
  /\ pc = "off" /\ ret = "SUCCESS"

-----------------------------------------------------------------------------
(* The C library (external)                                                 *)

\* strtol then the conversion to int.
atoi(w) ==
  LET n == IF Text[w].neg THEN -Text[w].digits ELSE Text[w].digits
      long == IF n > LONG_MAX THEN LONG_MAX ELSE IF n < -LONG_MAX - 1 THEN -LONG_MAX - 1 ELSE n
      wrapped == long % 2^IntWidth
  IN  IF wrapped > INT_MAX THEN wrapped - 2^IntWidth ELSE wrapped

\* A sign negates the value in the unsigned type.
strtoul(w) ==
  LET t == Text[w]
      erange == t.digits > ULONG_MAX
  IN  [val |-> IF erange THEN ULONG_MAX
               ELSE IF t.neg THEN (2^LongWidth - t.digits) % 2^LongWidth ELSE t.digits,
       erange |-> erange, rest |-> t.rest]

\* getopt_long with a leading '+': the option at place i of line, stopping at
\* the first word that is none.
getopt_long(line, i) ==
  IF i > Len(line) \/ Text[line[i]].opt = "none" THEN [opt |-> "end", arg |-> Unset, next |-> i]
  ELSE IF Text[line[i]].opt \in WithValue
    THEN IF i = Len(line) THEN [opt |-> "?", arg |-> Unset, next |-> i + 1]
         ELSE [opt |-> Text[line[i]].opt, arg |-> line[i + 1], next |-> i + 2]
    ELSE [opt |-> Text[line[i]].opt, arg |-> Unset, next |-> i + 1]

-----------------------------------------------------------------------------
(* The options.  A definition whose name ends in an underscore and a fault  *)
(* is a faulty form of the one after it; no behaviour uses it.              *)

\* valid_args of each sub-command's handler.
ValidArgs(cmd) ==
  CASE cmd = "load"   -> {"g", "a", "f", "r", "d", "v", "c"}
    [] cmd = "settod" -> {"g", "t", "d", "v"}
    [] OTHER          -> {"g", "d", "v"}

\* A path that names a regular file one can read; its length is checked
\* against the size of the buffer, terminator not counted.
PathAccepted(w) ==
  /\ Text[w].len \in 1..MAX_PATH_LEN
  /\ Text[w].file = "regular"

Spills(w) == Text[w].len = MAX_PATH_LEN

\* What a reader of the buffer finds: a path whose terminator was overwritten
\* by the flag behind it goes on with the bytes of that flag.
Garbled == "garbled"
PathRead(w, flag) == IF w # Unset /\ Spills(w) /\ flag THEN Garbled ELSE w

\* A name that does not fit is ignored, and what was there before stays.
container_name_from_args(g, w) ==
  IF Text[w].len \in 1..(MAX_CONTAINER_NAME_LEN - 1)
    THEN [g EXCEPT !.container_name = w, !.container_name_flag = CONTAINER_USR]
    ELSE g

image_file_from_args(g, w) ==
  [g EXCEPT !.image_file = w, !.image_file_flag = TRUE,
            !.args_file_flag = @ /\ ~Spills(w)]

args_file_from_args(g, w) ==
  [g EXCEPT !.args_file = w, !.args_file_flag = TRUE,
            !.tpc_flag = @ /\ ~Spills(w)]

thread_per_core_from_args(g, w) ==
  LET tpc == IF atoi(w) \in 1..MAX_THREAD_PER_CORE THEN atoi(w) ELSE DEFAULT_THREAD_PER_CORE
  IN  [g EXCEPT !.tpc = tpc, !.tpc_flag = TRUE]

\* A time that is refused is left out; the result is not looked at.
timeofday_from_args(g, w) ==
  LET t == strtoul(w)
      refused == \/ t.erange /\ t.val \in {LONG_MAX, LONG_MAX + 1}
                 \/ t.erange /\ t.val = 0
                 \/ t.rest
  IN  IF refused THEN g ELSE [g EXCEPT !.tod_val = t.val, !.tod_flag = TRUE]

debug_flag_from_args(g) == [g EXCEPT !.debug_flag = TRUE, !.verbose_flag = TRUE]

\* One case of the switch in generic_cmd_hndlr.
Applied(g, opt, w) ==
  CASE opt = "g" -> container_name_from_args(g, w)
    [] opt = "f" -> image_file_from_args(g, w)
    [] opt = "a" -> args_file_from_args(g, w)
    [] opt = "r" -> [g EXCEPT !.reset_flag = TRUE]
    [] opt = "t" -> timeofday_from_args(g, w)
    [] opt = "d" -> debug_flag_from_args(g)
    [] opt = "v" -> [g EXCEPT !.verbose_flag = TRUE]
    [] opt = "c" -> thread_per_core_from_args(g, w)

\* Options whose value can make the command fail.
Refused(opt, w) == opt \in {"f", "a"} /\ ~PathAccepted(w)

\* The mandatory options of each handler.
Complete_AnyTime(cmd, g) ==
  /\ g.container_name_flag # 0
  /\ cmd = "load" => g.image_file_flag
Complete(cmd, g) ==
  /\ g.container_name_flag # 0
  /\ cmd = "load" => g.image_file_flag
  /\ cmd = "settod" => g.tod_flag

\* get_container_from_env; the length is checked, an empty name is not refused.
FromEnvironment_NoDefault(g) ==
  IF dprc # Unset /\ Text[dprc].len < MAX_CONTAINER_NAME_LEN
    THEN [g EXCEPT !.container_name = dprc, !.container_name_flag = CONTAINER_USR]
    ELSE [g EXCEPT !.container_name_flag = CONTAINER_DEF]
FromEnvironment(g) ==
  IF dprc # Unset /\ Text[dprc].len < MAX_CONTAINER_NAME_LEN
    THEN [g EXCEPT !.container_name = dprc, !.container_name_flag = CONTAINER_ENV]
    ELSE [g EXCEPT !.container_name = DEFAULT_DPRC_NAME, !.container_name_flag = CONTAINER_DEF]

-----------------------------------------------------------------------------
(* parse_command_line_args                                                  *)

Finish(result) == pc' = "done" /\ ret' = result

\* The process is started with a command line.
Exec ==
  /\ pc = "off"
  /\ argv' \in CommandLines /\ dprc' \in Environments
  /\ gvars' = Zero /\ sub_cmd_name' = Unset /\ optind' = 1
  /\ pc' = "help" /\ ret' = "SUCCESS"

\* No sub-command, or check_for_help_cmd finds a word that asks for help
\* anywhere: the usage is printed and the command fails.
CheckHelp ==
  /\ pc = "help"
  /\ IF argv = <<>> \/ \E i \in DOMAIN argv : Text[argv[i]].help
       THEN Finish("FAILURE")
       ELSE pc' = "command" /\ UNCHANGED ret
  /\ UNCHANGED <<argv, dprc, gvars, sub_cmd_name, optind>>

\* find_subcmd_hndlr, then get_container_from_env.
FindSubcmd ==
  /\ pc = "command"
  /\ IF argv[1] \in Commands
       THEN /\ sub_cmd_name' = argv[1]
            /\ gvars' = FromEnvironment(gvars)
            /\ pc' = IF argv[1] = "help" THEN "usage" ELSE "options"
            /\ UNCHANGED ret
       ELSE Finish("FAILURE") /\ UNCHANGED <<sub_cmd_name, gvars>>
  /\ UNCHANGED <<argv, dprc, optind>>

\* help_cmd_hndlr
Usage ==
  /\ pc = "usage"
  /\ Finish("FAILURE")
  /\ UNCHANGED <<argv, dprc, gvars, sub_cmd_name, optind>>

\* A round of the loop in generic_cmd_hndlr.
Option ==
  /\ pc = "options"
  /\ LET o == getopt_long(argv, optind + 1)
     IN  IF o.opt = "end"
           THEN pc' = "mandatory" /\ optind' = 1 /\ UNCHANGED <<gvars, ret>>
         ELSE IF o.opt \in ValidArgs(sub_cmd_name) /\ ~Refused(o.opt, o.arg)
           THEN gvars' = Applied(gvars, o.opt, o.arg) /\ optind' = o.next - 1 /\ UNCHANGED <<pc, ret>>
         ELSE Finish("FAILURE") /\ optind' = o.next - 1 /\ UNCHANGED gvars
  /\ UNCHANGED <<argv, dprc, sub_cmd_name>>

\* The rest of the handler: mandatory options and the flags the sub-command
\* sets by itself.
Mandatory ==
  /\ pc = "mandatory"
  /\ IF Complete(sub_cmd_name, gvars)
       THEN /\ gvars' = [gvars EXCEPT !.reset_flag = @ \/ sub_cmd_name = "reset",
                                      !.status_flag = @ \/ sub_cmd_name = "status"]
            /\ Finish("SUCCESS")
       ELSE Finish("FAILURE") /\ UNCHANGED gvars
  /\ UNCHANGED <<argv, dprc, sub_cmd_name, optind>>

ParseStep == CheckHelp \/ FindSubcmd \/ Usage \/ Option \/ Mandatory

\* The process ends, by itself or by a signal.
End ==
  /\ pc # "off"
  /\ argv' = <<>> /\ dprc' = Unset
  /\ gvars' = Zero /\ sub_cmd_name' = Unset /\ optind' = 1
  /\ pc' = "off" /\ ret' = "SUCCESS"

Next == Exec \/ ParseStep \/ End

Spec == Init /\ [][Next]_vars

-----------------------------------------------------------------------------
(* What a command line means, told from its words and not from the order in *)
(* which they are read                                                      *)

Word(i) == Text[argv[i]]

\* How many words that spell an option with a value stand right before i.
RunBefore(i) == i - 1 - Max({1} \cup {k \in 2..(i - 1) : Word(k).opt \notin WithValue})

\* An option may start where that number is even, each second of them being the
\* value of the one before, unless a word that is no option came earlier.
Aligned(i) == RunBefore(i) % 2 = 0
Starts ==
  {i \in 2..(Len(argv) + 1) :
     Aligned(i) /\ \A k \in 2..(i - 1) : Aligned(k) => Word(k).opt \in Letters}
OptionPlaces == {i \in Starts \cap DOMAIN argv : Word(i).opt # "none"}

Places(o) == {i \in OptionPlaces : Word(i).opt = o /\ (o \in WithValue => i < Len(argv))}
Given(o)  == Places(o) # {}
ValueAt(i) == argv[i + 1]

\* The value of the last o for which fits holds, or else.
LastValue(o, fits(_), else) ==
  LET fitting == {i \in Places(o) : fits(ValueAt(i))}
  IN  IF fitting = {} THEN else ELSE ValueAt(Max(fitting))

Usable(w)       == TRUE
NameFits(w)     == Text[w].len \in 1..(MAX_CONTAINER_NAME_LEN - 1)
WholeNumber(w)  == ~Text[w].rest
OrdinaryTime(w) == ~Text[w].neg /\ Text[w].digits <= ULONG_MAX
OrdinaryCount(w) == Text[w].digits <= INT_MAX
LongPathGiven   == \E o \in {"f", "a"} : \E i \in Places(o) : Spills(ValueAt(i))

\* The usage text (aiop_cmd.c:690-728) gives -f, -a, -r and -c to load, -t to
\* settod and the rest to all; unit_test.sh:145 and 150 give -r to reset too.
Takes(cmd, o) ==
  CASE o \in {"f", "a", "c"} -> cmd = "load"
    [] o = "r" -> cmd \in {"load", "reset"}
    [] o = "t" -> cmd = "settod"
    [] OTHER -> o \in Letters

WordsMeant ==
  /\ argv # <<>> /\ argv[1] \in Commands \ {"help"}
  /\ \A i \in DOMAIN argv : ~Word(i).help
  /\ \A i \in OptionPlaces :
       /\ Takes(argv[1], Word(i).opt)
       /\ Word(i).opt \in WithValue => i < Len(argv)
       /\ Word(i).opt \in {"f", "a"} => PathAccepted(ValueAt(i))
  /\ argv[1] = "load" => Given("f")
  /\ argv[1] = "settod" => Given("t")

\* A time is a number, not "too long a value, or a NAN" (aiop_cmd.c:427) nor one
\* below zero (unit_test.sh:181), and may be hexadecimal (unit_test.sh:182).
DecimalTime(w) == Text[w].len > 0 /\ WholeNumber(w) /\ OrdinaryTime(w)
MeantTime(w)   == DecimalTime(w) \/ Text[w].hex

MeantToWork ==
  WordsMeant /\ (argv[1] = "settod" => \E i \in Places("t") : MeantTime(ValueAt(i)))

\* The lines of which the parser makes something else than that: a reset with
\* -r, and a time that is hexadecimal, empty or out of its range.
Disputed ==
  \/ Given("r") /\ argv[1] = "reset"
  \/ \E i \in Places("t") :
       /\ argv[1] = "settod"
       /\ Text[ValueAt(i)].hex \/ (WholeNumber(ValueAt(i)) /\ ~DecimalTime(ValueAt(i)))

-----------------------------------------------------------------------------
(* Properties                                                               *)

\* Types; getopt never goes past the end of argv, and threads per core stays
\* in the range that fits its field.
TypeOK ==
  /\ argv \in Seq(Words) /\ dprc \in Words \cup {Unset}
  /\ sub_cmd_name \in Commands \cup {Unset}
  /\ optind \in 1..(Len(argv) + 1)
  /\ pc \in {"off", "help", "command", "usage", "options", "mandatory", "done"}
  /\ ret \in {"SUCCESS", "FAILURE"}
  /\ gvars.image_file \in Words \cup {Unset} /\ gvars.args_file \in Words \cup {Unset}
  /\ gvars.container_name \in Words \cup {Unset, DEFAULT_DPRC_NAME}
  /\ gvars.container_name_flag \in 0..CONTAINER_USR
  /\ gvars.tpc \in 0..MAX_THREAD_PER_CORE /\ gvars.tod_val \in 0..ULONG_MAX
  /\ \A f \in {"image_file_flag", "args_file_flag", "tpc_flag", "reset_flag", "tod_flag",
               "status_flag", "debug_flag", "verbose_flag"} : gvars[f] \in BOOLEAN

\* parse_command_line_args accepts only lines whose words may stand where they
\* do, and, the disputed ones apart, exactly those that the usage text and the
\* tests mean to work: an option that swallows the next one, a repeated one, a
\* value that is missing and a mandatory option whose value is left out included.
VerdictIsMeant ==
  pc = "done" =>
    /\ ret = "SUCCESS" => WordsMeant
    /\ ~Disputed => (ret = "SUCCESS" <=> MeantToWork)

\* What an accepted line leaves in the globals is what its options say, each
\* by its last usable occurrence: the container of -g over that of DPRC over
\* the default; the files; the threads, if in range (a number that no int holds
\* may wrap to one that is); the time; the flags.
SettingsAreMeant ==
  /\ TypeOK
  /\ pc = "done" /\ ret = "SUCCESS" =>
       /\ sub_cmd_name = argv[1]
       /\ gvars.container_name =
            LastValue("g", NameFits,
                      IF dprc # Unset /\ Text[dprc].len < MAX_CONTAINER_NAME_LEN
                        THEN dprc ELSE DEFAULT_DPRC_NAME)
       /\ gvars.image_file = LastValue("f", Usable, Unset)
       /\ gvars.args_file = LastValue("a", Usable, Unset)
       /\ LET t == LastValue("t", WholeNumber, Unset)
          IN  t # Unset /\ OrdinaryTime(t) => gvars.tod_val = Text[t].digits
       /\ gvars.reset_flag = (argv[1] = "reset" \/ Given("r"))
       /\ gvars.debug_flag = Given("d")
       /\ gvars.verbose_flag = (Given("d") \/ Given("v"))
       /\ ~LongPathGiven => gvars.tpc_flag = Given("c")
       /\ LET c == LastValue("c", Usable, Unset)
          IN  IF c = Unset THEN gvars.tpc = DEFAULT_THREAD_PER_CORE
              ELSE OrdinaryCount(c) =>
                     gvars.tpc = IF Text[c].neg \/ Text[c].digits > MAX_THREAD_PER_CORE
                                   THEN DEFAULT_THREAD_PER_CORE ELSE Text[c].digits

-----------------------------------------------------------------------------
(* What the sources say and the parser does not do                          *)

\* aiop_cmd.h:70 "Maximum length for AIOP Image file, with path" is 256: a
\* path of that length reaches the library, and takes nothing with it.
OptionsKept ==
  pc = "done" /\ ret = "SUCCESS" =>
    /\ PathRead(gvars.image_file, gvars.args_file_flag) = LastValue("f", Usable, Unset)
    /\ PathRead(gvars.args_file, gvars.tpc_flag) = LastValue("a", Usable, Unset)
    /\ gvars.tpc_flag = Given("c")

\* unit_test.sh:180 and 181 have settod refuse a time that does not fit and one
\* below zero.
TimeRefused ==
  pc = "done" /\ sub_cmd_name = "settod" /\ ret = "SUCCESS" =>
    \E i \in Places("t") : MeantTime(ValueAt(i))

\* unit_test.sh:182 has settod accept a hexadecimal time.
HexTimeTaken ==
  pc = "done" /\ Len(argv) = 3 /\ argv[1] = "settod" /\ Word(2).opt = "t" /\ Word(3).hex =>
    ret = "SUCCESS"

\* unit_test.sh:145 and 150 have reset accept -r.
ResetTakesReset ==
  pc = "done" /\ Len(argv) = 2 /\ argv[1] = "reset" /\ Word(2).opt = "r" => ret = "SUCCESS"

\* The usage text, aiop_cmd.c:731-735: the environment and the default stand in
\* only "If not provided by '-g'".
UsersContainer ==
  pc = "done" /\ ret = "SUCCESS" /\ Given("g") => gvars.container_name_flag = CONTAINER_USR

\* aiop_cmd.h:78 "Valid values are 1, 2, 4, 8, 16."
ThreadsValid ==
  pc = "done" /\ ret = "SUCCESS" => gvars.tpc \in {DEFAULT_THREAD_PER_CORE, 1, 2, 4, 8, 16}

=============================================================================
