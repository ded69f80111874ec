----------------------------- MODULE MCAiopTool -----------------------------
(***************************************************************************)
(* AiopTool for TLC: a handful of command lines, each sub-command with what *)
(* main does differently for it, lines that are refused at the beginning,   *)
(* in the options and at the end, and paths as long as their buffer.        *)
(***************************************************************************)
EXTENDS AiopTool

CONSTANTS t1, t2

MCUnset    == "unset"
MCNotShown == [major |-> 0, minor |-> 0]
MCTokens   == {t1, t2}
MCSlVersion == [major |-> 2, minor |-> 1]

Flag(o) == [len |-> 2, help |-> FALSE, opt |-> o, file |-> "none",
            neg |-> FALSE, digits |-> 0, rest |-> TRUE, hex |-> FALSE]
Path(n) == [Flag("none") EXCEPT !.len = n, !.file = "regular"]
Number  == [Flag("none") EXCEPT !.digits = 4, !.rest = FALSE]

MCText ==
  [w \in {"help", "load", "reset", "status", "gettod", "settod",
          "-f", "-a", "-t", "-c", "-r", "-h", "img", "path256", "4"} |->
   CASE w = "-f" -> Flag("f") [] w = "-a" -> Flag("a") [] w = "-t" -> Flag("t")
     [] w = "-c" -> Flag("c") [] w = "-r" -> Flag("r")
     [] w = "-h" -> [Flag("?") EXCEPT !.help = TRUE]
     [] w = "img" -> Path(3) [] w = "path256" -> Path(256)
     [] w = "4" -> Number
     [] OTHER -> Flag("none")]
MCWords == DOMAIN MCText

MCCommandLines ==
  {<<>>, <<"img">>, <<"help">>, <<"reset">>, <<"reset", "-h">>, <<"reset", "-r">>,
   <<"status">>, <<"gettod">>, <<"settod", "-t", "4">>, <<"settod">>,
   <<"load">>, <<"load", "-f", "img">>, <<"load", "-f", "img", "-t", "4">>,
   <<"load", "-f", "img", "-r", "-a", "img">>,
   <<"load", "-a", "img", "-f", "path256">>, <<"load", "-f", "path256", "-a", "img">>,
   <<"load", "-f", "img", "-a", "path256", "-c", "4">>}
MCEnvironments == {Unset}

=============================================================================
