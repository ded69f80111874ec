----------------------------- MODULE MCAiopCmd ------------------------------
(***************************************************************************)
(* AiopCmd for TLC: after each sub-command, every sequence of two options   *)
(* out of all, and every sequence of three out of those that interact; 6    *)
(* bits stand for an int and 8 for a long, so that the numbers of a command *)
(* line pass both.                                                         *)
(***************************************************************************)
EXTENDS AiopCmd, SequencesExt

MCUnset == "unset"

Flag(o)  == [len |-> 2, help |-> FALSE, opt |-> o, file |-> "none",
             neg |-> FALSE, digits |-> 0, rest |-> TRUE, hex |-> FALSE]
Name(n)  == [Flag("none") EXCEPT !.len = n]
Path(n, kind) == [Name(n) EXCEPT !.file = kind]
Num(n)   == [Name(2) EXCEPT !.digits = n, !.rest = FALSE]

MCText ==
  [w \in Commands \cup {"-g", "-f", "-a", "-t", "-c", "-r", "-d", "-v", "-x", "-h", "--", "",
          "dprc.2", "dprc.3", "dprc.long", "img", "dir", "none", "path256", "path257",
          "3", "4", "0", "16", "17", "68", "200", "300", "-7", "10A", "0x10"} |->
   CASE w \in {"-g", "-f", "-a", "-t", "-c", "-r", "-d", "-v"} ->
          Flag(CHOOSE o \in Letters : "-" \o o = w)
     [] w = "-x" -> Flag("?")
     [] w = "-h" -> [Flag("?") EXCEPT !.help = TRUE]
     [] w \in Commands \cup {"--", "none"} -> Name(4)
     [] w = "" -> [Num(0) EXCEPT !.len = 0]
     [] w \in {"dprc.2", "dprc.3"} -> Name(6)
     [] w = "dprc.long" -> Name(MAX_CONTAINER_NAME_LEN)
     [] w = "img" -> Path(3, "regular")
     [] w = "dir" -> Path(3, "special")
     [] w = "path256" -> Path(MAX_PATH_LEN, "regular")
     [] w = "path257" -> Path(MAX_PATH_LEN + 1, "regular")
     [] w = "3"  -> Num(3)  [] w = "4"  -> Num(4)  [] w = "0" -> Num(0)
     [] w = "16" -> Num(16) [] w = "17" -> Num(17) [] w = "68" -> Num(68)
     [] w = "200" -> Num(200) [] w = "300" -> Num(300)
     [] w = "-7"  -> [Flag("?") EXCEPT !.neg = TRUE, !.digits = 7, !.rest = FALSE]
     [] w = "10A" -> [Num(10) EXCEPT !.rest = TRUE]
     [] w = "0x10" -> [Num(0) EXCEPT !.rest = TRUE, !.hex = TRUE]]
MCWords == DOMAIN MCText

Some ==
  {<<"-g", "dprc.2">>, <<"-g", "dprc.long">>, <<"-f", "img">>, <<"-f", "path256">>,
   <<"-a", "img">>, <<"-a", "path256">>, <<"-c", "4">>, <<"-c", "17">>,
   <<"-t", "200">>, <<"-t", "10A">>, <<"-r">>, <<"-g">>}
All == Some \cup
  {<<"-g", "">>, <<"-f", "dir">>, <<"-f", "none">>, <<"-f", "path257">>, <<"-f", "">>,
   <<"-a", "dir">>, <<"-c", "3">>, <<"-c", "0">>, <<"-c", "16">>, <<"-c", "68">>, <<"-c", "-7">>,
   <<"-t", "300">>, <<"-t", "-7">>, <<"-t", "">>, <<"-t", "0x10">>, <<"-d">>, <<"-v">>, <<"-x">>, <<"-h">>,
   <<"img">>, <<"--">>, <<"-t">>}

Lines(options, n) == {FlattenSeq(s) : s \in [1..n -> options]}
MCCommandLines ==
  {<<>>} \cup {<<c>> \o l : c \in Commands \cup {"img"},
                           l \in UNION {Lines(All, 0), Lines(All, 1), Lines(All, 2), Lines(Some, 3)}}
MCEnvironments == {Unset, "dprc.3", "dprc.long", ""}

=============================================================================
