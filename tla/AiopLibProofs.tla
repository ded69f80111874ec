---------------------------- MODULE AiopLibProofs ----------------------------
(***************************************************************************)
(* Proofs about AiopLib, for every finite set of session tokens.  The       *)
(* invariant comes in layers: where a call can be and how many commands it  *)
(* sent (Place), the session it holds (Session), the files and mappings of  *)
(* aiopt_load (Buffers), and what it did to the tile (Course).              *)
(***************************************************************************)
EXTENDS AiopLib, SequenceTheorems, TLAPS

InInit  == {"vfio", "devices", "portal"}
InLoad  == {"open_image", "open_args", "map_image", "map_args", "dma_image",
            "dma_args", "unmap_args", "unmap_image", "out"}
ToMc    == {"alloc", "open"} \cup InSession
NoCall  == {"off", "idle"}

\* What was called, and where it can be.
Control ==
  /\ pc \in NoCall \cup {"return"} \cup InInit \cup InLoad \cup ToMc
  /\ op \in Ops /\ args \in ArgsOf(op)
  /\ pc \in InInit => op = "init"
  /\ pc \in InLoad => op = "load"
  /\ pc \in ToMc => op # "deinit"
  /\ pc \in {"open_args", "map_args", "dma_args"} => args.afile
  /\ pc \in {"load", "run"} => op = "load"
  /\ pc = "reset" => op = "reset" \/ (op = "load" /\ args.reset)
  /\ pc = "get_sl_version" => op \in {"init", "status"}
  /\ pc = "get_state" => op = "status"
  /\ pc = "get_time_of_day" => op = "gettod"
  /\ pc = "set_time_of_day" => op = "settod"

\* How many commands were sent when the call is at its next one.
Sent ==
  CASE pc = "get_state" -> {1}
    [] pc = "load" -> 0..1
    [] pc = "run" -> 0..2
    [] pc = "close" -> 0..3
    [] pc \in {"unmap_args", "unmap_image", "out", "return"} -> 0..4
    [] OTHER -> {0}

Tracing ==
  trace \in Seq((Body \cup {"close"}) \X BOOLEAN) /\ Len(trace) \in Sent

\* The rest of the types; no session goes by the token of none.
Data ==
  /\ sessions \subseteq Tokens /\ leaked \subseteq Tokens /\ tile \in Tiles
  /\ obj \in {"none", "building", "ready"} /\ token \in Tokens \cup {NoToken}
  /\ pc \in InSession => token \in Tokens
  /\ ret \in Results /\ dpaiop \in BOOLEAN
  /\ args_fd \in {"uninitialised", "failed", "open"}
  /\ fds \subseteq Files /\ mm \subseteq Files /\ dma \subseteq Files /\ alien \in BOOLEAN

Place == Control /\ Tracing /\ Data

\* A struct fsl_mc_io lives from its allocation to the end of the session.
IoHeld == dpaiop <=> pc \in InSession \cup {"open"}

Session == SessionsAccounted /\ TokenIsLive /\ IoHeld

\* What aiopt_load needs in the reach of the device.
Needed == IF args.afile THEN Files ELSE {"image"}

\* The files aiopt_load has mapped in memory and for the device, by its place.
Buffers ==
  IF op = "load" /\ pc \in InLoad \cup ToMc
  THEN /\ pc \in {"open_image", "open_args", "map_image"} => mm = {}
       /\ pc = "map_args" => mm = {"image"}
       /\ pc \in ToMc \cup {"dma_image", "dma_args", "unmap_args", "unmap_image"} => mm = Needed
       /\ pc \in InLoad \ {"dma_args", "unmap_args", "unmap_image"} => dma = {}
       /\ pc \in {"dma_args", "unmap_image"} => dma = {"image"}
       /\ pc \in ToMc \cup {"unmap_args"} => dma = Needed
  ELSE fds = {} /\ mm = {} /\ dma = {}

\* What the call did to the tile so far, and tried in vain.
Changes == {"reset", "load", "run"}
Made    == {c \in Changes : Ok(c)}
Missed  == {c \in Changes : Failed(c)}

AfterMc == {"close", "unmap_args", "unmap_image", "out", "return"}

\* How far a call has come with the tile, by its place, and that its result
\* tells so from then on: a load that came to the tile went on to its last
\* command, or was refused the load.
Course ==
  /\ pc \notin {"load", "run"} \cup AfterMc => Made = {} /\ Missed = {}
  /\ pc = "load" => Made \cup Missed = IF args.reset THEN {"reset"} ELSE {}
  /\ pc = "run" => "load" \in Made /\ "run" \notin Made \cup Missed
  /\ pc \in AfterMc /\ op = "load" => (ret = "SUCCESS" <=> {"load", "run"} \subseteq Made)
  /\ pc \in AfterMc /\ op = "reset" => (ret = "SUCCESS" <=> "reset" \in Made)
  /\ pc \in AfterMc /\ op = "load" =>
       \/ Made = {} /\ Missed = {}
       \/ "load" \in Missed \ Made /\ "run" \notin Made \cup Missed
       \/ "load" \in Made /\ "run" \in Made \cup Missed

-----------------------------------------------------------------------------
(* Where a call can be                                                      *)

\* What the arguments of a call are made of.
LEMMA ArgsShape ==
  ASSUME NEW o \in Ops, NEW a \in ArgsOf(o)
  PROVE  /\ a.afile \in BOOLEAN /\ a.reset \in BOOLEAN /\ a.out \in BOOLEAN
         /\ a.afile \/ a.reset => o = "load"
         /\ ~a.out => o \in {"gettod", "status"}
<1>1. CASE o = "load"
  BY <1>1 DEF ArgsOf
<1>2. CASE o \in {"gettod", "status"}
  <2>1. a \in [afile : {FALSE}, reset : {FALSE}, out : BOOLEAN]
    BY <1>2 DEF ArgsOf
  <2>2. /\ a.afile \in BOOLEAN /\ a.reset \in BOOLEAN /\ a.out \in BOOLEAN
        /\ ~a.afile /\ ~a.reset
    BY <2>1
  <2>3. a.afile \/ a.reset => o = "load"
    BY <2>2
  <2>4. ~a.out => o \in {"gettod", "status"}
    BY <1>2
  <2>. QED
    BY <2>2, <2>3, <2>4
<1>3. CASE o \in Ops \ {"load", "gettod", "status"}
  <2>1. a = NoArgs
    BY <1>3 DEF ArgsOf
  <2>. QED
    BY <2>1 DEF NoArgs
<1>. QED
  BY <1>1, <1>2, <1>3

LEMMA NoArgsOfDeinit == NoArgs \in ArgsOf("deinit")
  BY DEF ArgsOf

\* The next command after one, and where a call goes from there.
LEMMA NextCommandIs ==
  ASSUME NEW o \in Ops, NEW c \in Body, NEW ok \in BOOLEAN
  PROVE  NextCommand(o, c, ok) =
           IF c = "get_sl_version" /\ o = "status" /\ ok THEN "get_state"
           ELSE IF c = "reset" /\ o = "load" THEN "load"
           ELSE IF c = "load" /\ ok THEN "run" ELSE "close"
  BY DEF NextCommand

LEMMA FirstCommandIs ==
  ASSUME NEW o \in Ops \ {"deinit"}, NEW a \in ArgsOf(o)
  PROVE  FirstCommand(o, a) =
           IF o \in {"init", "status"} THEN "get_sl_version"
           ELSE IF o = "gettod" THEN "get_time_of_day"
           ELSE IF o = "settod" THEN "set_time_of_day"
           ELSE IF o = "reset" \/ a.reset THEN "reset" ELSE "load"
  BY ArgsShape DEF FirstCommand, Ops

LEMMA ControlNext ==
  ASSUME Control, [Next]_vars
  PROVE  Control'
<1>. USE DEF Control, NoCall, InInit, InLoad, ToMc, InSession, Body
<1>1. CASE Start
  BY <1>1 DEF Start
<1>2. CASE Exit
  BY <1>2, NoArgsOfDeinit DEF Exit, Ops
<1>3. CASE Boot
  BY <1>3 DEF Boot, callVars
<1>4. ASSUME NEW o \in Ops, NEW a \in ArgsOf(o), Call(o, a)
      PROVE  Control'
  BY <1>4 DEF Call, Entry, Ops
<1>5. CASE SetupVfio
  BY <1>5 DEF SetupVfio, InitStep, Step
<1>6. CASE SetupDevice
  BY <1>6 DEF SetupDevice, InitStep, Step
<1>7. CASE SetupPortal
  BY <1>7 DEF SetupPortal, InitStep, Step
<1>8. CASE AllocIo
  BY <1>8 DEF AllocIo, Step, AfterSession
<1>9. CASE Open
  <2>1. CASE pc' = OpenFailed(op, args)
    BY <1>9, <2>1 DEF Open, OpenFailed, AfterSession
  <2>2. CASE pc' = FirstCommand(op, args)
    BY <1>9, <2>2, FirstCommandIs DEF Open, Ops
  <2>. QED
    BY <1>9, <2>1, <2>2 DEF Open
<1>10. CASE Close
  BY <1>10 DEF Close, AfterSession
<1>11. ASSUME NEW c \in Body, Command(c)
       PROVE  Control'
  <2>1. PICK ok \in BOOLEAN : pc' = NextCommand(op, c, ok)
    BY <1>11 DEF Command
  <2>2. pc = c /\ op' = op /\ args' = args
    BY <1>11 DEF Command
  <2>. QED
    BY <2>1, <2>2, NextCommandIs
<1>12. CASE OpenImage
  BY <1>12 DEF OpenImage, Step
<1>13. CASE OpenArgs
  BY <1>13 DEF OpenArgs, Step
<1>14. CASE MapImage
  BY <1>14 DEF MapImage, MapFile, Step
<1>15. CASE MapArgs
  BY <1>15 DEF MapArgs, MapFile, Step
<1>16. CASE DmaMapImage
  BY <1>16 DEF DmaMapImage, DmaMap, Step
<1>17. CASE DmaMapArgs
  BY <1>17 DEF DmaMapArgs, DmaMap, Step, ArgsMapFailed
<1>18. CASE DmaUnmapArgs
  BY <1>18 DEF DmaUnmapArgs, DmaUnmap
<1>19. CASE DmaUnmapImage
  BY <1>19 DEF DmaUnmapImage, DmaUnmap
<1>20. CASE LoadOut
  BY <1>20 DEF LoadOut
<1>21. CASE Return
  BY <1>21, NoArgsOfDeinit DEF Return, Ops
<1>22. CASE UNCHANGED vars
  BY <1>22 DEF vars, callVars
<1>. QED
  BY <1>1, <1>2, <1>3, <1>4, <1>5, <1>6, <1>7, <1>8, <1>9, <1>10, <1>11, <1>12, <1>13,
     <1>14, <1>15, <1>16, <1>17, <1>18, <1>19, <1>20, <1>21, <1>22 DEF Next, CallStep

LEMMA DataNext ==
  ASSUME Control, Data, [Next]_vars
  PROVE  Data'
<1>. USE DEF Data, mcVars, objVars, callVars, loadVars
<1>1. CASE Start
  BY <1>1 DEF Start, InSession, Body
<1>2. CASE Exit
  BY <1>2 DEF Exit, InSession, Body, Results
<1>3. CASE Boot
  BY <1>3 DEF Boot, Tiles
<1>4. ASSUME NEW o \in Ops, NEW a \in ArgsOf(o), Call(o, a)
      PROVE  Data'
  BY <1>4 DEF Call, Entry, InSession, Body, Results, Ops
<1>5. ASSUME NEW from \in InInit, NEW to \in {"devices", "portal", "alloc"}, InitStep(from, to)
      PROVE  Data'
  BY <1>5 DEF InitStep, Step, InSession, Body, Results, InInit
<1>6. CASE AllocIo
  BY <1>6 DEF AllocIo, Step, AfterSession, InSession, Body, Results
<1>7. CASE Open
  BY <1>7 DEF Open, OpenFailed, AfterSession, InSession, Body, Results
<1>8. CASE Close
  BY <1>8 DEF Close, CloseResult, AfterSession, InSession, Body, Results
<1>9. ASSUME NEW c \in Body, Command(c)
      PROVE  Data'
  <2>1. tile' \in Tiles
    BY <1>9 DEF Command, Effect, Tiles, Body
  <2>2. pc \in InSession
    BY <1>9 DEF Command, InSession
  <2>. QED
    BY <1>9, <2>1, <2>2 DEF Command, Results
<1>10. CASE OpenImage
  BY <1>10 DEF OpenImage, Step, InSession, Body, Results, Files
<1>11. CASE OpenArgs
  BY <1>11 DEF OpenArgs, Step, InSession, Body, Results, Files
<1>12. ASSUME NEW from, NEW to \in {"map_args", "dma_image"}, NEW f \in Files,
              MapFile(from, to, f)
       PROVE  Data'
  BY <1>12 DEF MapFile, Step, InSession, Body, Results
<1>13. ASSUME NEW from, NEW to \in {"dma_args", "alloc"}, NEW bad \in {"out", "unmap_image"},
              NEW f \in Files, DmaMap(from, to, bad, f)
       PROVE  Data'
  BY <1>13 DEF DmaMap, Step, InSession, Body, Results
<1>14. ASSUME NEW from, NEW to \in {"unmap_image", "out"}, NEW f \in Files,
              DmaUnmap(from, to, f)
       PROVE  Data'
  BY <1>14 DEF DmaUnmap, InSession, Body
<1>15. CASE LoadOut
  BY <1>15 DEF LoadOut, InSession, Body
<1>16. CASE Return
  BY <1>16 DEF Return, InSession, Body, Results
<1>17. CASE UNCHANGED vars
  BY <1>17 DEF vars
<1>18. (SetupVfio \/ SetupDevice \/ SetupPortal) => Data'
  BY <1>5 DEF SetupVfio, SetupDevice, SetupPortal, InInit
<1>19. (MapImage \/ MapArgs) => Data'
  BY <1>12 DEF MapImage, MapArgs, Files
<1>20. (DmaMapImage \/ DmaMapArgs) => Data'
  BY <1>13 DEF DmaMapImage, DmaMapArgs, Files, ArgsMapFailed
<1>21. (DmaUnmapArgs \/ DmaUnmapImage) => Data'
  BY <1>14 DEF DmaUnmapArgs, DmaUnmapImage, Files
<1>. QED
  BY <1>1, <1>2, <1>3, <1>4, <1>6, <1>7, <1>8, <1>9, <1>10, <1>11, <1>15, <1>16, <1>17,
     <1>18, <1>19, <1>20, <1>21 DEF Next, CallStep

\* The commands a call sends, and where it is when it has sent them.
LEMMA TracingNext ==
  ASSUME Control, Tracing, [Next]_vars
  PROVE  Tracing'
<1>. DEFINE Entries == (Body \cup {"close"}) \X BOOLEAN
<1>1. ASSUME NEW c \in Body \cup {"close"}, NEW ok \in BOOLEAN, trace' = Append(trace, <<c, ok>>)
      PROVE  trace' \in Seq(Entries) /\ Len(trace') = Len(trace) + 1
  <2>1. <<c, ok>> \in Entries
    OBVIOUS
  <2>. HIDE DEF Entries
  <2>. QED
    BY <1>1, <2>1 DEF Tracing, Entries
<1>2. ASSUME trace' = <<>> PROVE trace' \in Seq(Entries) /\ Len(trace') = 0
  BY <1>2
<1>3. trace' = trace => trace' \in Seq(Entries) /\ Len(trace') = Len(trace)
  BY DEF Tracing
<1>4. trace \in Seq(Entries) /\ Len(trace) \in Nat /\ Len(trace) \in Sent
  BY DEF Tracing
<1>. HIDE DEF Entries
<1>. DEFINE L == Len(trace)
            LL == Len(trace')
<1>5. CASE Exit \/ Return
  BY <1>2, <1>5 DEF Exit, Return, Tracing, Sent, Entries
<1>6. ASSUME NEW c \in Body, Command(c)
      PROVE  Tracing'
  <2>1. PICK ok \in BOOLEAN : pc' = NextCommand(op, c, ok) /\ trace' = Append(trace, <<c, ok>>)
    BY <1>6 DEF Command
  <2>2. trace' \in Seq(Entries) /\ Len(trace') = Len(trace) + 1
    BY <1>1, <2>1
  <2>3. Len(trace') \in Sent'
    BY <1>4, <1>6, <2>1, <2>2, NextCommandIs DEF Command, Sent, Body, Control
  <2>. QED
    BY <2>2, <2>3 DEF Tracing, Entries
<1>7. CASE Close
  <2>1. PICK ok \in BOOLEAN : trace' = Append(trace, <<"close", ok>>)
    BY <1>7 DEF Close
  <2>2. trace' \in Seq(Entries) /\ Len(trace') = Len(trace) + 1
    BY <1>1, <2>1
  <2>3. pc = "close" /\ pc' \in {"unmap_args", "return"}
    BY <1>7 DEF Close, AfterSession
  <2>4. Len(trace) \in 0..3
    BY <1>4, <2>3 DEF Sent
  <2>5. Len(trace') \in 0..4
    <3>1. \A x \in 0..3 : x + 1 \in 0..4
      OBVIOUS
    <3>. QED
      BY <2>2, <2>4, <3>1, Zenon
  <2>6. Sent' = 0..4
    BY <2>3 DEF Sent
  <2>. QED
    BY <2>2, <2>5, <2>6 DEF Tracing, Entries
<1>8. ASSUME trace' = trace, Len(trace) \in Sent'
      PROVE  Tracing'
  BY <1>3, <1>8 DEF Tracing, Entries
<1>9. CASE Start \/ Boot
  BY <1>4, <1>8, <1>9 DEF Start, Boot, callVars, Sent
<1>10. ASSUME NEW o \in Ops, NEW a \in ArgsOf(o), Call(o, a)
      PROVE  Tracing'
  BY <1>4, <1>8, <1>10 DEF Call, Entry, Sent
<1>11. CASE SetupVfio \/ SetupDevice \/ SetupPortal
  BY <1>4, <1>8, <1>11 DEF SetupVfio, SetupDevice, SetupPortal, InitStep, Step, Sent
<1>12. CASE AllocIo
  BY <1>4, <1>8, <1>12 DEF AllocIo, Step, AfterSession, Sent
<1>13. CASE Open
  <2>1. CASE pc' = OpenFailed(op, args)
    BY <1>4, <1>8, <1>13, <2>1 DEF Open, OpenFailed, AfterSession, Sent
  <2>2. CASE pc' = FirstCommand(op, args)
    <3>1. Len(trace) = 0 /\ trace' = trace
      BY <1>4, <1>13 DEF Open, Sent
    <3>2. pc' \in {"get_sl_version", "get_time_of_day", "set_time_of_day", "reset", "load"}
      BY <1>13, <2>2, FirstCommandIs DEF Control, Open, ToMc, InSession
    <3>. QED
      BY <1>8, <3>1, <3>2 DEF Sent
  <2>. QED
    BY <1>13, <2>1, <2>2 DEF Open
<1>14. CASE OpenImage \/ OpenArgs \/ MapImage \/ MapArgs
  BY <1>4, <1>8, <1>14 DEF OpenImage, OpenArgs, MapImage, MapArgs, MapFile, Step, Sent
<1>15. CASE DmaMapImage \/ DmaMapArgs
  BY <1>4, <1>8, <1>15 DEF DmaMapImage, DmaMapArgs, DmaMap, ArgsMapFailed, Step, Sent
<1>16. CASE DmaUnmapArgs \/ DmaUnmapImage
  BY <1>4, <1>8, <1>16 DEF DmaUnmapArgs, DmaUnmapImage, DmaUnmap, Sent
<1>17. CASE LoadOut
  BY <1>4, <1>8, <1>17 DEF LoadOut, Sent
<1>18. CASE UNCHANGED vars
  BY <1>4, <1>8, <1>18 DEF vars, callVars, Sent
<1>. QED
  BY <1>5, <1>6, <1>7, <1>9, <1>10, <1>11, <1>12, <1>13, <1>14, <1>15, <1>16, <1>17, <1>18
     DEF Next, CallStep

LEMMA InitPlace == Init => Place
<1>1. Init => Control
  BY NoArgsOfDeinit DEF Init, Control, NoCall, InInit, InLoad, ToMc, InSession, Body, Ops
<1>2. Init => Data
  BY DEF Init, Data, InSession, Body, Results
<1>3. Init => Tracing
  BY DEF Init, Tracing, Sent
<1>. QED
  BY <1>1, <1>2, <1>3 DEF Place

LEMMA PlaceNext == Place /\ [Next]_vars => Place'
  BY ControlNext, DataNext, TracingNext DEF Place

LEMMA PlaceTypes == Place => TypeOK
<1>. SUFFICES ASSUME Place PROVE TypeOK
  OBVIOUS
<1>1. Len(trace) \in 0..4
  BY DEF Place, Tracing, Sent
<1>. QED
  <2>1. pc \in {"off", "idle", "return", "vfio", "devices", "portal", "alloc", "open",
               "open_image", "open_args", "map_image", "map_args", "dma_image",
               "dma_args", "unmap_args", "unmap_image", "out"} \cup InSession
    BY DEF Place, Control, NoCall, InInit, InLoad, ToMc
  <2>2. Len(trace) <= 4
    <3>. DEFINE n == Len(trace)
    <3>1. n \in 0..4
      BY <1>1
    <3>. HIDE DEF n
    <3>2. n <= 4
      BY <3>1
    <3>. QED
      BY <3>2 DEF n
  <2>. QED
    BY <2>1, <2>2 DEF Place, Control, Tracing, Data, TypeOK

LEMMA InPlace == Spec => []Place
  BY InitPlace, PlaceNext, PTL DEF Spec

\* A call is always where its operation and arguments can bring it, and sends
\* at most reset, load, run and the close of its session.
THEOREM Typing == Spec => []TypeOK
  BY InPlace, PlaceTypes, PTL

-----------------------------------------------------------------------------
(* The session                                                              *)

\* A step of the call that sends nothing, from one place outside its session
\* to another, without a struct fsl_mc_io in either.
LEMMA SessionAside ==
  ASSUME Session, pc \notin ToMc \ {"alloc"}, pc' \notin ToMc \ {"alloc"},
         UNCHANGED <<sessions, leaked, token, dpaiop>>
  PROVE  Session'
  BY DEF Session, SessionsAccounted, TokenIsLive, IoHeld, ToMc, InSession, Body

LEMMA SessionNext ==
  ASSUME Place, Session, [Next]_vars
  PROVE  Session'
<1>. USE DEF mcVars, objVars, callVars, loadVars, InSession, Body
<1>1. CASE Start
  BY <1>1, SessionAside DEF Start, ToMc
<1>2. CASE Exit
  BY <1>2 DEF Exit, Session, SessionsAccounted, TokenIsLive, IoHeld
<1>3. CASE Boot
  BY <1>3 DEF Boot, Session, SessionsAccounted, TokenIsLive, IoHeld
<1>4. ASSUME NEW o \in Ops, NEW a \in ArgsOf(o), Call(o, a)
      PROVE  Session'
  BY <1>4, SessionAside DEF Call, Entry, ToMc, Ops
<1>5. CASE SetupVfio \/ SetupDevice \/ SetupPortal
  BY <1>5, SessionAside DEF SetupVfio, SetupDevice, SetupPortal, InitStep, Step, ToMc
<1>6. CASE AllocIo
  BY <1>6 DEF AllocIo, Step, AfterSession, Session, SessionsAccounted, TokenIsLive, IoHeld
<1>7. CASE Open
  <2>1. ASSUME NEW t \in Tokens \ sessions, sessions' = sessions \cup {t}, token' = t,
               pc' = FirstCommand(op, args), dpaiop' = dpaiop
        PROVE  Session'
    <3>1. pc' \in InSession
      BY <1>7, <2>1, FirstCommandIs DEF Open, Place, Control, ToMc
    <3>2. leaked' = leaked /\ sessions = leaked /\ dpaiop
      BY <1>7 DEF Open, Session, SessionsAccounted, IoHeld
    <3>. QED
      BY <2>1, <3>1, <3>2 DEF Session, SessionsAccounted, TokenIsLive, IoHeld
  <2>2. ASSUME pc' = OpenFailed(op, args), dpaiop' = FALSE, UNCHANGED <<sessions, token>>
        PROVE  Session'
    BY <1>7, <2>2 DEF Open, OpenFailed, AfterSession, Session, SessionsAccounted,
                      TokenIsLive, IoHeld
  <2>. QED
    BY <1>7, <2>1, <2>2 DEF Open
<1>8. CASE Close
  BY <1>8 DEF Close, AfterSession, Session, SessionsAccounted, TokenIsLive, IoHeld
<1>9. ASSUME NEW c \in Body, Command(c)
      PROVE  Session'
  <2>1. pc \in InSession /\ pc' \in InSession
    BY <1>9, NextCommandIs DEF Command, Place, Control
  <2>2. UNCHANGED <<sessions, leaked, token, dpaiop>>
    BY <1>9 DEF Command
  <2>. HIDE DEF InSession, Body
  <2>. QED
    BY <2>1, <2>2 DEF Session, SessionsAccounted, TokenIsLive, IoHeld
<1>10. CASE OpenImage \/ OpenArgs \/ MapImage \/ MapArgs
  BY <1>10, SessionAside DEF OpenImage, OpenArgs, MapImage, MapArgs, MapFile, Step, ToMc
<1>11. CASE DmaMapImage \/ DmaMapArgs
  BY <1>11, SessionAside DEF DmaMapImage, DmaMapArgs, DmaMap, ArgsMapFailed, Step, ToMc
<1>12. CASE DmaUnmapArgs \/ DmaUnmapImage \/ LoadOut
  BY <1>12, SessionAside DEF DmaUnmapArgs, DmaUnmapImage, DmaUnmap, LoadOut, ToMc
<1>13. CASE Return
  BY <1>13, SessionAside DEF Return, ToMc
<1>14. CASE UNCHANGED vars
  BY <1>14 DEF vars, Session, SessionsAccounted, TokenIsLive, IoHeld
<1>. QED
  BY <1>1, <1>2, <1>3, <1>4, <1>5, <1>6, <1>7, <1>8, <1>9, <1>10, <1>11, <1>12, <1>13, <1>14
     DEF Next, CallStep

LEMMA InSessions == Spec => [](Place /\ Session)
<1>1. Init => Session
  BY DEF Init, Session, SessionsAccounted, TokenIsLive, IoHeld, InSession, Body
<1>2. Place /\ Session /\ [Next]_vars => Session'
  BY SessionNext
<1>. QED
  BY <1>1, <1>2, InPlace, PTL DEF Spec

\* A session that is open belongs to the call in progress, or was lost in a
\* close that failed or with its process.
THEOREM Accounted == Spec => []SessionsAccounted
<1>1. Session => SessionsAccounted
  BY DEF Session
<1>. QED
  BY <1>1, InSessions, PTL

\* Every command goes out with the token of the session that is open.
THEOREM Live == Spec => []TokenIsLive
<1>1. Session => TokenIsLive
  BY DEF Session
<1>. QED
  BY <1>1, InSessions, PTL

-----------------------------------------------------------------------------
(* Files and mappings                                                       *)

\* A step that leaves files and mappings alone, outside aiopt_load.
LEMMA BuffersAside ==
  ASSUME Buffers, UNCHANGED <<fds, mm, dma>>,
         ~(op = "load" /\ pc \in InLoad \cup ToMc),
         ~(op' = "load" /\ pc' \in InLoad \cup ToMc)
  PROVE  Buffers'
  BY DEF Buffers

\* A step of aiopt_load that leaves them alone, from its dealings with the MC
\* to what follows them.
LEMMA BuffersTalk ==
  ASSUME Buffers, UNCHANGED <<fds, mm, dma, op, args>>,
         op = "load", pc \in ToMc, pc' \in ToMc \cup {"unmap_args"}
  PROVE  Buffers'
<1>1. mm = Needed /\ dma = Needed /\ Needed' = Needed
  BY DEF Buffers, Needed
<1>2. pc' \notin InLoad \ {"unmap_args"}
  BY DEF ToMc, InLoad, InSession, Body
<1>. QED
  BY <1>1, <1>2 DEF Buffers, InLoad

LEMMA BuffersNext ==
  ASSUME Place, Buffers, [Next]_vars
  PROVE  Buffers'
<1>. USE DEF mcVars, objVars, callVars, loadVars, InLoad, ToMc, InSession, Body
<1>1. CASE Start
  BY <1>1, BuffersAside DEF Start
<1>2. CASE Exit
  BY <1>2 DEF Exit, Buffers
<1>3. CASE Boot
  BY <1>3 DEF Boot, Buffers, Needed
<1>4. ASSUME NEW o \in Ops, NEW a \in ArgsOf(o), Call(o, a)
      PROVE  Buffers'
  BY <1>4 DEF Call, Entry, Buffers, Ops
<1>5. CASE SetupVfio \/ SetupDevice \/ SetupPortal
  BY <1>5, BuffersAside
     DEF SetupVfio, SetupDevice, SetupPortal, InitStep, Step, Place, Control, InInit
<1>6. CASE AllocIo \/ Open \/ Close \/ \E c \in Body : Command(c)
  <2>1. UNCHANGED <<fds, mm, dma, op, args>> /\ pc \in ToMc
    BY <1>6 DEF AllocIo, Open, Close, Command, Step
  <2>2. pc' \in ToMc \cup {AfterSession(op)}
    <3>1. CASE AllocIo \/ Open \/ Close
      BY <3>1, FirstCommandIs
         DEF AllocIo, Open, OpenFailed, Close, Step, Place, Control
    <3>2. ASSUME NEW c \in Body, Command(c) PROVE pc' \in ToMc
      BY <3>2, NextCommandIs DEF Command, Place, Control
    <3>. QED
      BY <1>6, <3>1, <3>2
  <2>3. CASE op = "load"
    BY <2>1, <2>2, <2>3, BuffersTalk DEF AfterSession
  <2>4. CASE op # "load"
    BY <2>1, <2>2, <2>4, BuffersAside
  <2>. QED
    BY <2>3, <2>4
<1>7. CASE OpenImage \/ OpenArgs
  BY <1>7 DEF OpenImage, OpenArgs, Step, Buffers, Needed, Place, Control
<1>8. CASE MapImage \/ MapArgs
  BY <1>8 DEF MapImage, MapArgs, MapFile, Step, Buffers, Needed, Place, Control, Files
<1>9. CASE DmaMapImage \/ DmaMapArgs
  BY <1>9 DEF DmaMapImage, DmaMapArgs, DmaMap, ArgsMapFailed, Step, Buffers, Needed,
              Place, Control, Files
<1>10. CASE DmaUnmapArgs \/ DmaUnmapImage
  BY <1>10 DEF DmaUnmapArgs, DmaUnmapImage, DmaUnmap, Buffers, Needed, Place, Control, Files
<1>11. CASE LoadOut
  BY <1>11 DEF LoadOut, Buffers, Place, Control
<1>12. CASE Return
  BY <1>12, BuffersAside DEF Return
<1>13. CASE UNCHANGED vars
  BY <1>13 DEF vars, Buffers, Needed
<1>. QED
  BY <1>1, <1>2, <1>3, <1>4, <1>5, <1>6, <1>7, <1>8, <1>9, <1>10, <1>11, <1>12, <1>13
     DEF Next, CallStep

LEMMA InBuffers == Spec => [](Place /\ Buffers)
<1>1. Init => Buffers
  BY DEF Init, Buffers
<1>2. Place /\ Buffers /\ [Next]_vars => Buffers'
  BY BuffersNext
<1>. QED
  BY <1>1, <1>2, InPlace, PTL DEF Spec

\* The device reaches nothing that is not mapped, and both files when the MC is
\* asked to load and run.
THEOREM Backed == Spec => []DmaBacked
<1>1. Place /\ Buffers => DmaBacked
  <2>. SUFFICES ASSUME Place, Buffers PROVE DmaBacked
    OBVIOUS
  <2>1. Needed \subseteq Files /\ "image" \in Needed
    BY DEF Needed, Files
  <2>2. dma \subseteq mm
    BY <2>1 DEF Buffers, Place, Control, InLoad, ToMc
  <2>. QED
    BY <2>2 DEF DmaBacked, Buffers, Needed, ToMc, InLoad
<1>. QED
  BY <1>1, InBuffers, PTL

\* On every error path, a call that returns has closed the files that aiopt_load
\* opened, given up their mappings in memory and for the device, and freed the
\* mc_io of its session.
THEOREM LeftClean == Spec => []NothingLeftBehind
<1>1. Buffers /\ Session => NothingLeftBehind
  BY DEF Buffers, Session, IoHeld, NothingLeftBehind, InLoad, ToMc, InSession, Body
<1>. QED
  BY <1>1, InBuffers, InSessions, PTL

-----------------------------------------------------------------------------
(* What a call does to the tile                                             *)

\* A command that is sent adds itself to what the call did or missed.
LEMMA Sends ==
  ASSUME Tracing, NEW d \in Body \cup {"close"}, NEW ok \in BOOLEAN,
         trace' = Append(trace, <<d, ok>>)
  PROVE  /\ Made' = Made \cup {c \in Changes : c = d /\ ok}
         /\ Missed' = Missed \cup {c \in Changes : c = d /\ ~ok}
<1>. DEFINE E == (Body \cup {"close"}) \X BOOLEAN
            e == <<d, ok>>
<1>1. trace \in Seq(E) /\ e \in E
  BY DEF Tracing
<1>2. ASSUME NEW x \in E
      PROVE  (\E k \in 1..Len(trace') : trace'[k] = x) <=> (\E k \in 1..Len(trace) : trace[k] = x) \/ x = e
  <2>. HIDE DEF E, e
  <2>1. trace' = Append(trace, e)
    BY DEF e
  <2>2. /\ Len(trace') = Len(trace) + 1 /\ Len(trace) \in Nat
        /\ \A k \in 1..Len(trace) : trace'[k] = trace[k]
        /\ trace'[Len(trace) + 1] = e
    <3>1. /\ Len(Append(trace, e)) = Len(trace) + 1
          /\ \A k \in 1..Len(trace) : Append(trace, e)[k] = trace[k]
          /\ Append(trace, e)[Len(trace) + 1] = e
      BY <1>1, AppendProperties
    <3>2. Len(trace) \in Nat
      BY <1>1
    <3>. QED
      BY <2>1, <3>1, <3>2
  <2>. QED
    BY <2>2
<1>3. ASSUME NEW c \in Changes
      PROVE  /\ Ok(c)' <=> Ok(c) \/ (c = d /\ ok)
             /\ Failed(c)' <=> Failed(c) \/ (c = d /\ ~ok)
  <2>1. <<c, TRUE>> \in E /\ <<c, FALSE>> \in E
    BY DEF Changes, Body
  <2>2. (<<c, TRUE>> = e <=> c = d /\ ok) /\ (<<c, FALSE>> = e <=> c = d /\ ~ok)
    OBVIOUS
  <2>. HIDE DEF E, e
  <2>. QED
    BY <1>2, <2>1, <2>2 DEF Ok, Failed
<1>. QED
  BY <1>3 DEF Made, Missed

LEMMA Unsent ==
  ASSUME trace' = trace PROVE Made' = Made /\ Missed' = Missed
  BY DEF Made, Missed, Ok, Failed

LEMMA NothingSent ==
  ASSUME trace = <<>> PROVE Made = {} /\ Missed = {}
  BY DEF Made, Missed, Ok, Failed

LEMMA NothingSentNext ==
  ASSUME trace' = <<>> PROVE Made' = {} /\ Missed' = {}
  BY DEF Made, Missed, Ok, Failed

\* A step that sends nothing, before the call has done anything.
LEMMA CourseBefore ==
  ASSUME Place, Course, trace' = trace,
         pc \notin {"load", "run"} \cup AfterMc, pc' \notin {"load", "run"},
         pc' \in AfterMc => ret' = "FAILURE" \/ op' \notin {"load", "reset"}
  PROVE  Course'
  BY Unsent DEF Course

\* A step that sends nothing, after the session.
LEMMA CourseAfter ==
  ASSUME Place, Course, UNCHANGED <<trace, ret, op>>, pc \in AfterMc, pc' \in AfterMc
  PROVE  Course'
  BY Unsent DEF Course, AfterMc

LEMMA CourseCommand ==
  ASSUME Place, Course, NEW c \in Body, Command(c)
  PROVE  Course'
<1>1. PICK ok \in BOOLEAN :
        /\ trace' = Append(trace, <<c, ok>>)
        /\ ret' = IF ok THEN "SUCCESS" ELSE "FAILURE"
        /\ pc' = NextCommand(op, c, ok)
  BY DEF Command
<1>2. pc = c /\ op' = op /\ args' = args /\ op \in Ops
  BY DEF Command, Place, Control
<1>3. /\ Made' = Made \cup {x \in Changes : x = c /\ ok}
      /\ Missed' = Missed \cup {x \in Changes : x = c /\ ~ok}
  BY <1>1, Sends DEF Place
<1>4. c = "load" \/ c = "run" => op = "load"
  BY <1>2 DEF Place, Control
<1>5. c = "reset" => op = "reset" \/ (op = "load" /\ args.reset)
  BY <1>2 DEF Place, Control
<1>6. CASE c = "reset"
  BY <1>1, <1>2, <1>3, <1>5, <1>6, NextCommandIs DEF Course, Changes, AfterMc
<1>7. CASE c = "load"
  BY <1>1, <1>2, <1>3, <1>4, <1>7, NextCommandIs DEF Course, Changes, AfterMc
<1>8. CASE c = "run"
  BY <1>1, <1>2, <1>3, <1>4, <1>8, NextCommandIs DEF Course, Changes, AfterMc
<1>9. CASE c \in Body \ Changes
  <2>1. Made' = {} /\ Missed' = {}
    BY <1>2, <1>3, <1>9 DEF Course, Changes, Body, AfterMc
  <2>2. pc' \in {"get_state", "close"}
    BY <1>1, <1>2, <1>9, NextCommandIs DEF Changes
  <2>3. op \notin {"load", "reset"}
    BY <1>2, <1>9 DEF Place, Control, Body, Changes
  <2>. QED
    BY <1>2, <2>1, <2>2, <2>3 DEF Course, AfterMc
<1>. QED
  BY <1>6, <1>7, <1>8, <1>9 DEF Changes

LEMMA CourseNext ==
  ASSUME Place, Course, [Next]_vars
  PROVE  Course'
<1>. USE DEF mcVars, objVars, callVars, loadVars
<1>1. CASE Start
  BY <1>1, CourseBefore DEF Start, AfterMc
<1>2. CASE Exit \/ Return
  BY <1>2, NothingSentNext DEF Exit, Return, Course, AfterMc
<1>3. CASE Boot
  BY <1>3, Unsent DEF Boot, Course
<1>4. ASSUME NEW o \in Ops, NEW a \in ArgsOf(o), Call(o, a)
      PROVE  Course'
  BY <1>4, CourseBefore, ArgsShape DEF Call, Entry, AfterMc, Ops
<1>5. CASE SetupVfio \/ SetupDevice \/ SetupPortal
  BY <1>5, CourseBefore
     DEF SetupVfio, SetupDevice, SetupPortal, InitStep, Step, AfterMc
<1>6. CASE AllocIo
  BY <1>6, CourseBefore DEF AllocIo, Step, AfterSession, AfterMc
<1>7. CASE Open
  <2>1. CASE pc' = OpenFailed(op, args) /\ ret' = "FAILURE"
    BY <1>7, <2>1, CourseBefore DEF Open, OpenFailed, AfterSession, AfterMc
  <2>2. CASE pc' = FirstCommand(op, args)
    <3>1. Made' = {} /\ Missed' = {} /\ op' = op /\ args' = args
      BY <1>7, Unsent DEF Open, Course, AfterMc
    <3>2. pc' \notin AfterMc \cup {"run"}
      BY <1>7, <2>2, FirstCommandIs DEF Open, Place, Control, ToMc, AfterMc
    <3>3. pc' = "load" => ~args.reset
      BY <1>7, <2>2, FirstCommandIs DEF Open, Place, Control, ToMc
    <3>. QED
      BY <3>1, <3>2, <3>3 DEF Course
  <2>. QED
    BY <1>7, <2>1, <2>2 DEF Open
<1>8. CASE Close
  <2>1. PICK ok \in BOOLEAN : trace' = Append(trace, <<"close", ok>>)
    BY <1>8 DEF Close
  <2>2. Made' = Made /\ Missed' = Missed
    <3>1. \A c \in Changes : c # "close"
      BY DEF Changes
    <3>2. /\ Made' = Made \cup {c \in Changes : c = "close" /\ ok}
          /\ Missed' = Missed \cup {c \in Changes : c = "close" /\ ~ok}
      BY <2>1, Sends DEF Place
    <3>. QED
      BY <3>1, <3>2
  <2>3. op' = op /\ args' = args /\ pc' \in AfterMc
    BY <1>8 DEF Close, AfterSession, AfterMc
  <2>4. op \in {"load", "reset"} => ret' = ret
    BY <1>8 DEF Close, CloseResult
  <2>. QED
    BY <1>8, <2>2, <2>3, <2>4 DEF Course, Close, AfterMc
<1>9. ASSUME NEW c \in Body, Command(c)
      PROVE  Course'
  BY <1>9, CourseCommand
<1>10. CASE OpenImage \/ OpenArgs \/ MapImage \/ MapArgs
  BY <1>10, CourseBefore DEF OpenImage, OpenArgs, MapImage, MapArgs, MapFile, Step, AfterMc
<1>11. CASE DmaMapImage \/ DmaMapArgs
  BY <1>11, CourseBefore DEF DmaMapImage, DmaMapArgs, DmaMap, ArgsMapFailed, Step, AfterMc
<1>12. CASE DmaUnmapArgs \/ DmaUnmapImage \/ LoadOut
  BY <1>12, CourseAfter DEF DmaUnmapArgs, DmaUnmapImage, DmaUnmap, LoadOut, AfterMc
<1>13. CASE UNCHANGED vars
  BY <1>13, Unsent DEF vars, Course
<1>. QED
  BY <1>1, <1>2, <1>3, <1>4, <1>5, <1>6, <1>7, <1>8, <1>9, <1>10, <1>11, <1>12, <1>13
     DEF Next, CallStep

LEMMA OnCourse == Spec => [](Place /\ Course)
<1>1. Init => Course
  BY NothingSent DEF Init, Course, AfterMc
<1>2. Place /\ Course /\ [Next]_vars => Course'
  BY CourseNext
<1>. QED
  BY <1>1, <1>2, InPlace, PTL DEF Spec

-----------------------------------------------------------------------------
(* The handle                                                               *)

\* A call has what it needs, and aiopt_init gives it exactly when it returns
\* success.
Handle ==
  /\ pc = "off" => obj = "none"
  /\ pc = "idle" => obj \in {"none", "ready"}
  /\ pc \notin NoCall =>
       obj = IF op = "deinit" THEN "none"
             ELSE IF op # "init" THEN "ready"
             ELSE IF pc # "return" THEN "building"
             ELSE IF ret = "SUCCESS" THEN "ready" ELSE "none"
  /\ op = "deinit" => ret = "SUCCESS"

\* A step inside a call that does not end it leaves the handle alone.
LEMMA HandleAside ==
  ASSUME Handle, UNCHANGED <<obj, op>>, pc \notin NoCall \cup {"return"}, pc' \notin NoCall,
         op # "deinit", pc' = "return" => op # "init"
  PROVE  Handle'
  BY DEF Handle, NoCall

LEMMA HandleNext ==
  ASSUME Place, Handle, [Next]_vars
  PROVE  Handle'
<1>. USE DEF mcVars, objVars, callVars, loadVars
<1>1. CASE Start
  BY <1>1 DEF Start, Handle, NoCall
<1>2. CASE Exit
  BY <1>2 DEF Exit, Handle, NoCall
<1>3. CASE Boot
  BY <1>3 DEF Boot, Handle
<1>4. ASSUME NEW o \in Ops, NEW a \in ArgsOf(o), Call(o, a)
      PROVE  Handle'
  BY <1>4, ArgsShape DEF Call, Entry, Handle, NoCall, Ops
<1>5. ASSUME NEW from \in InInit, NEW to \in {"devices", "portal", "alloc"}, InitStep(from, to)
      PROVE  Handle'
  BY <1>5 DEF InitStep, Step, Handle, InInit, NoCall, Place, Control
<1>6. CASE AllocIo
  BY <1>6 DEF AllocIo, Step, AfterSession, Handle, NoCall, Place, Control, ToMc, InSession
<1>7. CASE Open
  <2>1. CASE pc' = OpenFailed(op, args) /\ ret' = "FAILURE" /\ obj' = IF op = "init" THEN "none" ELSE obj
    BY <1>7, <2>1 DEF Open, OpenFailed, AfterSession, Handle, NoCall, Place, Control, ToMc
  <2>2. CASE pc' = FirstCommand(op, args) /\ UNCHANGED <<obj, ret>>
    <3>1. pc' \in {"get_sl_version", "get_time_of_day", "set_time_of_day", "reset", "load"}
      BY <1>7, <2>2, FirstCommandIs DEF Place, Control, Open, ToMc
    <3>. QED
      BY <1>7, <2>2, <3>1, HandleAside DEF Open, NoCall, Place, Control, ToMc
  <2>. QED
    BY <1>7, <2>1, <2>2 DEF Open
<1>8. CASE Close
  BY <1>8 DEF Close, CloseResult, AfterSession, Handle, NoCall, Place, Control, ToMc, InSession
<1>9. ASSUME NEW c \in Body, Command(c)
      PROVE  Handle'
  <2>1. PICK ok \in BOOLEAN : pc' = NextCommand(op, c, ok)
    BY <1>9 DEF Command
  <2>2. pc = c /\ UNCHANGED <<obj, op>> /\ op # "deinit" /\ op \in Ops
    BY <1>9 DEF Command, Place, Control, ToMc, InSession
  <2>3. pc' \in InSession
    BY <2>1, <2>2, NextCommandIs DEF InSession, Body
  <2>. QED
    BY <2>2, <2>3, HandleAside DEF NoCall, InSession, Body
<1>10. CASE OpenImage \/ OpenArgs \/ MapImage \/ MapArgs
  BY <1>10, HandleAside
     DEF OpenImage, OpenArgs, MapImage, MapArgs, MapFile, Step, NoCall, Place, Control, InLoad
<1>11. CASE DmaMapImage \/ DmaMapArgs
  BY <1>11, HandleAside
     DEF DmaMapImage, DmaMapArgs, DmaMap, ArgsMapFailed, Step, NoCall, Place, Control, InLoad
<1>12. CASE DmaUnmapArgs \/ DmaUnmapImage \/ LoadOut
  BY <1>12, HandleAside
     DEF DmaUnmapArgs, DmaUnmapImage, DmaUnmap, LoadOut, NoCall, Place, Control, InLoad
<1>13. CASE Return
  BY <1>13 DEF Return, Handle, NoCall, Place, Control, Data, Results
<1>14. CASE UNCHANGED vars
  BY <1>14 DEF vars, Handle
<1>15. (SetupVfio \/ SetupDevice \/ SetupPortal) => Handle'
  BY <1>5 DEF SetupVfio, SetupDevice, SetupPortal, InInit
<1>. QED
  BY <1>1, <1>2, <1>3, <1>4, <1>6, <1>7, <1>8, <1>9, <1>10, <1>11, <1>12, <1>13, <1>14, <1>15
     DEF Next, CallStep

LEMMA Begins == Init => Place /\ Course /\ Handle
<1>1. Init => Course
  BY NothingSent DEF Init, Course, AfterMc
<1>2. Init => Handle
  BY DEF Init, Handle, NoCall
<1>. QED
  BY <1>1, <1>2, InitPlace

LEMMA Keeps == Place /\ Course /\ Handle /\ [Next]_vars => (Place /\ Course /\ Handle)'
  BY PlaceNext, CourseNext, HandleNext

\* A call is made with the handle it needs, and aiopt_init gives one out exactly
\* when it returns success, whatever failed in it.
THEOREM HandleGiven == Spec => []Handle
  BY Begins, Keeps, PTL DEF Spec

-----------------------------------------------------------------------------
(* What a caller needs to know of one step inside a call                    *)

LEMMA Inside ==
  ASSUME Place, CallStep, pc # "return"
  PROVE  /\ UNCHANGED <<op, args>> /\ pc \notin NoCall /\ pc' \notin NoCall
         /\ pc \in InInit \cup InLoad \cup ToMc /\ pc' # "vfio"
<1>. USE DEF NoCall, InInit, InLoad, ToMc, InSession
<1>1. CASE SetupVfio \/ SetupDevice \/ SetupPortal
  BY <1>1 DEF SetupVfio, SetupDevice, SetupPortal, InitStep, Step
<1>2. CASE AllocIo \/ Close
  BY <1>2 DEF AllocIo, Close, Step, AfterSession
<1>3. CASE Open
  BY <1>3, FirstCommandIs DEF Open, OpenFailed, AfterSession, Place, Control
<1>4. ASSUME NEW c \in Body, Command(c)
      PROVE  UNCHANGED <<op, args>> /\ pc = c /\ pc' \in InSession
  BY <1>4, NextCommandIs DEF Command, Place, Control, Body
<1>5. CASE OpenImage \/ OpenArgs \/ MapImage \/ MapArgs
  BY <1>5 DEF OpenImage, OpenArgs, MapImage, MapArgs, MapFile, Step
<1>6. CASE DmaMapImage \/ DmaMapArgs
  BY <1>6 DEF DmaMapImage, DmaMapArgs, DmaMap, ArgsMapFailed, Step
<1>7. CASE DmaUnmapArgs \/ DmaUnmapImage \/ LoadOut
  BY <1>7 DEF DmaUnmapArgs, DmaUnmapImage, DmaUnmap, LoadOut
<1>8. ~Return
  BY DEF Return
<1>. QED
  BY <1>1, <1>2, <1>3, <1>4, <1>5, <1>6, <1>7, <1>8 DEF CallStep, Body

\* The answers that a step adds to the trace, but for that of a close.
Answers == {e \in Body \X BOOLEAN : pc = e[1] /\ trace' = Append(trace, e)}

\* A command adds its answer and does to the tile what it says.
LEMMA Commands ==
  ASSUME Place, CallStep, pc \in Body
  PROVE  \E ok \in BOOLEAN :
           /\ Answers = {<<pc, ok>>}
           /\ tile' \in Effect(pc, ok) /\ pc' \in InSession
           /\ Made' = Made \cup {c \in Changes : c = pc /\ ok}
           /\ Missed' = Missed \cup {c \in Changes : c = pc /\ ~ok}
<1>1. Command(pc)
  <2>1. ~(SetupVfio \/ SetupDevice \/ SetupPortal \/ AllocIo \/ Open \/ Close)
    BY DEF SetupVfio, SetupDevice, SetupPortal, InitStep, AllocIo, Open, Close, Step, Body
  <2>2. ~(OpenImage \/ OpenArgs \/ MapImage \/ MapArgs \/ DmaMapImage \/ DmaMapArgs)
    BY DEF OpenImage, OpenArgs, MapImage, MapArgs, MapFile, DmaMapImage, DmaMapArgs, DmaMap,
           Step, Body
  <2>3. ~(DmaUnmapArgs \/ DmaUnmapImage \/ LoadOut \/ Return)
    BY DEF DmaUnmapArgs, DmaUnmapImage, DmaUnmap, LoadOut, Return, Body
  <2>. QED
    BY <2>1, <2>2, <2>3 DEF CallStep, Command
<1>2. PICK ok \in BOOLEAN :
        /\ trace' = Append(trace, <<pc, ok>>)
        /\ tile' \in Effect(pc, ok)
        /\ pc' = NextCommand(op, pc, ok)
  BY <1>1 DEF Command
<1>3. pc' \in InSession
  BY <1>2, NextCommandIs DEF Place, Control, InSession, Body
<1>4. Answers = {<<pc, ok>>}
  <2>1. ASSUME NEW e \in Body \X BOOLEAN, NEW f \in Body \X BOOLEAN,
               Append(trace, e) = Append(trace, f)
        PROVE  e = f
    <3>. DEFINE E == (Body \cup {"close"}) \X BOOLEAN
    <3>1. trace \in Seq(E) /\ e \in E /\ f \in E
      BY DEF Place, Tracing
    <3>. HIDE DEF E
    <3>2. Append(trace, e)[Len(trace) + 1] = e /\ Append(trace, f)[Len(trace) + 1] = f
      BY <3>1, AppendProperties
    <3>. QED
      BY <2>1, <3>2
  <2>2. <<pc, ok>> \in Body \X BOOLEAN
    OBVIOUS
  <2>3. \A e \in Answers : e = <<pc, ok>>
    BY <1>2, <2>1, <2>2 DEF Answers
  <2>4. <<pc, ok>> \in Answers
    BY <1>2, <2>2 DEF Answers
  <2>. QED
    BY <2>3, <2>4
<1>. QED
  BY <1>2, <1>3, <1>4, Sends DEF Place

\* Every other step leaves the tile alone, and what the call did to it.
LEMMA Others ==
  ASSUME Place, CallStep, pc \notin Body \cup {"return"}
  PROVE  Answers = {} /\ Made' = Made /\ Missed' = Missed /\ tile' = tile
<1>1. Answers = {}
  BY DEF Answers
<1>2. ~Return /\ \A c \in Body : ~Command(c)
  BY DEF Return, Command
<1>3. CASE Close
  <2>1. PICK ok \in BOOLEAN : trace' = Append(trace, <<"close", ok>>)
    BY <1>3 DEF Close
  <2>2. /\ Made' = Made \cup {c \in Changes : c = "close" /\ ok}
        /\ Missed' = Missed \cup {c \in Changes : c = "close" /\ ~ok}
    BY <2>1, Sends DEF Place
  <2>3. \A c \in Changes : c # "close"
    BY DEF Changes
  <2>4. tile' = tile
    BY <1>3 DEF Close
  <2>. QED
    BY <1>1, <2>2, <2>3, <2>4
<1>4. ASSUME UNCHANGED <<trace, tile>>
      PROVE  Made' = Made /\ Missed' = Missed /\ tile' = tile
  BY <1>4, Unsent
<1>. USE DEF mcVars
<1>5. CASE SetupVfio \/ SetupDevice \/ SetupPortal
  BY <1>1, <1>4, <1>5 DEF SetupVfio, SetupDevice, SetupPortal, InitStep, Step
<1>6. CASE AllocIo \/ Open
  BY <1>1, <1>4, <1>6 DEF AllocIo, Open, Step
<1>7. CASE OpenImage \/ OpenArgs \/ MapImage \/ MapArgs \/ DmaMapImage \/ DmaMapArgs
  BY <1>1, <1>4, <1>7 DEF OpenImage, OpenArgs, MapImage, MapArgs, MapFile, DmaMapImage,
                          DmaMapArgs, DmaMap, Step
<1>8. CASE DmaUnmapArgs \/ DmaUnmapImage \/ LoadOut
  BY <1>1, <1>4, <1>8 DEF DmaUnmapArgs, DmaUnmapImage, DmaUnmap, LoadOut
<1>. QED
  BY <1>2, <1>3, <1>5, <1>6, <1>7, <1>8 DEF CallStep

\* aiopt_init that fails before it set up VFIO fails the call.
LEMMA Vfio ==
  ASSUME Place, CallStep, pc = "vfio", pc' = "return"
  PROVE  ret' = "FAILURE"
<1>1. SetupVfio
  <2>1. ~(SetupDevice \/ SetupPortal \/ AllocIo \/ Open \/ Close)
    BY DEF SetupDevice, SetupPortal, InitStep, AllocIo, Open, Close, Step
  <2>2. ~(OpenImage \/ OpenArgs \/ MapImage \/ MapArgs \/ DmaMapImage \/ DmaMapArgs)
    BY DEF OpenImage, OpenArgs, MapImage, MapArgs, MapFile, DmaMapImage, DmaMapArgs, DmaMap, Step
  <2>3. ~(DmaUnmapArgs \/ DmaUnmapImage \/ LoadOut \/ Return) /\ \A c \in Body : ~Command(c)
    BY DEF DmaUnmapArgs, DmaUnmapImage, DmaUnmap, LoadOut, Return, Command, Body
  <2>. QED
    BY <2>1, <2>2, <2>3 DEF CallStep
<1>. QED
  BY <1>1 DEF SetupVfio, InitStep, Step

-----------------------------------------------------------------------------
(* The refinement: a call is a job.                                         *)

\* No operation is the one of no job.
LEMMA JobIsSome ==
  ASSUME NEW o \in Ops, NEW b
  PROVE  [op |-> o, reset |-> b] # Service!NoJob
<1>1. [op |-> o, reset |-> b].op = o /\ Service!NoJob.op = "none"
  BY DEF Service!NoJob
<1>2. o # "none"
  BY DEF Ops
<1>. QED
  BY <1>1, <1>2

\* A step inside a call that leaves the tile alone: it answers, or is none of
\* the service's.
LEMMA ServiceAside ==
  ASSUME Place, Place', Course', pc \notin NoCall \cup {"return"}, pc' \notin NoCall,
         UNCHANGED <<op, args, tile>>, Made' = Made, Missed' = Missed
  PROVE  [Service!Next]_Service!vars
<1>1. CASE pc' = "return"
  <2>1. ret' \in {"SUCCESS", "FAILURE"}
    BY DEF Place, Data, Results
  <2>2. op \in {"load", "reset"} => (ret' = "SUCCESS" <=> Service!Wanted(op) \subseteq Made)
    BY <1>1 DEF Course, AfterMc, Service!Wanted
  <2>3. op \in Ops
    BY DEF Place, Control
  <2>4. Service!Answer
    BY <1>1, <2>1, <2>2, <2>3, JobIsSome
       DEF Service!Answer, NoCall, Made, Missed, Changes
  <2>. QED
    BY <2>4 DEF Service!Next
<1>2. CASE pc' # "return"
  BY <1>2 DEF Service!vars, NoCall, Made, Missed, Changes
<1>. QED
  BY <1>1, <1>2

\* A command that resets, loads or starts the tile does so as the job says.
LEMMA ServiceChange ==
  ASSUME Place, Course, NEW c \in Changes, Command(c)
  PROVE  Service!Next
<1>0. c \in Body
  BY DEF Changes, Body
<1>1. PICK ok \in BOOLEAN :
        /\ trace' = Append(trace, <<c, ok>>)
        /\ tile' \in Effect(c, ok)
        /\ pc' = NextCommand(op, c, ok)
  BY DEF Command
<1>2. pc = c /\ op' = op /\ args' = args /\ op \in Ops
  BY DEF Command, Place, Control
<1>3. /\ Made' = Made \cup {x \in Changes : x = c /\ ok}
      /\ Missed' = Missed \cup {x \in Changes : x = c /\ ~ok}
  BY <1>0, <1>1, Sends DEF Place
<1>4. pc' \in InSession
  BY <1>0, <1>1, <1>2, NextCommandIs DEF InSession, Body
<1>5. pc \notin NoCall \cup {"return"} /\ pc' \notin NoCall \cup {"return"}
  BY <1>2, <1>4 DEF NoCall, Changes, InSession, Body
<1>6. /\ c = "reset" => op = "reset" \/ (op = "load" /\ args.reset)
      /\ c = "load" => op = "load"
  BY <1>2 DEF Place, Control
<1>7. c \notin Made \cup Missed
  BY <1>2 DEF Course, Changes, AfterMc
<1>8. Service!MayChange(c)
  <2>1. CASE c = "reset"
    <3>1. "load" \notin Made \cup Missed
      BY <1>2, <2>1 DEF Course, AfterMc
    <3>. QED
      BY <1>2, <1>5, <1>6, <1>7, <2>1, <3>1, JobIsSome
         DEF Service!MayChange, Made, Missed, Changes, NoCall
  <2>2. CASE c = "load"
    <3>1. args.reset => "reset" \in Made \cup Missed
      BY <1>2, <2>2 DEF Course
    <3>. QED
      BY <1>2, <1>5, <1>6, <1>7, <2>2, <3>1, JobIsSome
         DEF Service!MayChange, Made, Missed, Changes, NoCall
  <2>3. CASE c = "run"
    <3>1. "load" \in Made
      BY <1>2, <2>3 DEF Course
    <3>. QED
      BY <1>2, <1>5, <1>7, <2>3, <3>1, JobIsSome
         DEF Service!MayChange, Made, Missed, Changes, NoCall
  <2>. QED
    BY <2>1, <2>2, <2>3 DEF Changes
<1>9. \/ tile' = Service!Outcome(c) /\ Made' = Made \cup {c} /\ Missed' = Missed
      \/ tile' \in Service!Damage(c) /\ Missed' = Missed \cup {c} /\ Made' = Made
  <2>1. CASE ok
    <3>1. tile' = Service!Outcome(c)
      BY <1>1, <2>1 DEF Effect, Service!Outcome, Changes
    <3>. QED
      BY <1>3, <2>1, <3>1
  <2>2. CASE ~ok
    <3>1. tile' \in Service!Damage(c)
      BY <1>1, <2>2 DEF Effect, Service!Damage, Changes
    <3>. QED
      BY <1>3, <2>2, <3>1
  <2>. QED
    BY <2>1, <2>2
<1>10. Service!Change(c)
  <2>1. \/ /\ tile' = Service!Outcome(c)
           /\ Made' = Made \cup {c} /\ UNCHANGED Missed
        \/ /\ tile' \in Service!Damage(c)
           /\ Missed' = Missed \cup {c} /\ UNCHANGED Made
    BY <1>9
  <2>2. UNCHANGED <<IF pc \in {"off", "idle"} THEN [op |-> "none", reset |-> FALSE]
                    ELSE [op |-> op, reset |-> args.reset],
                    IF pc = "return" THEN ret ELSE "none">>
    BY <1>2, <1>5 DEF NoCall
  <2>. QED
    BY <1>8, <2>1, <2>2 DEF Service!Change, Made, Missed, Changes
<1>. QED
  BY <1>10 DEF Service!Next, Service!Changes, Changes

\* The call is left: it returned, or its process is gone.
LEMMA ServiceLeave ==
  ASSUME Place, Course, Exit \/ Return
  PROVE  [Service!Next]_Service!vars
<1>1. Made' = {} /\ Missed' = {} /\ pc' \in NoCall /\ tile' = tile
  BY NothingSentNext DEF Exit, Return, NoCall, mcVars
<1>2. CASE pc \in NoCall
  <2>1. Made = {} /\ Missed = {}
    BY <1>2 DEF Course, NoCall, AfterMc
  <2>. QED
    BY <1>1, <1>2, <2>1 DEF Service!vars, Made, Missed, Changes, NoCall
<1>3. CASE pc \notin NoCall
  <2>1. op \in Ops
    BY DEF Place, Control
  <2>2. Service!Leave
    BY <1>1, <1>3, <2>1, JobIsSome
       DEF Service!Leave, Service!NoJob, Made, Missed, Changes, NoCall
  <2>. QED
    BY <2>2 DEF Service!Next
<1>. QED
  BY <1>2, <1>3

LEMMA ServiceAsk ==
  ASSUME Place, Course, NEW o \in Ops, NEW a \in ArgsOf(o), Call(o, a)
  PROVE  Service!Next
<1>1. a.reset \in BOOLEAN /\ (~a.out => o \in {"gettod", "status"})
  BY ArgsShape
<1>2. pc = "idle" /\ pc' \notin NoCall /\ op' = o /\ args' = a /\ tile' = tile
  BY DEF Call, Entry, NoCall, mcVars
<1>3. Made = {} /\ Missed = {} /\ Made' = {} /\ Missed' = {}
  BY <1>2, Unsent DEF Course, Call, AfterMc
<1>4. pc' = "return" => ret' \in {"SUCCESS", "FAILURE"} /\ o \notin {"load", "reset"}
  BY <1>1 DEF Call, Entry
<1>5. Service!Ask(o, a.reset)
  BY <1>2, <1>3, <1>4 DEF Service!Ask, Service!NoJob, Made, Missed, Changes, NoCall
<1>. QED
  BY <1>1, <1>5 DEF Service!Next

\* The library is the service it promises.
THEOREM Refinement == Spec => ImplementsTileService
<1>1. Init => Service!Init
  <2>. SUFFICES ASSUME Init PROVE Service!Init
    OBVIOUS
  <2>1. Made = {} /\ Missed = {}
    BY NothingSent DEF Init
  <2>. QED
    BY <2>1 DEF Init, Service!Init, Service!Tiles, Tiles, Service!NoJob, Made, Missed, Changes
<1>2. Place /\ Place' /\ Course /\ Course' /\ [Next]_vars => [Service!Next]_Service!vars
  <2>. SUFFICES ASSUME Place, Place', Course, Course', [Next]_vars
                PROVE  [Service!Next]_Service!vars
    OBVIOUS
  <2>. USE DEF mcVars, objVars, callVars, loadVars
  <2>1. CASE Start
    <3>1. Made' = Made /\ Missed' = Missed
      BY <2>1, Unsent DEF Start
    <3>. QED
      BY <2>1, <3>1 DEF Start, Service!vars, Made, Missed, Changes
  <2>2. CASE Exit \/ Return
    BY <2>2, ServiceLeave
  <2>3. CASE Boot
    <3>1. Made' = Made /\ Missed' = Missed
      BY <2>3, Unsent DEF Boot
    <3>2. Service!Boot
      BY <2>3, <3>1 DEF Boot, Service!Boot, Made, Missed, Changes
    <3>. QED
      BY <3>2 DEF Service!Next
  <2>4. ASSUME NEW o \in Ops, NEW a \in ArgsOf(o), Call(o, a)
        PROVE  Service!Next
    BY <2>4, ServiceAsk
  <2>5. ASSUME NEW c \in Changes, Command(c)
        PROVE  Service!Next
    BY <2>5, ServiceChange
  <2>6. ASSUME NEW c \in Body \ Changes, Command(c)
        PROVE  [Service!Next]_Service!vars
    <3>1. PICK ok \in BOOLEAN :
            /\ trace' = Append(trace, <<c, ok>>)
            /\ tile' \in Effect(c, ok)
            /\ pc' = NextCommand(op, c, ok)
      BY <2>6 DEF Command
    <3>2. /\ Made' = Made \cup {x \in Changes : x = c /\ ok}
          /\ Missed' = Missed \cup {x \in Changes : x = c /\ ~ok}
      BY <3>1, Sends DEF Place
    <3>3. Made' = Made /\ Missed' = Missed
      BY <3>2
    <3>4. tile' = tile
      BY <3>1 DEF Effect, Changes
    <3>5. UNCHANGED <<op, args>> /\ pc \in Body /\ pc' \in InSession
      BY <2>6, <3>1, NextCommandIs DEF Command, Place, Control, InSession, Body
    <3>. QED
      BY <3>3, <3>4, <3>5, ServiceAside DEF InSession, Body, NoCall
  <2>7. CASE Close
    <3>1. PICK ok \in BOOLEAN : trace' = Append(trace, <<"close", ok>>)
      BY <2>7 DEF Close
    <3>2. /\ Made' = Made \cup {x \in Changes : x = "close" /\ ok}
          /\ Missed' = Missed \cup {x \in Changes : x = "close" /\ ~ok}
      BY <3>1, Sends DEF Place
    <3>3. \A x \in Changes : x # "close"
      BY DEF Changes
    <3>4. Made' = Made /\ Missed' = Missed
      BY <3>2, <3>3
    <3>. QED
      BY <2>7, <3>4, ServiceAside DEF Close, AfterSession, NoCall
  <2>8. ASSUME UNCHANGED <<trace, tile, op, args>>,
               pc \notin NoCall \cup {"return"}, pc' \notin NoCall
        PROVE  [Service!Next]_Service!vars
    BY <2>8, Unsent, ServiceAside
  <2>9. CASE SetupVfio \/ SetupDevice \/ SetupPortal
    BY <2>8, <2>9 DEF SetupVfio, SetupDevice, SetupPortal, InitStep, Step, NoCall
  <2>10. CASE AllocIo
    BY <2>8, <2>10 DEF AllocIo, Step, AfterSession, NoCall
  <2>11. CASE Open
    <3>1. pc' \notin NoCall
      BY <2>11, FirstCommandIs DEF Open, OpenFailed, AfterSession, Place, Control, ToMc, NoCall
    <3>. QED
      BY <2>8, <2>11, <3>1 DEF Open, NoCall
  <2>12. CASE OpenImage \/ OpenArgs \/ MapImage \/ MapArgs
    BY <2>8, <2>12 DEF OpenImage, OpenArgs, MapImage, MapArgs, MapFile, Step, NoCall
  <2>13. CASE DmaMapImage \/ DmaMapArgs
    BY <2>8, <2>13 DEF DmaMapImage, DmaMapArgs, DmaMap, ArgsMapFailed, Step, NoCall
  <2>14. CASE DmaUnmapArgs \/ DmaUnmapImage \/ LoadOut
    BY <2>8, <2>14 DEF DmaUnmapArgs, DmaUnmapImage, DmaUnmap, LoadOut, NoCall
  <2>15. CASE UNCHANGED vars
    <3>1. Made' = Made /\ Missed' = Missed
      BY <2>15, Unsent DEF vars
    <3>. QED
      BY <2>15, <3>1 DEF vars, Service!vars, Made, Missed, Changes
  <2>. QED
    BY <2>1, <2>2, <2>3, <2>4, <2>5, <2>6, <2>7, <2>9, <2>10, <2>11, <2>12, <2>13, <2>14, <2>15
       DEF Next, CallStep
<1>. QED
  BY <1>1, <1>2, OnCourse, PTL DEF Spec, ImplementsTileService, Service!Spec

=============================================================================
