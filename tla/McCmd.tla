------------------------------- MODULE McCmd --------------------------------
(***************************************************************************)
(* Command marshalling: the functions of flib/mc/dpaiop.c, which pack their *)
(* arguments into the bit fields of a command buffer, send it, and unpack  *)
(* the results, by the layouts of flib/mc/fsl_dpaiop_cmd.h.                *)
(*                                                                         *)
(* A 64-bit word is the set of the positions of its one bits, so that |= is *)
(* union, a mask is intersection and nothing depends on the range of TLC's *)
(* integers.  One behaviour is a succession of calls; the portal is left   *)
(* to McPortal: here a sent command is answered in one step.               *)
(***************************************************************************)
EXTENDS Integers

CONSTANTS
  Flags,        \* values of cmd_flags the callers pass, sets of bits 0..31
  Tokens,       \* values of token, sets of bits 0..15
  Values,       \* values of arguments and results, sets of bits 0..63
  Junk          \* contents of the bits of an answer that belong to no field

Word == SUBSET (0..63)

ASSUME FlagsAssumption  == Flags \subseteq SUBSET (0..31)
ASSUME TokensAssumption == Tokens \subseteq SUBSET (0..15)
ASSUME ValuesAssumption == Values \subseteq Word
ASSUME JunkAssumption   == Junk \subseteq Word

-----------------------------------------------------------------------------
(* mc_enc, mc_dec and the header.  A definition whose name ends in an         *)
(* underscore and a fault is a faulty form of the one after it; nothing uses *)
(* it, it shows that some property depends on the right form.                *)

\* The low bits MAKE_UMASK64(width) keeps.
Low(width) == {b \in 0..63 : b < width}

mc_enc_NoMask(lsoffset, width, val) == {b \in 0..63 : b - lsoffset \in val}
mc_enc(lsoffset, width, val) ==
  {b \in 0..63 : b - lsoffset \in val \cap Low(width)}

mc_dec_NoMask(val, lsoffset, width) == {b \in 0..63 : b + lsoffset \in val}
mc_dec(val, lsoffset, width) ==
  {b \in 0..63 : b + lsoffset \in val} \cap Low(width)

Bits(n) == {b \in 0..15 : (n \div 2^b) % 2 = 1}

\* MC_CMD_HDR_FLAGS_MASK 0xFF00FF00 keeps clear of the status byte.
FlagsMask_All == 0..31
FlagsMask     == (8..15) \cup (24..31)

Ready == {0}                           \* MC_CMD_STATUS_READY

mc_encode_cmd_header(cmd_id, cmd_flags, token) ==
  mc_enc(48, 16, cmd_id) \cup mc_enc(0, 32, cmd_flags \cap FlagsMask)
    \cup mc_enc(32, 16, token) \cup mc_enc(16, 8, Ready)

ReadStatus(header) == mc_dec(header, 16, 8)
ReadToken(header)  == mc_dec(header, 32, 16)
ReadCmdId(header)  == mc_dec(header, 48, 16)
ReadFlags(header)  == mc_dec(header, 0, 32)

-----------------------------------------------------------------------------
(* The layouts: one row (param, offset, width) per MC_CMD_OP or MC_RSP_OP.  *)
(* An argument of C type int is sign-extended when mc_enc takes it.         *)

Field(name, param, offset, width) ==
  [name |-> name, param |-> param, offset |-> offset, width |-> width,
   ctype |-> "unsigned"]
IntField(name, param, offset) ==
  [name |-> name, param |-> param, offset |-> offset, width |-> 32,
   ctype |-> "int"]

CmdId == [
  open |-> Bits(\h80a1), close |-> Bits(\h8001), create |-> Bits(\h90a1),
  destroy |-> Bits(\h98a1), get_api_version |-> Bits(\ha0a1),
  get_attributes |-> Bits(\h0041), reset |-> Bits(\h0051),
  set_irq_enable |-> Bits(\h0121), get_irq_enable |-> Bits(\h0131),
  set_irq_mask |-> Bits(\h0141), get_irq_mask |-> Bits(\h0151),
  get_irq_status |-> Bits(\h0161), clear_irq_status |-> Bits(\h0171),
  load |-> Bits(\h2802), run |-> Bits(\h2811), get_sl_version |-> Bits(\h2821),
  get_state |-> Bits(\h2831), set_time_of_day |-> Bits(\h2841),
  get_time_of_day |-> Bits(\h2851)]

Calls == DOMAIN CmdId

irq_index == Field("irq_index", 0, 32, 8)

Request == [c \in Calls |->
  CASE c = "open"    -> {IntField("dpaiop_id", 0, 0)}
    [] c = "create"  -> {IntField("aiop_id", 0, 0), IntField("aiop_container_id", 0, 32)}
    [] c = "destroy" -> {Field("object_id", 0, 0, 32)}
    [] c = "set_irq_enable" -> {Field("en", 0, 0, 8), irq_index}
    [] c = "set_irq_mask"   -> {Field("mask", 0, 0, 32), irq_index}
    [] c \in {"get_irq_enable", "get_irq_mask"} -> {irq_index}
    [] c \in {"get_irq_status", "clear_irq_status"} -> {Field("status", 0, 0, 32), irq_index}
    [] c = "load" -> {Field("img_size", 0, 0, 32), Field("tpc", 0, 32, 8),
                       Field("img_iova", 1, 0, 64), Field("options", 2, 0, 64)}
    [] c = "run"  -> {Field("args_size", 0, 32, 32), Field("cores_mask", 1, 0, 64),
                       Field("options", 2, 0, 64), Field("args_iova", 3, 0, 64)}
    [] c = "set_time_of_day" -> {Field("time_of_day", 0, 0, 64)}
    [] OTHER -> {}]

Response == [c \in Calls |->
  CASE c = "create"  -> {Field("obj_id", 0, 0, 32)}
    [] c = "get_irq_enable" -> {Field("en", 0, 0, 8)}
    [] c = "get_irq_mask"   -> {Field("mask", 0, 0, 32)}
    [] c = "get_irq_status" -> {Field("status", 0, 0, 32)}
    [] c = "get_attributes" -> {IntField("id", 0, 0)}
    [] c = "get_sl_version" -> {Field("major", 0, 0, 32), Field("minor", 0, 32, 32),
                                 Field("revision", 1, 0, 32)}
    [] c = "get_state" -> {Field("state", 0, 0, 32)}
    [] c = "get_time_of_day" -> {Field("time_of_day", 0, 0, 64)}
    [] c = "get_api_version" -> {Field("major", 0, 0, 16), Field("minor", 0, 16, 16)}
    [] OTHER -> {}]

\* dpaiop_open and dpaiop_get_api_version send token 0.
Tokenless == {"open", "get_api_version"}

-----------------------------------------------------------------------------
VARIABLES
  pc,           \* "idle", "prepared", "answered" or "returned"
  call,         \* the dpaiop_ function
  flags, token, \* its cmd_flags and token
  args,         \* its arguments by field name
  header,       \* struct mc_command: the header
  params,       \* and the parameters
  results,      \* what the MC answered, by field name (and "token")
  err,          \* what mc_send_command returned
  out           \* the output parameters, "unset" when not written

vars == <<pc, call, flags, token, args, header, params, results, err, out>>

Params == 0..6                         \* MC_CMD_NUM_OF_PARAMS registers
Names(fields) == {f.name : f \in fields}
Outputs(c) == Names(Response[c]) \cup (IF c = "open" THEN {"token"} ELSE {})
FieldOf(c, o) == CHOOSE f \in Response[c] : f.name = o
Unset(c)   == [o \in Outputs(c) |-> "unset"]

\* An argument as mc_enc receives it: converted to uint64_t.
Passed(f, v) ==
  IF f.ctype = "int" /\ 31 \in v THEN (v \cap Low(32)) \cup (32..63)
                                ELSE v \cap Low(f.width)

\* struct mc_command cmd = { 0 };
Zeroed == [p \in Params |-> {}]

Init ==
  /\ pc = "idle"
  /\ call = "close" /\ flags = {} /\ token = {} /\ args = <<>>
  /\ header = {} /\ params = Zeroed
  /\ results = <<>> /\ err = "0" /\ out = <<>>

\* A dpaiop_ function up to its call of mc_send_command.
Prepare(c, fl, t, a) ==
  /\ pc = "idle"
  /\ pc' = "prepared"
  /\ call' = c /\ flags' = fl /\ token' = t /\ args' = a
  /\ header' = mc_encode_cmd_header(CmdId[c], fl, IF c \in Tokenless THEN {} ELSE t)
  /\ params' = [p \in Params |-> Zeroed[p] \cup
       UNION {mc_enc(f.offset, f.width, Passed(f, a[f.name])) :
                f \in {g \in Request[c] : g.param = p}}]
  /\ out' = Unset(c)
  /\ UNCHANGED <<results, err>>

\* mc_send_command succeeded: the buffer holds the answer of the MC
\* (external), whose other bits are junk.
AnswerOk(r, t, j) ==
  /\ pc = "prepared"
  /\ pc' = "answered"
  /\ results' = [o \in Outputs(call) |-> IF o = "token" THEN t ELSE r[o]]
  /\ header' = (header \ ((16..23) \cup (32..47))) \cup {b + 32 : b \in t}
  /\ params' = [p \in Params |->
       LET own == {f \in Response[call] : f.param = p}
       IN  (j \ UNION {f.offset .. (f.offset + f.width - 1) : f \in own})
             \cup UNION {{b + f.offset : b \in r[f.name] \cap Low(f.width)} : f \in own}]
  /\ err' = "0"
  /\ UNCHANGED <<call, flags, token, args, out>>

\* It failed: only the header of the buffer was overwritten.
AnswerError ==
  /\ pc = "prepared"
  /\ pc' = "answered"
  /\ header' = (header \ (16..23)) \cup {17, 19}
  /\ err' = "EBUSY"
  /\ UNCHANGED <<call, flags, token, args, params, results, out>>

\* if (err) return err;
Failed(e) == e # "0"

\* The rest of the function: nothing on an error, else the results.
Decode ==
  /\ pc = "answered"
  /\ pc' = "returned"
  /\ IF Failed(err)
       THEN UNCHANGED out
       ELSE out' = [o \in Outputs(call) |->
              IF o = "token" THEN ReadToken(header)
              ELSE LET f == FieldOf(call, o)
                   IN  mc_dec(params[f.param], f.offset, f.width)]
  /\ UNCHANGED <<call, flags, token, args, header, params, results, err>>

Return ==
  /\ pc = "returned"
  /\ pc' = "idle"
  /\ call' = "close" /\ flags' = {} /\ token' = {} /\ args' = <<>>
  /\ header' = {} /\ params' = Zeroed
  /\ results' = <<>> /\ err' = "0" /\ out' = <<>>

Next ==
  \/ \E c \in Calls, fl \in Flags, t \in Tokens :
       \E a \in [Names(Request[c]) -> Values] : Prepare(c, fl, t, a)
  \/ \E r \in [Names(Response[call]) -> Values], t \in Tokens, j \in Junk :
       AnswerOk(r, t, j)
  \/ AnswerError
  \/ Decode
  \/ Return

Spec == Init /\ [][Next]_vars

-----------------------------------------------------------------------------
(* Properties                                                               *)

TypeOK ==
  /\ pc \in {"idle", "prepared", "answered", "returned"}
  /\ call \in Calls /\ flags \in SUBSET (0..31) /\ token \in SUBSET (0..15)
  /\ header \in Word /\ params \in [Params -> Word]
  /\ err \in {"0", "EBUSY"}

\* Whatever flags a caller passes, the header submits the command it names
\* to the session of its token: the flags never reach the status, the token
\* or the command id, and no other command has the same id; no word has a bit
\* it has no room for.
HeaderSubmits ==
  /\ TypeOK
  /\ pc = "prepared" =>
       /\ ReadStatus(header) = Ready
       /\ \A c \in Calls : ReadCmdId(header) = CmdId[c] <=> c = call
       /\ ReadToken(header) = IF call \in Tokenless THEN {} ELSE token
       /\ ReadFlags(header) \ (16..23) \subseteq flags

\* Every argument arrives whole in its own bits and nowhere else: no field
\* takes a bit of another, a negative id does not spill into its neighbour, and
\* no bit is left over from before.
ArgsDelivered ==
  pc = "prepared" =>
    /\ \A f \in Request[call], i \in 0..63 :
         i < f.width => (f.offset + i \in params[f.param] <=> i \in args[f.name])
    /\ \A p \in Params : \A b \in params[p] :
         \E f \in Request[call] :
           f.param = p /\ b \in f.offset .. (f.offset + f.width - 1)

\* A call that succeeds returns the values of the MC and nothing of the bits
\* around them; one that fails writes no output parameter.
ResultsReturned ==
  pc = "returned" =>
    \A o \in Outputs(call) :
      out[o] = IF err # "0" THEN "unset"
               ELSE IF o = "token" THEN results[o]
               ELSE results[o] \cap Low(FieldOf(call, o).width)

=============================================================================
