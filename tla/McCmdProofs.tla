---------------------------- MODULE McCmdProofs -----------------------------
(***************************************************************************)
(* Proofs about McCmd, for every set of flags, tokens and values and every  *)
(* content of the bits that belong to no field.  A function of dpaiop.c is  *)
(* a straight line from its arguments to its results, and so is the proof:  *)
(* what the header says once it is encoded (Header), what the parameters    *)
(* say of the arguments (Sent), and what the answer says of the results     *)
(* (Answer).                                                                *)
(***************************************************************************)
EXTENDS McCmd, TLAPS

-----------------------------------------------------------------------------
(* Command ids                                                              *)

LEMMA InBits ==
  ASSUME NEW n \in Nat
  PROVE  /\ 0 \in Bits(n) <=> (n \div 1) % 2 = 1
         /\ 1 \in Bits(n) <=> (n \div 2) % 2 = 1
         /\ 2 \in Bits(n) <=> (n \div 4) % 2 = 1
         /\ 3 \in Bits(n) <=> (n \div 8) % 2 = 1
         /\ 4 \in Bits(n) <=> (n \div 16) % 2 = 1
         /\ 5 \in Bits(n) <=> (n \div 32) % 2 = 1
         /\ 6 \in Bits(n) <=> (n \div 64) % 2 = 1
         /\ 7 \in Bits(n) <=> (n \div 128) % 2 = 1
         /\ 8 \in Bits(n) <=> (n \div 256) % 2 = 1
         /\ 9 \in Bits(n) <=> (n \div 512) % 2 = 1
         /\ 10 \in Bits(n) <=> (n \div 1024) % 2 = 1
         /\ 11 \in Bits(n) <=> (n \div 2048) % 2 = 1
         /\ 12 \in Bits(n) <=> (n \div 4096) % 2 = 1
         /\ 13 \in Bits(n) <=> (n \div 8192) % 2 = 1
         /\ 14 \in Bits(n) <=> (n \div 16384) % 2 = 1
         /\ 15 \in Bits(n) <=> (n \div 32768) % 2 = 1
  BY DEF Bits

\* The bits of each command id of fsl_dpaiop_cmd.h.
LEMMA IdBits ==
  /\ Bits(\h80a1) = {0, 5, 7, 15}
  /\ Bits(\h8001) = {0, 15}
  /\ Bits(\h90a1) = {0, 5, 7, 12, 15}
  /\ Bits(\h98a1) = {0, 5, 7, 11, 12, 15}
  /\ Bits(\ha0a1) = {0, 5, 7, 13, 15}
  /\ Bits(\h0041) = {0, 6}
  /\ Bits(\h0051) = {0, 4, 6}
  /\ Bits(\h0121) = {0, 5, 8}
  /\ Bits(\h0131) = {0, 4, 5, 8}
  /\ Bits(\h0141) = {0, 6, 8}
  /\ Bits(\h0151) = {0, 4, 6, 8}
  /\ Bits(\h0161) = {0, 5, 6, 8}
  /\ Bits(\h0171) = {0, 4, 5, 6, 8}
  /\ Bits(\h2802) = {1, 11, 13}
  /\ Bits(\h2811) = {0, 4, 11, 13}
  /\ Bits(\h2821) = {0, 5, 11, 13}
  /\ Bits(\h2831) = {0, 4, 5, 11, 13}
  /\ Bits(\h2841) = {0, 6, 11, 13}
  /\ Bits(\h2851) = {0, 4, 6, 11, 13}
<1>1. \A n \in Nat : Bits(n) \subseteq 0..15
  BY DEF Bits
<1>2. Bits(\h80a1) = {0, 5, 7, 15}
  BY <1>1, InBits
<1>3. Bits(\h8001) = {0, 15}
  BY <1>1, InBits
<1>4. Bits(\h90a1) = {0, 5, 7, 12, 15}
  BY <1>1, InBits
<1>5. Bits(\h98a1) = {0, 5, 7, 11, 12, 15}
  BY <1>1, InBits
<1>6. Bits(\ha0a1) = {0, 5, 7, 13, 15}
  BY <1>1, InBits
<1>7. Bits(\h0041) = {0, 6}
  BY <1>1, InBits
<1>8. Bits(\h0051) = {0, 4, 6}
  BY <1>1, InBits
<1>9. Bits(\h0121) = {0, 5, 8}
  BY <1>1, InBits
<1>10. Bits(\h0131) = {0, 4, 5, 8}
  BY <1>1, InBits
<1>11. Bits(\h0141) = {0, 6, 8}
  BY <1>1, InBits
<1>12. Bits(\h0151) = {0, 4, 6, 8}
  BY <1>1, InBits
<1>13. Bits(\h0161) = {0, 5, 6, 8}
  BY <1>1, InBits
<1>14. Bits(\h0171) = {0, 4, 5, 6, 8}
  BY <1>1, InBits
<1>15. Bits(\h2802) = {1, 11, 13}
  BY <1>1, InBits
<1>16. Bits(\h2811) = {0, 4, 11, 13}
  BY <1>1, InBits
<1>17. Bits(\h2821) = {0, 5, 11, 13}
  BY <1>1, InBits
<1>18. Bits(\h2831) = {0, 4, 5, 11, 13}
  BY <1>1, InBits
<1>19. Bits(\h2841) = {0, 6, 11, 13}
  BY <1>1, InBits
<1>20. Bits(\h2851) = {0, 4, 6, 11, 13}
  BY <1>1, InBits
<1> QED BY <1>2, <1>3, <1>4, <1>5, <1>6, <1>7, <1>8, <1>9, <1>10, <1>11, <1>12, <1>13, <1>14, <1>15, <1>16, <1>17, <1>18, <1>19, <1>20

LEMMA CallsAre == Calls = {"open", "close", "create", "destroy", "get_api_version", "get_attributes", "reset", "set_irq_enable", "get_irq_enable", "set_irq_mask", "get_irq_mask", "get_irq_status", "clear_irq_status", "load", "run", "get_sl_version", "get_state", "set_time_of_day", "get_time_of_day"}
  BY SMT DEF Calls, CmdId

LEMMA IdsDiffer ==
  /\ \A c \in Calls : CmdId[c] \subseteq 0..15
  /\ \A c, d \in Calls : CmdId[c] = CmdId[d] => c = d
  BY IdBits, CallsAre, SMT DEF CmdId

-----------------------------------------------------------------------------
(* Layouts                                                                  *)

\* A layout has its fields inside the word, apart from each other, and each
\* under a name of its own.
Fits(f) ==
  /\ f.param \in Params
  /\ f.offset \in 0..63 /\ f.width \in 1..64 /\ f.offset + f.width <= 64
  /\ f.ctype = "int" => f.width = 32

Apart(f, g) ==
  f.param = g.param => \/ f.offset + f.width <= g.offset
                       \/ g.offset + g.width <= f.offset

LayoutOK(layout) ==
  /\ \A f \in layout : Fits(f)
  /\ \A f, g \in layout : f # g => Apart(f, g) /\ f.name # g.name

LEMMA RequestLayouts ==
  ASSUME NEW c \in Calls
  PROVE  LayoutOK(Request[c])
<1> USE DEF LayoutOK, Fits, Apart, Request, Field, IntField, irq_index, Params
<1>1. CASE c = "open"
  BY <1>1
<1>2. CASE c = "create"
  BY <1>2
<1>3. CASE c = "destroy"
  BY <1>3
<1>4. CASE c = "set_irq_enable"
  BY <1>4
<1>5. CASE c = "set_irq_mask"
  BY <1>5
<1>6. CASE c \in {"get_irq_enable", "get_irq_mask"}
  BY <1>6
<1>7. CASE c \in {"get_irq_status", "clear_irq_status"}
  BY <1>7
<1>8. CASE c = "load"
  BY <1>8
<1>9. CASE c = "run"
  BY <1>9
<1>10. CASE c = "set_time_of_day"
  BY <1>10
<1>11. CASE c \notin {"open", "create", "destroy", "set_irq_enable", "set_irq_mask",
                     "get_irq_enable", "get_irq_mask", "get_irq_status",
                     "clear_irq_status", "load", "run", "set_time_of_day"}
  <2>1. Request[c] = {}
    BY <1>11
  <2> QED BY <2>1
<1> QED BY <1>1, <1>2, <1>3, <1>4, <1>5, <1>6, <1>7, <1>8, <1>9, <1>10, <1>11

LEMMA ResponseLayouts ==
  ASSUME NEW c \in Calls
  PROVE  LayoutOK(Response[c]) /\ \A f \in Response[c] : f.name # "token"
<1> USE DEF LayoutOK, Fits, Apart, Response, Field, IntField, Params
<1>1. CASE c = "create"
  BY <1>1
<1>2. CASE c = "get_irq_enable"
  BY <1>2
<1>3. CASE c = "get_irq_mask"
  BY <1>3
<1>4. CASE c = "get_irq_status"
  BY <1>4
<1>5. CASE c = "get_attributes"
  BY <1>5
<1>6. CASE c = "get_sl_version"
  BY <1>6
<1>7. CASE c = "get_state"
  BY <1>7
<1>8. CASE c = "get_time_of_day"
  BY <1>8
<1>9. CASE c = "get_api_version"
  BY <1>9
<1>10. CASE c \notin {"create", "get_irq_enable", "get_irq_mask", "get_irq_status",
                     "get_attributes", "get_sl_version", "get_state",
                     "get_time_of_day", "get_api_version"}
  <2>1. Response[c] = {}
    BY <1>10
  <2> QED BY <2>1
<1> QED BY <1>1, <1>2, <1>3, <1>4, <1>5, <1>6, <1>7, <1>8, <1>9, <1>10

-----------------------------------------------------------------------------
(* Bit fields                                                               *)

\* mc_encode_cmd_header and the mc_cmd_hdr_read functions: whatever flags come
\* in, the status, the token and the id come out.
LEMMA HeaderFields ==
  ASSUME NEW c \in Calls, NEW fl \in SUBSET (0..31), NEW t \in SUBSET (0..15)
  PROVE  LET h == mc_encode_cmd_header(CmdId[c], fl, t)
         IN  /\ h \in Word
             /\ ReadStatus(h) = Ready
             /\ ReadCmdId(h) = CmdId[c]
             /\ ReadToken(h) = t
             /\ ReadFlags(h) \ (16..23) \subseteq fl
<1> DEFINE h == mc_encode_cmd_header(CmdId[c], fl, t)
<1>1. CmdId[c] \in SUBSET (0..15)
  BY IdsDiffer
<1> DEFINE id == CmdId[c]
<1> HIDE DEF id
<1>2. \A b \in 0..63 : b \in h <=> \/ b - 48 \in id
                                  \/ b \in fl \cap FlagsMask
                                  \/ b - 32 \in t
                                  \/ b = 16
  BY <1>1 DEF id, mc_encode_cmd_header, mc_enc, Low, Ready, FlagsMask
<1>3. h \in Word
  BY DEF mc_encode_cmd_header, mc_enc, Word
<1> HIDE DEF h
<1>4. ReadStatus(h) = Ready
  BY <1>1, <1>2 DEF id, ReadStatus, mc_dec, Low, Ready, FlagsMask
<1>5. ReadCmdId(h) = id
  BY <1>1, <1>2 DEF id, ReadCmdId, mc_dec, Low, FlagsMask
<1>6. ReadToken(h) = t
  <2>1. ASSUME NEW b \in 0..15
        PROVE  b + 32 \in h <=> b \in t
    <3>1. /\ b + 32 \in 0..63 /\ (b + 32) - 32 = b /\ b + 32 # 16
          /\ (b + 32) - 48 \notin 0..15 /\ b + 32 \notin 0..31
      OBVIOUS
    <3> QED BY <1>1, <1>2, <3>1 DEF id
  <2>2. ReadToken(h) = {b \in 0..15 : b + 32 \in h}
    BY DEF ReadToken, mc_dec, Low
  <2>3. {b \in 0..15 : b + 32 \in h} = {b \in 0..15 : b \in t}
    BY <2>1
  <2> QED BY <2>2, <2>3
<1>7. ReadFlags(h) \ (16..23) \subseteq fl
  BY <1>1, <1>2 DEF id, ReadFlags, mc_dec, Low, FlagsMask
<1> QED BY <1>3, <1>4, <1>5, <1>6, <1>7 DEF h, id

\* mc_enc puts a value into the bits of its field, whole, and into no other,
\* also a negative one that was sign-extended.
LEMMA Encoded ==
  ASSUME NEW f, Fits(f), NEW v \in Word
  PROVE  /\ \A i \in 0..63 : i < f.width =>
              (f.offset + i \in mc_enc(f.offset, f.width, Passed(f, v)) <=> i \in v)
         /\ \A b \in mc_enc(f.offset, f.width, Passed(f, v)) :
              b \in 0..63 /\ b \in f.offset .. (f.offset + f.width - 1)
<1> DEFINE w == Passed(f, v)
<1>1. \A i \in 0..63 : i < f.width => (i \in w <=> i \in v)
  BY DEF Passed, Low, Fits, Word
<1> HIDE DEF w
<1>2. \A i \in 0..63 : i < f.width =>
        (f.offset + i \in mc_enc(f.offset, f.width, w) <=> i \in v)
  <2> SUFFICES ASSUME NEW i \in 0..63, i < f.width
               PROVE  f.offset + i \in mc_enc(f.offset, f.width, w) <=> i \in w
    BY <1>1
  <2>1. f.offset + i \in 0..63 /\ (f.offset + i) - f.offset = i
    BY DEF Fits
  <2> QED BY <2>1 DEF mc_enc, Low
<1>3. ASSUME NEW b \in mc_enc(f.offset, f.width, w)
      PROVE  b \in 0..63 /\ b \in f.offset .. (f.offset + f.width - 1)
  <2>1. b \in 0..63 /\ b - f.offset \in 0..63 /\ b - f.offset < f.width
    BY DEF mc_enc, Low
  <2>2. f.offset \in Int /\ f.width \in Int
    BY DEF Fits
  <2> QED BY <2>1, <2>2
<1> QED BY <1>2, <1>3 DEF w

\* mc_dec takes the bits of a field and nothing of those around it.
LEMMA Decoded ==
  ASSUME NEW f, Fits(f), NEW word, NEW v \in Word,
         \A i \in 0..63 : i < f.width => (f.offset + i \in word <=> i \in v)
  PROVE  mc_dec(word, f.offset, f.width) = v \cap Low(f.width)
<1>1. \A i \in 0..63 : i + f.offset = f.offset + i
  BY DEF Fits
<1> QED BY <1>1 DEF mc_dec, Low, Word

LEMMA FitsInt ==
  ASSUME NEW f, Fits(f)
  PROVE  f.offset \in 0..63 /\ f.width \in 1..64 /\ f.offset + f.width <= 64
  BY DEF Fits

\* Fields that are apart share no bit.
LEMMA NoSharedBit ==
  ASSUME NEW layout, LayoutOK(layout), NEW f \in layout, NEW g \in layout,
         f.param = g.param, NEW b \in Int,
         b \in f.offset .. (f.offset + f.width - 1),
         b \in g.offset .. (g.offset + g.width - 1)
  PROVE  f = g
<1>1. /\ f.offset \in 0..63 /\ f.width \in 1..64
      /\ g.offset \in 0..63 /\ g.width \in 1..64
  BY FitsInt, Zenon DEF LayoutOK
<1>2. ASSUME NEW k \in Int, NEW m \in Int, NEW l \in Int, NEW n \in Int,
             b \in k .. (k + m - 1), b \in l .. (l + n - 1)
      PROVE  ~(k + m <= l \/ l + n <= k)
  BY <1>2
<1>3. ~Apart(f, g)
  <2>1. /\ f.offset \in Int /\ f.width \in Int /\ g.offset \in Int /\ g.width \in Int
    BY <1>1
  <2>2. ~(f.offset + f.width <= g.offset \/ g.offset + g.width <= f.offset)
    BY <1>2, <2>1, Zenon
  <2> QED BY <2>2, Zenon DEF Apart
<1> QED BY <1>3, Zenon DEF LayoutOK

-----------------------------------------------------------------------------
(* The invariant                                                            *)

\* No output parameter was written yet.
Unwritten == pc \in {"prepared", "answered"} => out = Unset(call)

\* A successful answer holds every result in the bits of its field.
Answer ==
  pc = "answered" /\ err = "0" =>
    /\ \A f \in Response[call] :
         /\ results[f.name] \in Word
         /\ \A i \in 0..63 :
              i < f.width => (f.offset + i \in params[f.param] <=> i \in results[f.name])
    /\ call = "open" => ReadToken(header) = results["token"]

Inv == HeaderSubmits /\ ArgsDelivered /\ Unwritten /\ Answer /\ ResultsReturned

LEMMA InvInit == Init => Inv
<1> SUFFICES ASSUME Init
             PROVE  Inv
  OBVIOUS
<1>1. TypeOK
  BY CallsAre DEF Init, TypeOK, Word, Zeroed
<1> QED BY <1>1
        DEF Init, Inv, HeaderSubmits, ArgsDelivered, Unwritten, Answer, ResultsReturned

LEMMA InvPrepare ==
  ASSUME Inv, NEW c \in Calls, NEW fl \in Flags, NEW t \in Tokens,
         NEW a \in [Names(Request[c]) -> Values], Prepare(c, fl, t, a)
  PROVE  Inv'
<1> DEFINE tok == IF c \in Tokenless THEN {} ELSE t
           own(f) == mc_enc(f.offset, f.width, Passed(f, a[f.name]))
<1>1. /\ pc' = "prepared" /\ call' = c /\ flags' = fl /\ token' = t /\ args' = a
      /\ header' = mc_encode_cmd_header(CmdId[c], fl, tok)
      /\ out' = Unset(c) /\ UNCHANGED <<results, err>>
  BY DEF Prepare
<1>2. \A p \in Params :
        params'[p] = UNION {own(f) : f \in {g \in Request[c] : g.param = p}}
  BY DEF Prepare, Zeroed
<1>3. fl \in SUBSET (0..31) /\ t \in SUBSET (0..15) /\ tok \in SUBSET (0..15)
  BY FlagsAssumption, TokensAssumption
<1>4. LayoutOK(Request[c]) /\ \A f \in Request[c] : Fits(f) /\ a[f.name] \in Word
  BY RequestLayouts, ValuesAssumption DEF LayoutOK, Names
<1>5. \A f \in Request[c] :
        /\ \A i \in 0..63 : i < f.width => (f.offset + i \in own(f) <=> i \in a[f.name])
        /\ \A b \in own(f) : b \in 0..63 /\ b \in f.offset .. (f.offset + f.width - 1)
  BY <1>4, Encoded
<1> HIDE DEF own, tok
<1>6. TypeOK'
  <2>1. params' \in [Params -> Word]
    <3>1. DOMAIN params' = Params /\ params' = [p \in Params |-> params'[p]]
      BY DEF Prepare
    <3>2. \A p \in Params : params'[p] \in Word
      BY <1>2, <1>5 DEF Word
    <3> QED BY <3>1, <3>2
  <2>2. header' \in Word
    BY <1>1, <1>3, HeaderFields
  <2> QED BY <1>1, <1>3, <2>1, <2>2 DEF Inv, HeaderSubmits, TypeOK
<1>7. HeaderSubmits'
  <2>1. /\ ReadStatus(header') = Ready /\ ReadCmdId(header') = CmdId[c]
        /\ ReadToken(header') = tok /\ ReadFlags(header') \ (16..23) \subseteq fl
    BY <1>1, <1>3, HeaderFields
  <2>2. \A d \in Calls : ReadCmdId(header') = CmdId[d] <=> d = c
    BY <2>1, IdsDiffer
  <2> QED BY <1>1, <1>6, <2>1, <2>2 DEF HeaderSubmits, tok
<1>8. ArgsDelivered'
  <2>1. ASSUME NEW f \in Request[c], NEW i \in 0..63, i < f.width
        PROVE  f.offset + i \in params'[f.param] <=> i \in a[f.name]
    <3>1. f.param \in Params /\ f.offset \in Int /\ f.width \in Int
      BY <1>4 DEF Fits
    <3>2. ASSUME NEW g \in Request[c], g.param = f.param, f.offset + i \in own(g)
          PROVE  g = f
      <4>1. f.offset + i \in f.offset .. (f.offset + f.width - 1) /\ f.offset + i \in Int
        BY <2>1, <3>1
      <4> QED BY <1>4, <1>5, <3>2, <4>1, NoSharedBit
    <3>3. f.offset + i \in params'[f.param] <=> f.offset + i \in own(f)
      BY <1>2, <3>1, <3>2
    <3> QED BY <1>5, <2>1, <3>3
  <2>2. ASSUME NEW p \in Params, NEW b \in params'[p]
        PROVE  \E f \in Request[c] :
                 f.param = p /\ b \in f.offset .. (f.offset + f.width - 1)
    BY <1>2, <1>5
  <2> QED BY <1>1, <2>1, <2>2 DEF ArgsDelivered
<1>9. Unwritten' /\ Answer' /\ ResultsReturned'
  BY <1>1 DEF Unwritten, Answer, ResultsReturned
<1> QED BY <1>7, <1>8, <1>9 DEF Inv

\* The token the MC wrote into the header is the one ReadToken finds.
LEMMA TokenOfHeader ==
  ASSUME NEW h, h \subseteq 0..63, NEW t \in SUBSET (0..15)
  PROVE  /\ (h \ ((16..23) \cup (32..47))) \cup {b + 32 : b \in t} \in Word
         /\ ReadToken((h \ ((16..23) \cup (32..47))) \cup {b + 32 : b \in t}) = t
<1> DEFINE w == (h \ ((16..23) \cup (32..47))) \cup {b + 32 : b \in t}
<1>1. w \in Word
  <2>1. \A b \in t : b + 32 \in 0..63
    OBVIOUS
  <2>2. {b + 32 : b \in t} \subseteq 0..63
    BY <2>1
  <2> QED BY <2>2 DEF Word
<1>2. ASSUME NEW b \in 0..15
      PROVE  b + 32 \in w <=> b \in t
  OBVIOUS
<1> HIDE DEF w
<1>3. ReadToken(w) = {b \in 0..15 : b + 32 \in w}
  BY DEF ReadToken, mc_dec, Low
<1>4. {b \in 0..15 : b + 32 \in w} = {b \in 0..15 : b \in t}
  BY <1>2
<1> QED BY <1>1, <1>3, <1>4 DEF w

\* The bits of a value moved up to its field.
LEMMA Placed ==
  ASSUME NEW k \in 0..63, NEW m \in 1..64, k + m <= 64, NEW v
  PROVE  /\ \A b \in {x + k : x \in v \cap Low(m)} : b \in 0..63 /\ b \in k .. (k + m - 1)
         /\ \A i \in 0..63 : i < m =>
              /\ k + i \in Int /\ k + i \in k .. (k + m - 1)
              /\ k + i \in {x + k : x \in v \cap Low(m)} <=> i \in v
<1>1. ASSUME NEW x \in v \cap Low(m)
      PROVE  x + k \in 0..63 /\ x + k \in k .. (k + m - 1)
  BY DEF Low
<1>2. ASSUME NEW i \in 0..63, i < m
      PROVE  /\ k + i \in Int /\ k + i \in k .. (k + m - 1)
             /\ k + i \in {x + k : x \in v \cap Low(m)} <=> i \in v
  <2>1. i \in Low(m) /\ k + i = i + k
    BY <1>2 DEF Low
  <2>2. \A x \in Low(m) : x + k = k + i => x = i
    BY DEF Low
  <2>3. k + i \in {x + k : x \in v \cap Low(m)} <=> i \in v
    BY <2>1, <2>2
  <2> QED BY <1>2, <2>3
<1> QED BY <1>1, <1>2

LEMMA InvAnswerOk ==
  ASSUME Inv, NEW r \in [Names(Response[call]) -> Values], NEW t \in Tokens,
         NEW j \in Junk, AnswerOk(r, t, j)
  PROVE  Inv'
<1> DEFINE own(p) == {f \in Response[call] : f.param = p}
           range(f) == f.offset .. (f.offset + f.width - 1)
           bits(f) == {b + f.offset : b \in r[f.name] \cap Low(f.width)}
<1>1. /\ pc = "prepared" /\ pc' = "answered" /\ err' = "0"
      /\ results' = [o \in Outputs(call) |-> IF o = "token" THEN t ELSE r[o]]
      /\ header' = (header \ ((16..23) \cup (32..47))) \cup {b + 32 : b \in t}
      /\ UNCHANGED <<call, flags, token, args, out>>
  BY DEF AnswerOk
<1>2. \A p \in Params :
        params'[p] = (j \ UNION {range(f) : f \in own(p)}) \cup UNION {bits(f) : f \in own(p)}
  BY DEF AnswerOk
<1>3. call \in Calls /\ header \in Word /\ t \in SUBSET (0..15) /\ j \in Word
  BY TokensAssumption, JunkAssumption DEF Inv, HeaderSubmits, TypeOK
<1>4. /\ LayoutOK(Response[call])
      /\ \A f \in Response[call] : /\ Fits(f) /\ r[f.name] \in Word
                                  /\ f.name # "token" /\ f.name \in Outputs(call)
  BY <1>3, ResponseLayouts, ValuesAssumption DEF LayoutOK, Names, Outputs
<1>5. ASSUME NEW f \in Response[call]
      PROVE  /\ \A b \in bits(f) : b \in 0..63 /\ b \in range(f)
             /\ \A i \in 0..63 : i < f.width =>
                  /\ f.offset + i \in Int /\ f.offset + i \in range(f)
                  /\ f.offset + i \in bits(f) <=> i \in r[f.name]
  <2>1. f.offset \in 0..63 /\ f.width \in 1..64 /\ f.offset + f.width <= 64
    BY <1>4, FitsInt
  <2> QED BY <2>1, Placed, Zenon
<1> HIDE DEF range, bits
<1>6. header' \in Word /\ ReadToken(header') = t
  BY <1>1, <1>3, TokenOfHeader DEF Word
<1>7. params' \in [Params -> Word]
  <2>1. params' = [p \in Params |-> params'[p]]
    BY DEF AnswerOk
  <2>2. ASSUME NEW p \in Params, NEW b \in params'[p]
        PROVE  b \in 0..63
    <3>1. b \in j \/ \E f \in own(p) : b \in bits(f)
      BY <1>2, <2>2
    <3> QED BY <1>3, <1>5, <3>1 DEF Word
  <2>3. \A p \in Params : params'[p] \in Word
    BY <2>2 DEF Word
  <2> QED BY <2>1, <2>3
<1>8. HeaderSubmits'
  BY <1>1, <1>6, <1>7 DEF Inv, HeaderSubmits, TypeOK
<1>9. Answer'
  <2>1. ASSUME NEW f \in Response[call], NEW i \in 0..63, i < f.width
        PROVE  f.offset + i \in params'[f.param] <=> i \in r[f.name]
    <3>1. f.param \in Params /\ f \in own(f.param)
      BY <1>4 DEF Fits
    <3>2. /\ f.offset + i \in Int /\ f.offset + i \in range(f)
          /\ f.offset + i \in bits(f) <=> i \in r[f.name]
      BY <1>5, <2>1
    <3>3. ASSUME NEW g \in own(f.param), f.offset + i \in bits(g)
          PROVE  g = f
      <4>1. f.offset + i \in range(f) /\ f.offset + i \in range(g) /\ f.offset + i \in Int
        BY <1>5, <3>2, <3>3
      <4> QED BY <1>4, <3>3, <4>1, NoSharedBit DEF range
    <3>4. f.offset + i \in UNION {range(g) : g \in own(f.param)}
      BY <3>2, <3>1
    <3>5. f.offset + i \in params'[f.param] <=> f.offset + i \in bits(f)
      BY <1>2, <3>1, <3>3, <3>4
    <3> QED BY <3>2, <3>5
  <2>2. \A f \in Response[call] : results'[f.name] = r[f.name]
    BY <1>1, <1>4
  <2>3. call = "open" => results'["token"] = t
    BY <1>1 DEF Outputs
  <2> QED BY <1>1, <1>4, <1>6, <2>1, <2>2, <2>3 DEF Answer
<1>10. ArgsDelivered' /\ Unwritten' /\ ResultsReturned'
  BY <1>1 DEF Inv, ArgsDelivered, Unwritten, ResultsReturned, Unset, Outputs
<1> QED BY <1>8, <1>9, <1>10 DEF Inv

LEMMA InvAnswerError ==
  ASSUME Inv, AnswerError
  PROVE  Inv'
<1>1. TypeOK'
  BY DEF Inv, HeaderSubmits, TypeOK, AnswerError, Word
<1> QED BY <1>1 DEF AnswerError, Inv, HeaderSubmits, ArgsDelivered, Unwritten, Answer,
                    ResultsReturned, Unset, Outputs

LEMMA InvDecode ==
  ASSUME Inv, Decode
  PROVE  Inv'
<1>1. /\ pc = "answered" /\ pc' = "returned"
      /\ UNCHANGED <<call, flags, token, args, header, params, results, err>>
  BY DEF Decode
<1>2. TypeOK' /\ call \in Calls /\ err \in {"0", "EBUSY"}
  BY <1>1 DEF Inv, HeaderSubmits, TypeOK
<1>3. ResultsReturned'
  <2>1. CASE err # "0"
    <3>1. out' = Unset(call)
      BY <1>1, <2>1 DEF Decode, Failed, Inv, Unwritten
    <3> QED BY <1>1, <2>1, <3>1 DEF ResultsReturned, Unset, Outputs
  <2>2. CASE err = "0"
    <3>1. ASSUME NEW o \in Outputs(call), o # "token"
          PROVE  out'[o] = results[o] \cap Low(FieldOf(call, o).width)
      <4> DEFINE f == FieldOf(call, o)
      <4>1. f \in Response[call] /\ f.name = o
        BY <3>1 DEF Outputs, Names, FieldOf
      <4>2. out'[o] = mc_dec(params[f.param], f.offset, f.width)
        BY <2>2, <3>1 DEF Decode, Failed
      <4> HIDE DEF f
      <4>3. Fits(f)
        BY <1>2, <4>1, ResponseLayouts DEF LayoutOK
      <4>4. /\ results[o] \in Word
            /\ \A i \in 0..63 : i < f.width =>
                 (f.offset + i \in params[f.param] <=> i \in results[o])
        BY <1>1, <2>2, <4>1 DEF Inv, Answer
      <4>5. out'[o] = results[o] \cap Low(f.width)
        BY <4>2, <4>3, <4>4, Decoded
      <4> QED BY <4>5 DEF f
    <3>2. ASSUME NEW o \in Outputs(call), o = "token"
          PROVE  out'[o] = results[o]
      <4>1. call = "open"
        BY <1>2, <3>2, ResponseLayouts DEF Outputs, Names
      <4>2. out'[o] = ReadToken(header)
        BY <2>2, <3>2 DEF Decode, Failed
      <4> QED BY <1>1, <2>2, <3>2, <4>1, <4>2 DEF Inv, Answer
    <3>3. ASSUME NEW o \in Outputs(call)
          PROVE  out'[o] = IF o = "token" THEN results[o]
                   ELSE results[o] \cap Low(FieldOf(call, o).width)
      BY <3>1, <3>2
    <3>4. call' = call /\ results' = results /\ err' = "0"
      BY <1>1, <2>2
    <3> QED BY <3>3, <3>4 DEF ResultsReturned, Outputs
  <2> QED BY <2>1, <2>2
<1> QED BY <1>1, <1>2, <1>3 DEF Inv, HeaderSubmits, ArgsDelivered, Unwritten, Answer

LEMMA InvNext == Inv /\ [Next]_vars => Inv'
<1> SUFFICES ASSUME Inv, [Next]_vars
             PROVE  Inv'
  OBVIOUS
<1>1. CASE Return
  <2>1. TypeOK'
    BY <1>1, CallsAre DEF Return, Inv, HeaderSubmits, TypeOK, Word, Zeroed
  <2> QED BY <1>1, <2>1 DEF Return, Inv, HeaderSubmits, ArgsDelivered, Unwritten,
                            Answer, ResultsReturned
<1>2. CASE UNCHANGED vars
  BY <1>2 DEF vars, Inv, HeaderSubmits, TypeOK, ArgsDelivered, Unwritten, Answer,
              ResultsReturned, Outputs, Unset
<1>3. CASE \E c \in Calls, fl \in Flags, t \in Tokens :
             \E a \in [Names(Request[c]) -> Values] : Prepare(c, fl, t, a)
  BY <1>3, InvPrepare
<1>4. CASE \E r \in [Names(Response[call]) -> Values], t \in Tokens, j \in Junk :
             AnswerOk(r, t, j)
  BY <1>4, InvAnswerOk
<1> QED BY <1>1, <1>2, <1>3, <1>4, InvAnswerError, InvDecode DEF Next

-----------------------------------------------------------------------------
LEMMA Invariance == Spec => []Inv
  BY InvInit, InvNext, PTL DEF Spec

\* mc_encode_cmd_header: for every value of cmd_flags and token the header
\* submits this command, and no other, to the session of the token.
THEOREM Submits == Spec => []HeaderSubmits
  BY Invariance, PTL DEF Inv

\* The MC_CMD_OP layouts of fsl_dpaiop_cmd.h: for all arguments, each is in the
\* command whole, and the command has no other bit.
THEOREM Delivered == Spec => []ArgsDelivered
  BY Invariance, PTL DEF Inv

\* The MC_RSP_OP layouts: for every answer, whatever the bits between the
\* fields hold, a call that succeeds returns the results, and one that fails
\* writes no output parameter.
THEOREM Returned == Spec => []ResultsReturned
  BY Invariance, PTL DEF Inv

=============================================================================
