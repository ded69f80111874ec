--------------------------- MODULE McPortalProofs ---------------------------
(***************************************************************************)
(* The safety of the portal protocol for any number of processes,          *)
(* parameter registers, commands and any set of firmware answers.          *)
(***************************************************************************)
EXTENDS McPortal, TLAPS

\* Words of different commands, and requests and answers, are different.
LEMMA WordFacts ==
  /\ Reset \in Words /\ Reset[2] = 0
  /\ \A n \in Nat : /\ Req(n) \in Words /\ Rsp(n) \in Words
                    /\ Req(n)[2] = n /\ Rsp(n)[2] = n
  /\ \A m, n \in Nat : /\ Req(m) = Req(n) => m = n
                       /\ Rsp(m) = Rsp(n) => m = n
                       /\ Req(m) # Rsp(n) /\ Req(m) # Reset
  /\ \A w \in Words : w[2] \in Nat
  BY DEF Words, Req, Rsp, Reset

LEMMA CommandFacts ==
  /\ NoCommand \in Commands
  /\ \A n \in Nat : Request(n) \in Commands
  BY WordFacts DEF NoCommand, Request, Commands, Headers, Statuses

LEMMA ErrorFacts ==
  /\ mc_status_to_error \in [Statuses -> Errors \cup {"0"}]
  /\ \A s \in Statuses : mc_status_to_error[s] = "0" <=> s = "OK"
  BY DEF mc_status_to_error, Statuses, Errors

-----------------------------------------------------------------------------
LEMMA TypeInit == Init => TypeOK
  BY CommandFacts, WordFacts, MaxCmdsAssumption, NParamsAssumption
     DEF Init, TypeOK, NoCommand, Commands, Headers, Statuses, Regs, Points

LEMMA TypeNext == TypeOK /\ [Next]_vars => TypeOK'
<1> SUFFICES ASSUME TypeOK, [Next]_vars
             PROVE  TypeOK'
  OBVIOUS
<1> USE DEF TypeOK
<1>1. CASE McFetch
  <2>1. [header |-> header, params |-> params] \in Commands
    BY DEF Commands
  <2> QED BY <1>1, <2>1, MaxCmdsAssumption DEF McFetch, hostVars, portalVars
<1>2. ASSUME NEW r \in Regs, McWriteParam(r)
      PROVE  TypeOK'
  <2>1. latched.header.word \in Words
    BY DEF Commands, Headers
  <2>2. Rsp(latched.header.word[2]) \in Words
    BY <2>1, WordFacts
  <2> QED BY <1>2, <2>2 DEF McWriteParam, hostVars
<1>3. CASE McComplete
  <2>1. latched.header.word[2] \in Nat
    BY WordFacts DEF Commands, Headers
  <2>2. header' \in Headers
    BY <1>3, <2>1, RepliesAssumption, WordFacts DEF McComplete, Headers
  <2> QED BY <1>3, <2>2, CommandFacts DEF McComplete, hostVars
<1>4. ASSUME NEW h \in Hosts, Start(h) \/ MapPortal(h) \/ Stop(h) \/ Return(h)
      PROVE  TypeOK'
  <2>1. CASE Start(h)
    BY <2>1 DEF Start, portalVars, mcVars, Points
  <2>2. CASE MapPortal(h)
    BY <2>2 DEF MapPortal, portalVars, mcVars
  <2>3. CASE Stop(h)
    BY <2>3, CommandFacts, MaxCmdsAssumption, NParamsAssumption DEF Stop,
       portalVars, mcVars, Points, Statuses, Regs
  <2>4. CASE Return(h)
    BY <2>4, CommandFacts, MaxCmdsAssumption, NParamsAssumption DEF
       Return, portalVars, mcVars, Points, Statuses, Regs
  <2> QED BY <1>4, <2>1, <2>2, <2>3, <2>4
<1>5. ASSUME NEW h \in Hosts, SendCommand(h) \/ RefuseCommand(h)
      PROVE  TypeOK'
  <2>1. issued + 1 \in 0..MaxCmds /\ Request(issued + 1) \in Commands
    BY <1>5, CommandFacts, MaxCmdsAssumption DEF SendCommand, RefuseCommand
  <2>2. CASE SendCommand(h)
    BY <2>1, <2>2, NParamsAssumption DEF SendCommand, portalVars, mcVars,
       Points, Inside, Writing, Regs
  <2>3. CASE RefuseCommand(h)
    BY <2>1, <2>3 DEF RefuseCommand, portalVars, mcVars, Points, Errors
  <2> QED BY <1>5, <2>2, <2>3
<1>6. ASSUME NEW h \in Hosts, WriteParam(h)
      PROVE  TypeOK'
  <2>1. cmd[h].params[i[h]] \in Words
    BY DEF Commands
  <2>2. params' \in [Regs -> Words]
    BY <1>6, <2>1 DEF WriteParam
  <2>3. i' \in [Hosts -> Regs]
    BY <1>6, NParamsAssumption DEF WriteParam, LastParam, Regs
  <2>4. pc' \in [Hosts -> Points]
    BY <1>6 DEF WriteParam, Points, Inside, Writing
  <2> QED BY <1>6, <2>2, <2>3, <2>4 DEF WriteParam, mcVars
<1>7. ASSUME NEW h \in Hosts, WriteHeaderHigh(h) \/ WriteHeaderLow(h)
      PROVE  TypeOK'
  <2>1. header' \in Headers
    <3>1. cmd[h].header \in Headers
      BY DEF Commands
    <3>2. cmd[h].header.word \in Words /\ cmd[h].header.status \in Statuses
      BY <3>1 DEF Headers
    <3>3. StoreHigh(cmd[h].header) \in Headers /\ StoreLow(cmd[h].header) \in Headers
      BY <3>2 DEF StoreHigh, StoreLow, Headers
    <3> QED BY <1>7, <3>3 DEF WriteHeaderHigh, WriteHeaderLow
  <2>2. pc' \in [Hosts -> Points]
    BY <1>7 DEF WriteHeaderHigh, WriteHeaderLow, Points, Inside, Writing
  <2> QED BY <1>7, <2>1, <2>2 DEF WriteHeaderHigh, WriteHeaderLow, mcVars
<1>8. ASSUME NEW h \in Hosts, Poll(h)
      PROVE  TypeOK'
  <2>1. status' \in [Hosts -> Statuses] /\ pc' \in [Hosts -> Points]
    BY <1>8 DEF Poll, Headers, Points, Inside, Reading
  <2> QED BY <1>8, <2>1 DEF Poll, portalVars, mcVars
<1>9. ASSUME NEW h \in Hosts, ReadHeader(h)
      PROVE  TypeOK'
  <2>1. cmd' = [cmd EXCEPT ![h] = [cmd[h] EXCEPT !.header = header]]
    BY <1>9 DEF ReadHeader
  <2>2. cmd' \in [Hosts -> Commands]
    BY <2>1 DEF Commands
  <2>3. pc' \in [Hosts -> Points]
    BY <1>9 DEF ReadHeader, Points, Inside, Reading
  <2>4. ret' \in [Hosts -> Errors \cup {"0", "none"}]
    <3>1. mc_status_to_error[status[h]] \in Errors \cup {"0", "none"}
      BY ErrorFacts
    <3> QED BY <1>9, <3>1 DEF ReadHeader
  <2> QED BY <1>9, <2>2, <2>3, <2>4, NParamsAssumption
             DEF ReadHeader, portalVars, mcVars, Regs
<1>10. ASSUME NEW h \in Hosts, ReadParam(h)
       PROVE  TypeOK'
  <2>1. cmd' = [cmd EXCEPT ![h] = [cmd[h] EXCEPT !.params =
                                     [cmd[h].params EXCEPT ![i[h]] = params[i[h]]]]]
    BY <1>10 DEF ReadParam
  <2>2. [cmd[h].params EXCEPT ![i[h]] = params[i[h]]] \in [Regs -> Words]
    BY DEF Commands
  <2>3. cmd' \in [Hosts -> Commands]
    BY <2>1, <2>2 DEF Commands
  <2>4. pc' \in [Hosts -> Points]
    BY <1>10 DEF ReadParam, Points
  <2>5. ret' \in [Hosts -> Errors \cup {"0", "none"}]
    <3>1. mc_status_to_error[status[h]] \in Errors \cup {"0", "none"}
      BY ErrorFacts
    <3> QED BY <1>10, <3>1 DEF ReadParam
  <2>6. i' \in [Hosts -> Regs]
    <3>1. i' = IF i[h] = NParams THEN i ELSE [i EXCEPT ![h] = i[h] + 1]
      BY <1>10 DEF ReadParam, LastParam
    <3> QED BY <3>1, NParamsAssumption DEF Regs
  <2>7. UNCHANGED <<portalVars, mcVars, owner, id, status, issued>>
    BY <1>10 DEF ReadParam
  <2> QED BY <2>3, <2>4, <2>5, <2>6, <2>7 DEF portalVars, mcVars
<1>11. CASE UNCHANGED vars
  BY <1>11 DEF vars, portalVars, mcVars, hostVars
<1> QED BY <1>1, <1>2, <1>3, <1>4, <1>5, <1>6, <1>7, <1>8, <1>9, <1>10, <1>11
        DEF Next, McStep, HostStep, CallStep

\* The registers, the firmware and every process keep their types, whatever
\* the number of processes, registers and commands.
THEOREM Typing == Spec => []TypeOK
  BY TypeInit, TypeNext, PTL DEF Spec

-----------------------------------------------------------------------------
LEMMA RequestFacts ==
  \A n \in Nat : /\ Request(n).header.word = Req(n)
                /\ Request(n).header.status = "READY"
                /\ Request(n).params = Fill(Req(n))
                /\ Request(n).header = [word |-> Req(n), status |-> "READY"]
  BY DEF Request, Fill

LEMMA InvInit == Init => Inv
  BY CommandFacts, WordFacts, MaxCmdsAssumption, HostsAssumption
     DEF Init, Inv, Ownership, Numbering, Stored, Submitted, Awaited, Returned,
         NoCommand, Inside, Writing, Reading, Quiet

LEMMA InvMcFetch ==
  ASSUME TypeOK, TypeOK', Inv, McFetch
  PROVE  Inv'
<1>1. Ownership'
  BY DEF Inv, Ownership, McFetch, Quiet, hostVars
<1>2. Numbering'
  BY WordFacts
     DEF TypeOK, Inv, Numbering, Submitted, McFetch, hostVars, portalVars
<1>3. Stored'
  BY DEF Inv, Stored, Ownership, McFetch, Quiet, Inside, Writing, hostVars
<1>4. Submitted'
  <2>1. PICK n \in 1..issued : header.word = Req(n) /\ params = Fill(Req(n)) /\ execs[n] = 0
    BY DEF Inv, Submitted, McFetch
  <2>2. n \in Nat /\ n \in 1..MaxCmds
    BY MaxCmdsAssumption DEF TypeOK
  <2>3. latched' = Request(n)
    BY <2>1 DEF McFetch, Request, Fill, TypeOK, Headers
  <2>4. execs'[n] = 1
    BY <2>1, <2>2 DEF McFetch, TypeOK
  <2> QED BY <2>1, <2>3, <2>4 DEF McFetch, Submitted, portalVars, hostVars
<1>5. Awaited'
  BY DEF Inv, Awaited, Ownership, McFetch, Quiet, Inside, Reading,
         hostVars, portalVars
<1>6. Returned'
  BY WordFacts
     DEF TypeOK, Inv, Returned, Numbering, Submitted, McFetch, hostVars,
         portalVars
<1> QED BY <1>1, <1>2, <1>3, <1>4, <1>5, <1>6 DEF Inv

LEMMA InvMcWriteParam ==
  ASSUME TypeOK, TypeOK', Inv, NEW r \in Regs, McWriteParam(r)
  PROVE  Inv'
<1>1. Ownership'
  BY DEF Inv, Ownership, McWriteParam, Quiet, hostVars
<1>2. Numbering'
  BY DEF Inv, Numbering, McWriteParam, hostVars
<1>3. Stored'
  BY DEF Inv, Stored, Ownership, McWriteParam, Quiet, Inside, hostVars
<1>4. Submitted'
  <2>1. PICK n \in 1..issued : /\ latched = Request(n)
                              /\ header.word = Req(n)
                              /\ execs[n] = 1
                              /\ \A q \in written : params[q] = Rsp(n)
    BY DEF Inv, Submitted, McWriteParam
  <2>2. n \in Nat /\ latched.header.word[2] = n
    <3>1. n \in Nat
      BY DEF TypeOK
    <3> QED BY <2>1, <3>1, RequestFacts, WordFacts
  <2>3. \A q \in written' : params'[q] = Rsp(n)
    BY <2>1, <2>2 DEF McWriteParam, TypeOK
  <2> QED BY <2>1, <2>3 DEF McWriteParam, Submitted, hostVars, Inv
<1>5. Awaited'
  BY DEF Inv, Awaited, Ownership, McWriteParam, Quiet, Inside, Reading, hostVars
<1>6. Returned'
  BY DEF Inv, Returned, McWriteParam, hostVars
<1> QED BY <1>1, <1>2, <1>3, <1>4, <1>5, <1>6 DEF Inv

LEMMA InvMcComplete ==
  ASSUME TypeOK, TypeOK', Inv, McComplete
  PROVE  Inv'
<1>1. Ownership'
  BY DEF Inv, Ownership, McComplete, Quiet, hostVars
<1>2. Numbering'
  BY WordFacts, RequestFacts
     DEF TypeOK, Inv, Numbering, Submitted, McComplete, hostVars, Headers
<1>3. Stored'
  BY DEF Inv, Stored, Ownership, McComplete, Quiet, Inside, hostVars
<1>4. Submitted'
  BY RepliesAssumption DEF McComplete, Submitted, Inv
<1>5. Awaited'
  <2>1. PICK n \in 1..issued : /\ latched = Request(n)
                              /\ header.word = Req(n)
                              /\ execs[n] = 1
                              /\ \A q \in written : params[q] = Rsp(n)
    BY DEF Inv, Submitted, McComplete
  <2>2. n \in Nat /\ latched.header.word[2] = n
    <3>1. n \in Nat
      BY DEF TypeOK
    <3> QED BY <2>1, <3>1, RequestFacts, WordFacts
  <2>3. params = Fill(Rsp(n))
    BY <2>1 DEF McComplete, Fill, TypeOK
  <2>4. header'.word = Rsp(n) /\ header'.status # "READY"
    BY <2>2, RepliesAssumption DEF McComplete
  <2>5. \A h \in Hosts : pc[h] \notin Reading
    BY DEF Inv, Ownership, Quiet, Inside, Reading, McComplete
  <2>6. ASSUME NEW h \in Hosts, pc[h] = "spin"
        PROVE  cmd[h] = Request(id[h]) /\ id[h] = n
    BY <2>1, <2>2, <2>6, WordFacts DEF Inv, Awaited, Quiet, McComplete, TypeOK
  <2> QED BY <2>1, <2>3, <2>4, <2>5, <2>6
          DEF McComplete, Awaited, Answered, Quiet, hostVars, Reading
<1>6. Returned'
  BY WordFacts
     DEF TypeOK, Inv, Returned, McComplete, hostVars, Headers, Commands
<1> QED BY <1>1, <1>2, <1>3, <1>4, <1>5, <1>6 DEF Inv

LEMMA InvStart ==
  ASSUME TypeOK, TypeOK', Inv, NEW h \in Hosts, Start(h)
  PROVE  Inv'
<1>1. Ownership'
  BY DEF Inv, Ownership, Start, Quiet, Inside, Writing, Reading, mcVars,
         portalVars
<1>2. Numbering'
  BY DEF Inv, Numbering, Start, Inside, Writing, Reading, mcVars, portalVars
<1>3. Stored'
  BY DEF Inv, Stored, Start, Writing, mcVars, portalVars
<1>4. Submitted'
  BY DEF Inv, Submitted, Start, mcVars, portalVars
<1>5. Awaited'
  BY DEF Inv, Awaited, Answered, Start, Quiet, Reading, mcVars, portalVars
<1>6. Returned'
  BY DEF Inv, Returned, Start, mcVars, portalVars
<1> QED BY <1>1, <1>2, <1>3, <1>4, <1>5, <1>6 DEF Inv

LEMMA InvMapPortal ==
  ASSUME TypeOK, TypeOK', Inv, NEW h \in Hosts, MapPortal(h)
  PROVE  Inv'
<1>1. Ownership'
  BY HostsAssumption
     DEF Inv, Ownership, MapPortal, Quiet, mcVars, portalVars
<1>2. Numbering'
  BY DEF Inv, Numbering, MapPortal, mcVars, portalVars
<1>3. Stored'
  BY DEF Inv, Stored, MapPortal, mcVars, portalVars
<1>4. Submitted'
  BY DEF Inv, Submitted, MapPortal, mcVars, portalVars
<1>5. Awaited'
  BY DEF Inv, Awaited, Answered, MapPortal, Quiet, mcVars, portalVars
<1>6. Returned'
  BY DEF Inv, Returned, MapPortal, mcVars, portalVars
<1> QED BY <1>1, <1>2, <1>3, <1>4, <1>5, <1>6 DEF Inv

LEMMA InvStop ==
  ASSUME TypeOK, TypeOK', Inv, NEW h \in Hosts, Stop(h)
  PROVE  Inv'
<1>1. Ownership'
  BY HostsAssumption
     DEF TypeOK, Inv, Ownership, Stop, Quiet, Inside, Writing, Reading,
         mcVars, portalVars
<1>2. Numbering'
  BY DEF TypeOK, Inv, Numbering, Stop, Inside, Writing, Reading, mcVars,
         portalVars
<1>3. Stored'
  BY DEF TypeOK, Inv, Stored, Stop, Writing, mcVars, portalVars
<1>4. Submitted'
  BY DEF Inv, Submitted, Stop, mcVars, portalVars
<1>5. Awaited'
  BY DEF TypeOK, Inv, Awaited, Answered, Stop, Quiet, Reading, mcVars,
         portalVars
<1>6. Returned'
  BY DEF TypeOK, Inv, Returned, Stop, mcVars, portalVars
<1> QED BY <1>1, <1>2, <1>3, <1>4, <1>5, <1>6 DEF Inv

LEMMA InvReturn ==
  ASSUME TypeOK, TypeOK', Inv, NEW h \in Hosts, Return(h)
  PROVE  Inv'
<1>1. Ownership'
  BY DEF Inv, Ownership, Return, Quiet, Inside, Writing, Reading, mcVars,
         portalVars
<1>2. Numbering'
  BY DEF TypeOK, Inv, Numbering, Return, Inside, Writing, Reading,
         mcVars, portalVars
<1>3. Stored'
  BY DEF Inv, Stored, Return, Writing, mcVars, portalVars
<1>4. Submitted'
  BY DEF Inv, Submitted, Return, mcVars, portalVars
<1>5. Awaited'
  BY DEF Inv, Awaited, Answered, Return, Quiet, Reading, mcVars, portalVars
<1>6. Returned'
  BY DEF TypeOK, Inv, Returned, Return, mcVars, portalVars
<1> QED BY <1>1, <1>2, <1>3, <1>4, <1>5, <1>6 DEF Inv

LEMMA InvSendCommand ==
  ASSUME TypeOK, TypeOK', Inv, NEW h \in Hosts, SendCommand(h)
  PROVE  Inv'
<1>1. Ownership'
  BY DEF Inv, Ownership, SendCommand, Mapped, Quiet, mcVars, portalVars
<1>2. Numbering'
  BY WordFacts
     DEF TypeOK, Inv, Numbering, SendCommand, mcVars, portalVars, Headers
<1>3. Stored'
  BY DEF TypeOK, Inv, Stored, Ownership, Numbering, SendCommand, Mapped,
         Inside, mcVars, Regs
<1>4. Submitted'
  BY DEF Inv, Submitted, Ownership, SendCommand, Mapped, Quiet, mcVars, portalVars
<1>5. Awaited'
  <2>1. \A g \in Hosts : pc'[g] = IF g = h THEN "wparam" ELSE pc[g]
    BY DEF TypeOK, SendCommand
  <2>2. \A g \in Hosts : g # h => pc[g] \notin Inside
    BY DEF Inv, Ownership, SendCommand, Mapped
  <2> QED BY <2>1, <2>2 DEF Awaited, Inside, Reading
<1>6. Returned'
  BY DEF Inv, Returned, SendCommand, mcVars, portalVars
<1> QED BY <1>1, <1>2, <1>3, <1>4, <1>5, <1>6 DEF Inv

LEMMA InvRefuseCommand ==
  ASSUME TypeOK, TypeOK', Inv, NEW h \in Hosts, RefuseCommand(h)
  PROVE  Inv'
<1>1. Ownership'
  BY DEF Inv, Ownership, RefuseCommand, Quiet, Inside, Writing, Reading,
         mcVars, portalVars
<1>2. Numbering'
  BY WordFacts
     DEF TypeOK, Inv, Numbering, RefuseCommand, mcVars, portalVars, Headers
<1>3. Stored'
  BY DEF TypeOK, Inv, Stored, Numbering, RefuseCommand, mcVars, portalVars
<1>4. Submitted'
  BY DEF TypeOK, Inv, Submitted, Ownership, RefuseCommand, mcVars,
         portalVars, Commands
<1>5. Awaited'
  BY DEF Inv, Awaited, Answered, RefuseCommand, Quiet, Reading, mcVars,
         portalVars
<1>6. Returned'
  BY WordFacts
     DEF TypeOK, Inv, Returned, Numbering, RefuseCommand, mcVars, portalVars
<1> QED BY <1>1, <1>2, <1>3, <1>4, <1>5, <1>6 DEF Inv

LEMMA InvWriteParam ==
  ASSUME TypeOK, TypeOK', Inv, NEW h \in Hosts, WriteParam(h)
  PROVE  Inv'
<1>1. Ownership'
  BY DEF Inv, Ownership, WriteParam, Quiet, Inside, Writing, mcVars
<1>2. Numbering'
  BY DEF Inv, Numbering, WriteParam, Inside, Writing, mcVars
<1>3. Stored'
  <2>1. owner = h /\ \A g \in Hosts : g # h => pc[g] \notin Writing
    BY DEF Inv, Ownership, WriteParam, Inside, Writing
  <2>2. cmd[h].params[i[h]] = Req(id[h])
    <3>1. cmd[h] = Request(id[h]) /\ id[h] \in Nat /\ i[h] \in Regs
      BY MaxCmdsAssumption DEF Inv, Stored, Writing, TypeOK, WriteParam
    <3>2. cmd[h].params = Fill(Req(id[h]))
      BY <3>1, RequestFacts
    <3> QED BY <3>1, <3>2 DEF Fill
  <2>3. \A r \in Regs : r < i[h] \/ r = i[h] => params'[r] = Req(id[h])
    BY <2>2 DEF Inv, Stored, WriteParam, Writing, TypeOK
  <2>4. CASE i[h] = NParams
    <3>1. params' = Fill(Req(id[h]))
      BY <2>3, <2>4, NParamsAssumption DEF Fill, Regs, TypeOK
    <3> QED BY <2>1, <2>4, <3>1
               DEF Inv, Stored, WriteParam, LastParam, Writing, mcVars, TypeOK
  <2>5. CASE i[h] # NParams
    <3>1. \A r \in Regs : r < i'[h] => params'[r] = Req(id[h])
      BY <2>3, <2>5, NParamsAssumption DEF WriteParam, LastParam, Regs, TypeOK
    <3> QED BY <2>1, <2>5, <3>1
               DEF Inv, Stored, WriteParam, LastParam, Writing, mcVars, TypeOK
  <2> QED BY <2>4, <2>5
<1>4. Submitted'
  BY DEF Inv, Submitted, Ownership, WriteParam, Quiet, Inside, Writing, mcVars
<1>5. Awaited'
  BY DEF Inv, Awaited, Ownership, WriteParam, Inside, Writing, Reading
<1>6. Returned'
  BY DEF Inv, Returned, WriteParam, mcVars
<1> QED BY <1>1, <1>2, <1>3, <1>4, <1>5, <1>6 DEF Inv

LEMMA InvWriteHeaderHigh ==
  ASSUME TypeOK, TypeOK', Inv, NEW h \in Hosts, WriteHeaderHigh(h)
  PROVE  Inv'
<1>1. Ownership'
  BY DEF Inv, Ownership, WriteHeaderHigh, StoreHigh, Quiet, Inside,
         Writing, mcVars
<1>2. Numbering'
  <2>1. header'.word = Req(id[h]) /\ id[h] \in Nat
    <3>1. cmd[h] = Request(id[h]) /\ id[h] \in Nat
      BY MaxCmdsAssumption DEF Inv, Stored, Writing, TypeOK, WriteHeaderHigh
    <3> QED BY <3>1, RequestFacts
               DEF WriteHeaderHigh, StoreHigh, TypeOK, Headers
  <2> QED BY <2>1, WordFacts
             DEF Inv, Numbering, WriteHeaderHigh, mcVars, TypeOK, Inside,
                 Writing
<1>3. Stored'
  <2>1. header'.word = Req(id[h])
    <3>1. cmd[h] = Request(id[h]) /\ id[h] \in Nat
      BY MaxCmdsAssumption DEF Inv, Stored, Writing, TypeOK, WriteHeaderHigh
    <3> QED BY <3>1, RequestFacts
               DEF WriteHeaderHigh, StoreHigh, TypeOK, Headers
  <2>2. \A g \in Hosts : g # h => pc[g] \notin Writing
    BY DEF Inv, Ownership, WriteHeaderHigh, Inside, Writing
  <2> QED BY <2>1, <2>2
             DEF Inv, Stored, WriteHeaderHigh, Writing, mcVars, TypeOK
<1>4. Submitted'
  BY DEF Inv, Submitted, Ownership, WriteHeaderHigh, StoreHigh, Quiet,
         Inside, Writing, mcVars
<1>5. Awaited'
  BY DEF Inv, Awaited, Ownership, WriteHeaderHigh, Inside, Writing, Reading
<1>6. Returned'
  <2>1. header'.word = Req(id[h]) /\ id[h] \in Nat
    <3>1. cmd[h] = Request(id[h]) /\ id[h] \in Nat
      BY MaxCmdsAssumption DEF Inv, Stored, Writing, TypeOK, WriteHeaderHigh
    <3> QED BY <3>1, RequestFacts
               DEF WriteHeaderHigh, StoreHigh, TypeOK, Headers
  <2>2. \A g \in Hosts : pc[g] = "return" => id[g] # id[h] /\ id[g] \in Nat
    BY MaxCmdsAssumption DEF Inv, Numbering, WriteHeaderHigh, Inside,
       Writing, TypeOK
  <2> QED BY <2>1, <2>2, WordFacts
             DEF Inv, Returned, WriteHeaderHigh, mcVars, TypeOK
<1> QED BY <1>1, <1>2, <1>3, <1>4, <1>5, <1>6 DEF Inv

LEMMA InvWriteHeaderLow ==
  ASSUME TypeOK, TypeOK', Inv, NEW h \in Hosts, WriteHeaderLow(h)
  PROVE  Inv'
<1>1. Ownership'
  BY DEF TypeOK, Inv, Ownership, WriteHeaderLow, Inside, Writing
<1>2. Numbering'
  BY DEF Inv, Numbering, WriteHeaderLow, StoreLow, Inside, Writing, mcVars
<1>3. Stored'
  BY DEF TypeOK, Inv, Stored, Ownership, WriteHeaderLow, Inside, Writing
<1>4. Submitted'
  BY DEF Inv, Submitted, Ownership, Numbering, Stored, WriteHeaderLow,
         StoreLow, Quiet, Inside, Writing, mcVars
<1>5. Awaited'
  <2>1. header'.status = "READY" /\ header'.word = Req(id[h])
    <3>1. cmd[h] = Request(id[h]) /\ id[h] \in Nat /\ header.word = Req(id[h])
      BY MaxCmdsAssumption DEF Inv, Stored, Writing, TypeOK, WriteHeaderLow
    <3> QED BY <3>1, RequestFacts DEF WriteHeaderLow, StoreLow, TypeOK, Headers
  <2>2. \A g \in Hosts : g # h => pc[g] \notin Inside
    BY DEF Inv, Ownership, WriteHeaderLow, Inside, Writing
  <2>3. cmd[h] = Request(id[h])
    BY DEF Inv, Stored, WriteHeaderLow, Writing
  <2> QED BY <2>1, <2>2, <2>3
             DEF Inv, Awaited, Quiet, WriteHeaderLow, Inside, Reading, TypeOK
<1>6. Returned'
  BY DEF Inv, Returned, WriteHeaderLow, StoreLow, mcVars
<1> QED BY <1>1, <1>2, <1>3, <1>4, <1>5, <1>6 DEF Inv

LEMMA InvPoll ==
  ASSUME TypeOK, TypeOK', Inv, NEW h \in Hosts, Poll(h)
  PROVE  Inv'
<1>1. Ownership'
  <2>1. header.status # "READY" => mc = "idle"
    BY DEF Inv, Submitted, TypeOK
  <2> QED BY <2>1
             DEF Inv, Ownership, Poll, Pending, Quiet, Inside, Reading,
                 TypeOK, portalVars, mcVars
<1>2. Numbering'
  BY DEF Inv, Numbering, Poll, Inside, mcVars, portalVars
<1>3. Stored'
  BY DEF Inv, Stored, Ownership, Poll, Inside, Writing
<1>4. Submitted'
  BY DEF Inv, Submitted, Poll, mcVars, portalVars
<1>5. Awaited'
  <2>1. header.status # "READY" => Quiet
    BY DEF Inv, Submitted, Quiet, TypeOK
  <2>2. \A g \in Hosts : g # h => pc[g] \notin Inside
    BY DEF Inv, Ownership, Poll, Inside
  <2>3. cmd[h] = Request(id[h]) /\ (IF Quiet THEN Answered(h) ELSE header.word = Req(id[h]))
    BY DEF Inv, Awaited, Poll
  <2>4. UNCHANGED <<portalVars, mcVars, cmd, id>> /\ UNCHANGED Quiet
    BY DEF Poll, portalVars, mcVars, Quiet
  <2>5. Answered(h)' = Answered(h)
    BY <2>4 DEF Answered, portalVars, mcVars
  <2>6. CASE header.status = "READY"
    <3>1. pc' = pc
      BY <2>6 DEF Poll, Pending, TypeOK
    <3> QED BY <2>2, <2>3, <2>4, <2>5, <3>1
            DEF Poll, Awaited, Inside, Reading, portalVars
  <2>7. CASE header.status # "READY"
    <3>1. pc'[h] = "rheader" /\ status'[h] = header.status
      BY <2>7 DEF Poll, Pending, TypeOK
    <3>2. \A g \in Hosts : g # h => pc'[g] \notin Inside
      BY <2>2 DEF Poll, TypeOK
    <3> QED BY <2>1, <2>3, <2>4, <2>5, <2>7, <3>1, <3>2
            DEF Awaited, Inside, Reading, portalVars
  <2> QED BY <2>6, <2>7
<1>6. Returned'
  BY DEF Inv, Returned, Poll, mcVars, portalVars
<1> QED BY <1>1, <1>2, <1>3, <1>4, <1>5, <1>6 DEF Inv

LEMMA InvReadHeader ==
  ASSUME TypeOK, TypeOK', Inv, NEW h \in Hosts, ReadHeader(h)
  PROVE  Inv'
<1>1. Ownership'
  BY DEF TypeOK, Inv, Ownership, ReadHeader, Quiet, Inside, Reading,
         mcVars, portalVars
<1>2. Numbering'
  BY DEF TypeOK, Inv, Numbering, ReadHeader, Inside, Reading, mcVars, portalVars
<1>3. Stored'
  BY DEF TypeOK, Inv, Stored, Ownership, ReadHeader, Inside, Writing, Reading
<1>4. Submitted'
  BY DEF Inv, Submitted, ReadHeader, mcVars, portalVars
<1>5. Awaited'
  BY DEF TypeOK, Inv, Awaited, Answered, ReadHeader, HasData, Quiet,
         Reading, mcVars, portalVars, Regs
<1>6. Returned'
  <2>1. /\ header = [word |-> Rsp(id[h]), status |-> status[h]]
        /\ execs[id[h]] = 1
        /\ cmd[h] = Request(id[h])
        /\ header.status # "READY"
    BY DEF Inv, Awaited, Answered, Ownership, Quiet, ReadHeader, Inside,
       Reading, TypeOK, Headers
  <2>2. id[h] \in Nat
    BY MaxCmdsAssumption DEF TypeOK
  <2>3. cmd'[h] = [Request(id[h]) EXCEPT !.header = header]
    BY <2>1 DEF ReadHeader, TypeOK
  <2>4. cmd'[h].header = header /\ cmd'[h].params = Fill(Req(id[h]))
    BY <2>2, <2>3, RequestFacts, CommandFacts DEF Commands
  <2>5. \A g \in Hosts : g # h => cmd'[g] = cmd[g] /\ pc'[g] = pc[g] /\ ret'[g] = ret[g]
    BY DEF ReadHeader, TypeOK
  <2>6. UNCHANGED <<portalVars, mcVars, id, status>>
    BY DEF ReadHeader
  <2>7. pc'[h] = "return" => /\ header.status # "OK"
                            /\ ret'[h] = mc_status_to_error[status[h]]
    BY DEF ReadHeader, HasData, TypeOK
  <2> QED BY <2>1, <2>4, <2>5, <2>6, <2>7 DEF Inv, Returned, portalVars, mcVars
<1> QED BY <1>1, <1>2, <1>3, <1>4, <1>5, <1>6 DEF Inv

LEMMA InvReadParam ==
  ASSUME TypeOK, TypeOK', Inv, NEW h \in Hosts, ReadParam(h)
  PROVE  Inv'
<1>1. Ownership'
  BY DEF TypeOK, Inv, Ownership, ReadParam, Quiet, Inside, Reading,
         mcVars, portalVars
<1>2. Numbering'
  BY DEF TypeOK, Inv, Numbering, ReadParam, Inside, Reading, mcVars, portalVars
<1>3. Stored'
  BY DEF TypeOK, Inv, Stored, Ownership, ReadParam, Inside, Writing, Reading
<1>4. Submitted'
  BY DEF Inv, Submitted, ReadParam, mcVars, portalVars
<1>5. Awaited'
  <2>1. /\ header = [word |-> Rsp(id[h]), status |-> "OK"]
        /\ status[h] = "OK"
        /\ Answered(h)
        /\ cmd[h].header = header
        /\ \A r \in Regs : r < i[h] => cmd[h].params[r] = Rsp(id[h])
    BY DEF Inv, Awaited, Answered, ReadParam, Reading, TypeOK, Headers
  <2>2. cmd'[h] = [cmd[h] EXCEPT !.params = [cmd[h].params EXCEPT ![i[h]] = params[i[h]]]]
    BY DEF ReadParam, TypeOK
  <2>3. cmd'[h].header = header
    BY <2>1, <2>2 DEF TypeOK, Commands
  <2>4. /\ cmd'[h].params = [cmd[h].params EXCEPT ![i[h]] = params[i[h]]]
        /\ cmd[h].params \in [Regs -> Words]
        /\ i[h] \in Regs
    BY <2>2 DEF TypeOK, Commands
  <2>5. params[i[h]] = Rsp(id[h])
    BY <2>1, <2>4 DEF Answered, Fill
  <2>6. \A r \in Regs : r < i[h] \/ r = i[h] => cmd'[h].params[r] = Rsp(id[h])
    BY <2>1, <2>4, <2>5
  <2>7. UNCHANGED <<portalVars, mcVars, owner, id, status>>
    BY DEF ReadParam

  <2>8. \A g \in Hosts : g # h => pc'[g] \notin Inside
    BY DEF Inv, Ownership, ReadParam, Inside, Reading, TypeOK
  <2>9. pc'[h] = "return" \/ (pc'[h] = "rparam" /\ i'[h] = i[h] + 1)
    BY DEF ReadParam, TypeOK
  <2>10. Answered(h)'
    BY <2>1, <2>7 DEF Answered, portalVars, mcVars
  <2>11. pc'[h] = "rparam" => \A r \in Regs : r < i'[h] => cmd'[h].params[r] = Rsp(id[h])
    BY <2>6, <2>9, <2>4 DEF Regs
  <2>12. header' = header /\ status'[h] = "OK" /\ id' = id
    BY <2>1, <2>7 DEF portalVars
  <2> QED BY <2>1, <2>3, <2>8, <2>9, <2>10, <2>11, <2>12
             DEF Awaited, Inside, Reading
<1>6. Returned'
  <2>1. /\ header = [word |-> Rsp(id[h]), status |-> "OK"]
        /\ status[h] = "OK"
        /\ Answered(h)
        /\ cmd[h].header = header
        /\ \A r \in Regs : r < i[h] => cmd[h].params[r] = Rsp(id[h])
    BY DEF Inv, Awaited, Answered, ReadParam, Reading, TypeOK, Headers
  <2>2. cmd'[h] = [cmd[h] EXCEPT !.params = [cmd[h].params EXCEPT ![i[h]] = params[i[h]]]]
    BY DEF ReadParam, TypeOK
  <2>3. cmd'[h].header = header
    BY <2>1, <2>2 DEF TypeOK, Commands
  <2>4. /\ cmd'[h].params = [cmd[h].params EXCEPT ![i[h]] = params[i[h]]]
        /\ cmd[h].params \in [Regs -> Words]
        /\ i[h] \in Regs
    BY <2>2 DEF TypeOK, Commands
  <2>5. params[i[h]] = Rsp(id[h])
    BY <2>1, <2>4 DEF Answered, Fill
  <2>6. \A r \in Regs : r < i[h] \/ r = i[h] => cmd'[h].params[r] = Rsp(id[h])
    BY <2>1, <2>4, <2>5
  <2>7. UNCHANGED <<portalVars, mcVars, owner, id, status>>
    BY DEF ReadParam

  <2>8. \A g \in Hosts : g # h => cmd'[g] = cmd[g] /\ pc'[g] = pc[g] /\ ret'[g] = ret[g]
    BY DEF ReadParam, TypeOK
  <2>9. pc'[h] = "return" => i[h] = NParams /\ ret'[h] = mc_status_to_error[status[h]]
    BY DEF ReadParam, LastParam, TypeOK
  <2>10. i[h] = NParams => cmd'[h].params = Fill(Rsp(id[h]))
    BY <2>4, <2>6, NParamsAssumption DEF Fill, Regs
  <2> QED BY <2>1, <2>3, <2>7, <2>8, <2>9, <2>10
          DEF Inv, Returned, Answered, portalVars, mcVars
<1> QED BY <1>1, <1>2, <1>3, <1>4, <1>5, <1>6 DEF Inv

LEMMA InvNext == TypeOK /\ TypeOK' /\ Inv /\ [Next]_vars => Inv'
<1> SUFFICES ASSUME TypeOK, TypeOK', Inv, [Next]_vars
             PROVE  Inv'
  OBVIOUS
<1>1. CASE McStep
  BY <1>1, InvMcFetch, InvMcWriteParam, InvMcComplete DEF McStep
<1>2. ASSUME NEW h \in Hosts, HostStep(h)
      PROVE  Inv'
  BY <1>2, InvStart, InvMapPortal, InvStop, InvReturn, InvSendCommand,
     InvRefuseCommand, InvWriteParam, InvWriteHeaderHigh, InvWriteHeaderLow,
     InvPoll, InvReadHeader, InvReadParam DEF HostStep, CallStep
<1>3. CASE UNCHANGED vars
  BY <1>3 DEF vars, portalVars, mcVars, hostVars, Inv, Ownership, Numbering,
              Stored, Submitted, Awaited, Answered, Returned, Quiet
<1> QED BY <1>1, <1>2, <1>3 DEF Next

\* The order of the stores and loads keeps the portal consistent at every
\* point where a process may die or the firmware may act.
THEOREM Invariance == Spec => []Inv
<1>1. Init => Inv
  BY InvInit
<1>2. Spec => []TypeOK
  BY Typing
<1> QED BY <1>1, <1>2, InvNext, PTL DEF Spec

-----------------------------------------------------------------------------
LEMMA InvImpliesNoTorn == TypeOK /\ Inv => NoTornCommand
<1> SUFFICES ASSUME TypeOK, Inv, mc = "busy"
             PROVE  \E n \in 1..MaxCmds : latched = Request(n)
  BY DEF NoTornCommand
<1>1. PICK n \in 1..issued : latched = Request(n)
  BY DEF Inv, Submitted
<1>2. n \in 1..MaxCmds
  BY MaxCmdsAssumption DEF TypeOK
<1> QED BY <1>1, <1>2

\* The firmware never takes a mixture of two commands from the portal.
THEOREM NoTorn == Spec => []NoTornCommand
  BY InvImpliesNoTorn, Typing, Invariance, PTL

LEMMA InvImpliesResponse == TypeOK /\ Inv => ResponseIsOwn
<1> SUFFICES ASSUME TypeOK, Inv, NEW h \in Hosts, pc[h] = "return"
             PROVE  IF ret[h] = "0"
                      THEN /\ cmd[h].header = [word |-> Rsp(id[h]), status |-> "OK"]
                           /\ cmd[h].params = Fill(Rsp(id[h]))
                      ELSE cmd[h].params = Fill(Req(id[h]))
  BY DEF ResponseIsOwn, Fill
<1>1. status[h] \in Statuses /\ id[h] \in Nat
  BY MaxCmdsAssumption DEF TypeOK
<1>2. CASE cmd[h] = Request(id[h]) /\ ret[h] = "EACCES"
  BY <1>1, <1>2, RequestFacts
<1>3. CASE /\ cmd[h].header = [word |-> Rsp(id[h]), status |-> status[h]]
           /\ ret[h] = mc_status_to_error[status[h]]
           /\ cmd[h].params = Fill(IF status[h] = "OK" THEN Rsp(id[h]) ELSE Req(id[h]))
  BY <1>1, <1>3, ErrorFacts
<1> QED BY <1>2, <1>3 DEF Inv, Returned

\* A call that returns 0 hands back the whole answer to its own command; a
\* failed one leaves the parameters of its caller.
THEOREM OwnResponse == Spec => []ResponseIsOwn
  BY InvImpliesResponse, Typing, Invariance, PTL

LEMMA InvImpliesStatus == TypeOK /\ Inv => StatusReadsAgree
<1> SUFFICES ASSUME TypeOK, Inv, NEW h \in Hosts, pc[h] \in {"rparam", "return"},
                    cmd[h].header.word # Req(id[h])
             PROVE  cmd[h].header.status = status[h]
  BY DEF StatusReadsAgree
<1>1. id[h] \in Nat
  BY MaxCmdsAssumption DEF TypeOK
<1>2. CASE pc[h] = "rparam"
  BY <1>2 DEF Inv, Awaited, Reading
<1>3. CASE pc[h] = "return"
  <2>1. cmd[h] # Request(id[h])
    BY <1>1, RequestFacts
  <2>2. cmd[h].header = [word |-> Rsp(id[h]), status |-> status[h]]
    BY <1>3, <2>1 DEF Inv, Returned
  <2> QED BY <2>2
<1> QED BY <1>2, <1>3

\* The two reads of the header that mc_send_command decides on agree.
THEOREM StatusAgreement == Spec => []StatusReadsAgree
  BY InvImpliesStatus, Typing, Invariance, PTL

LEMMA InvImpliesOnce == TypeOK /\ Inv => ExecutedOnce
<1> SUFFICES ASSUME TypeOK, Inv
             PROVE  ExecutedOnce
  OBVIOUS
<1>1. \A n \in 1..MaxCmds : execs[n] <= 1
  BY DEF Inv, Numbering
<1>2. ASSUME NEW h \in Hosts, pc[h] = "return"
      PROVE  execs[id[h]] = IF cmd[h].header.word = Req(id[h]) THEN 0 ELSE 1
  <2>1. id[h] \in Nat
    BY MaxCmdsAssumption DEF TypeOK
  <2>2. CASE cmd[h] = Request(id[h]) /\ execs[id[h]] = 0
    BY <2>1, <2>2, RequestFacts
  <2>3. CASE /\ cmd[h].header = [word |-> Rsp(id[h]), status |-> status[h]]
             /\ execs[id[h]] = 1
    <3>1. cmd[h].header.word = Rsp(id[h])
      BY <2>3
    <3> QED BY <2>1, <2>3, <3>1, WordFacts
  <2> QED BY <1>2, <2>2, <2>3 DEF Inv, Returned
<1> QED BY <1>1, <1>2 DEF ExecutedOnce

\* The firmware executes no command twice, and what a returned call says of
\* its command, sent or refused, is what happened to it.
THEOREM OnceOnly == Spec => []ExecutedOnce
  BY InvImpliesOnce, Typing, Invariance, PTL

\* Nobody but the firmware writes a portal that holds a submitted command,
\* and nobody but the process that has it mapped writes one at rest.
THEOREM HandOver == Spec => PortalHandedOver
<1> DEFINE A == /\ header.status = "READY" /\ UNCHANGED mcVars
                     => UNCHANGED portalVars
                /\ mc = "idle" /\ UNCHANGED mcVars /\ portalVars' # portalVars
                     => owner # NoHost /\ pc[owner] \in Writing
<1>1. ASSUME TypeOK, Inv, [Next]_vars
      PROVE  A
  <2>1. CASE McFetch
    BY <2>1 DEF McFetch, portalVars
  <2>2. ASSUME NEW r \in Regs, McWriteParam(r)
        PROVE  A
    BY <2>2 DEF McWriteParam, mcVars
  <2>3. CASE McComplete
    BY <2>3 DEF McComplete, mcVars
  <2>4. ASSUME NEW h \in Hosts,
               WriteParam(h) \/ WriteHeaderHigh(h) \/ WriteHeaderLow(h)
        PROVE  A
    <3>1. pc[h] \in Writing /\ pc[h] # "spin"
      BY <2>4 DEF WriteParam, WriteHeaderHigh, WriteHeaderLow, Writing
    <3>2. owner = h
      BY <1>1, <3>1 DEF Inv, Ownership, Inside
    <3>3. Quiet
      BY <1>1, <3>1, <3>2 DEF Inv, Ownership
    <3> QED BY <3>1, <3>2, <3>3, HostsAssumption DEF Quiet
  <2>5. ASSUME NEW h \in Hosts, HostStep(h),
               ~(WriteParam(h) \/ WriteHeaderHigh(h) \/ WriteHeaderLow(h))
        PROVE  A
    BY <2>5 DEF portalVars, mcVars, HostStep, CallStep, Start, MapPortal, Stop,
                SendCommand, RefuseCommand, Poll, ReadHeader, ReadParam, Return
  <2>6. CASE UNCHANGED vars
    BY <2>6 DEF vars, portalVars
  <2> QED BY <1>1, <2>1, <2>2, <2>3, <2>4, <2>5, <2>6 DEF Next, McStep
<1>2. ASSUME TypeOK, Inv, [Next]_vars
      PROVE  [A]_vars
  BY <1>1, <1>2
<1>3. TypeOK /\ Inv /\ [Next]_vars => [A]_vars
  BY <1>2
<1> QED BY <1>3, Typing, Invariance, PTL DEF Spec, PortalHandedOver

-----------------------------------------------------------------------------
(* The refinement: the stores and loads amount to a remote procedure call.  *)

\* The places of McRpc, and the commands in a call or in the portal.
PhaseOf(q) == CASE q \in Inside  -> "calling"
                [] q = "return" -> "returned"
                [] OTHER        -> q
Phase   == [h \in Hosts |-> PhaseOf(pc[h])]
InCalls == {id[h] : h \in {g \in Hosts : pc[g] \in Inside}}
Waiting == Left \cup (InCalls \ Executed)

\* The mapping by these names.
LEMMA Mapping ==
  /\ Phase = [h \in Hosts |-> CASE pc[h] \in Inside  -> "calling"
                                [] pc[h] = "return" -> "returned"
                                [] OTHER            -> pc[h]]
  /\ Waiting = Left \cup ({id[h] : h \in {g \in Hosts : pc[g] \in Inside}} \ Executed)
  BY DEF Phase, PhaseOf, Waiting, InCalls

LEMMA PhaseStep ==
  ASSUME TypeOK, NEW h \in Hosts, NEW q, pc' = [pc EXCEPT ![h] = q]
  PROVE  Phase' = [Phase EXCEPT ![h] = PhaseOf(q)]
<1>1. \A g \in Hosts : PhaseOf(pc[g])' = IF g = h THEN PhaseOf(q) ELSE PhaseOf(pc[g])
  BY DEF TypeOK, PhaseOf
<1> QED BY <1>1 DEF Phase

\* One process at most is in a call, and the portal then is not left behind.
LEMMA OneInCall ==
  ASSUME TypeOK, Inv, NEW h \in Hosts, pc[h] \in Inside
  PROVE  InCalls = {id[h]} /\ owner = h /\ Left = {}
<1>1. owner = h
  BY DEF Inv, Ownership
<1>2. {g \in Hosts : pc[g] \in Inside} = {h}
  BY <1>1 DEF Inv, Ownership
<1>3. Left = {}
  BY <1>1, HostsAssumption DEF Left
<1> QED BY <1>1, <1>2, <1>3 DEF InCalls

LEMMA NoneInCall ==
  ASSUME TypeOK, Inv, owner = NoHost \/ (owner \in Hosts /\ pc[owner] \notin Inside)
  PROVE  InCalls = {}
<1>1. {g \in Hosts : pc[g] \in Inside} = {}
  BY HostsAssumption DEF Inv, Ownership
<1> QED BY <1>1 DEF InCalls

\* A step that takes the same processes from places to the same places, and
\* executes nothing.
LEMMA RpcStutters ==
  ASSUME TypeOK, UNCHANGED <<owner, id, ret, issued, execs>>, Left' = Left,
         \A g \in Hosts : /\ PhaseOf(pc[g])' = PhaseOf(pc[g])
                          /\ pc'[g] \in Inside <=> pc[g] \in Inside
  PROVE  UNCHANGED Rpc!vars
<1>1. Phase' = Phase
  BY DEF Phase
<1>2. Executed' = Executed
  BY DEF Executed
<1>3. InCalls' = InCalls
  <2>1. {g \in Hosts : pc[g] \in Inside}' = {g \in Hosts : pc[g] \in Inside}
    OBVIOUS
  <2> QED BY <2>1 DEF InCalls
<1>4. Waiting' = Waiting
  BY <1>2, <1>3 DEF Waiting
<1> QED BY <1>1, <1>2, <1>4, Mapping DEF Rpc!vars, Phase, PhaseOf, Waiting, InCalls

\* The firmware takes a command: it is executed.
LEMMA RpcExecute ==
  ASSUME TypeOK, TypeOK', Inv, Inv', McFetch
  PROVE  Rpc!Next
<1>1. PICK n \in 1..issued : header.word = Req(n) /\ execs[n] = 0
  BY DEF Inv, Submitted, McFetch
<1>2. n \in 1..MaxCmds /\ n \in Nat /\ header.word[2] = n
  BY <1>1, MaxCmdsAssumption, WordFacts DEF TypeOK
<1>3. /\ header.status = "READY" /\ mc = "idle" /\ mc' = "busy"
      /\ UNCHANGED hostVars
  BY DEF McFetch
<1>4. Executed' = Executed \cup {n} /\ n \notin Executed
  <2>1. \A m \in 1..MaxCmds : header.word = Req(m) <=> m = n
    BY <1>1, <1>2, WordFacts
  <2>2. \A m \in 1..MaxCmds : execs'[m] = IF m = n THEN execs[m] + 1 ELSE execs[m]
    BY <2>1 DEF McFetch
  <2>3. \A m \in 1..MaxCmds : execs[m] \in Nat
    BY DEF TypeOK
  <2> QED BY <1>1, <1>2, <2>2, <2>3 DEF Executed
<1>5. Phase' = Phase /\ InCalls' = InCalls
  BY <1>3 DEF hostVars, Phase, PhaseOf, InCalls
<1>6. Left' = {}
  BY <1>3 DEF Left
<1>7. Waiting = {n} /\ Waiting' = {}
  <2>1. CASE owner = NoHost
    <3>1. Left = {n} /\ InCalls = {}
      BY <1>2, <1>3, <2>1, NoneInCall DEF Left
    <3> QED BY <1>5, <1>6, <3>1 DEF Waiting
  <2>2. CASE owner # NoHost
    <3>1. owner \in Hosts /\ pc[owner] = "spin"
      BY <1>3, <2>2 DEF TypeOK, Inv, Ownership, Quiet
    <3>2. header.word = Req(id[owner]) /\ id[owner] \in Nat
      BY <1>3, <3>1, MaxCmdsAssumption DEF Inv, Awaited, Quiet, TypeOK
    <3>3. id[owner] = n
      BY <1>1, <1>2, <3>2, WordFacts
    <3>4. InCalls = {n} /\ Left = {}
      BY <3>1, <3>3, OneInCall DEF Inside
    <3> QED BY <1>4, <1>5, <1>6, <3>4 DEF Waiting
  <2> QED BY <2>1, <2>2
<1>8. Rpc!Execute(n)
  BY <1>3, <1>4, <1>5, <1>7 DEF Rpc!Execute, hostVars, Phase, PhaseOf, Waiting, InCalls
<1> QED BY <1>2, <1>8 DEF Rpc!Next

LEMMA RpcStart ==
  ASSUME TypeOK, NEW h \in Hosts, Start(h)
  PROVE  Rpc!Next
<1>1. Phase' = [Phase EXCEPT ![h] = "idle"]
  BY PhaseStep DEF Start, PhaseOf, Inside, Writing, Reading
<1>2. Phase[h] = "off"
  BY DEF Start, Phase, PhaseOf, Inside, Writing, Reading
<1>3. {g \in Hosts : pc[g] \in Inside}' = {g \in Hosts : pc[g] \in Inside}
  BY DEF Start, TypeOK, Inside, Writing, Reading
<1>4. Waiting' = Waiting /\ Executed' = Executed
  BY <1>3 DEF Start, portalVars, mcVars, Waiting, InCalls, Left, Executed
<1>5. Rpc!Start(h)
  BY <1>1, <1>2, <1>4 DEF Start, mcVars, Rpc!Start, Phase, PhaseOf, Waiting, InCalls
<1> QED BY <1>5 DEF Rpc!Next

LEMMA RpcMap ==
  ASSUME TypeOK, Inv, NEW h \in Hosts, MapPortal(h)
  PROVE  Rpc!Next
<1>1. Phase' = Phase /\ InCalls' = InCalls /\ Executed' = Executed
  BY DEF MapPortal, mcVars, Phase, PhaseOf, InCalls, Executed
<1>2. InCalls = {} /\ Left = {} /\ Left' = {}
  BY NoneInCall, HostsAssumption DEF MapPortal, Quiet, Left, portalVars, mcVars
<1>3. Waiting = {} /\ Waiting' = {}
  BY <1>1, <1>2 DEF Waiting
<1>4. Phase[h] = "idle"
  BY DEF MapPortal, Phase, PhaseOf, Inside, Writing, Reading
<1>5. Rpc!Map(h)
  BY <1>1, <1>3, <1>4 DEF MapPortal, Rpc!Map, Phase, PhaseOf, Waiting, InCalls
<1> QED BY <1>5 DEF Rpc!Next

LEMMA RpcCall ==
  ASSUME TypeOK, TypeOK', Inv, Inv', NEW h \in Hosts, SendCommand(h)
  PROVE  Rpc!Next
<1>1. /\ owner = h /\ owner' = h /\ pc[h] = "idle" /\ pc'[h] = "wparam"
      /\ issued < MaxCmds /\ id'[h] = issued + 1
  BY DEF SendCommand, Mapped, TypeOK
<1>2. Phase' = [Phase EXCEPT ![h] = "calling"] /\ Phase[h] = "idle"
  BY <1>1, PhaseStep DEF SendCommand, Phase, PhaseOf, Inside, Writing, Reading
<1>3. Executed' = Executed /\ issued + 1 \notin Executed
  BY <1>1, MaxCmdsAssumption DEF SendCommand, mcVars, Executed, Inv, Numbering, TypeOK
<1>4. InCalls = {} /\ Left = {} /\ Left' = {}
  BY <1>1, NoneInCall, HostsAssumption DEF Left, Inside, Writing, Reading
<1>5. InCalls' = {issued + 1}
  <2>1. \A g \in Hosts : pc'[g] \in Inside <=> g = h
    BY <1>1 DEF Inv, Ownership, Inside, Writing
  <2> QED BY <1>1, <2>1 DEF InCalls
<1>6. Waiting' = Waiting \cup {issued + 1}
  BY <1>3, <1>4, <1>5 DEF Waiting
<1>7. Rpc!Call(h)
  BY <1>1, <1>2, <1>3, <1>6 DEF SendCommand, Rpc!Call, Phase, PhaseOf, Waiting, InCalls
<1> QED BY <1>7 DEF Rpc!Next

LEMMA RpcRefuse ==
  ASSUME TypeOK, NEW h \in Hosts, RefuseCommand(h)
  PROVE  Rpc!Next
<1>1. Phase' = [Phase EXCEPT ![h] = "returned"] /\ Phase[h] = "idle"
  BY PhaseStep DEF RefuseCommand, Phase, PhaseOf, Inside, Writing, Reading
<1>2. /\ {g \in Hosts : pc[g] \in Inside}' = {g \in Hosts : pc[g] \in Inside}
      /\ \A g \in Hosts : pc[g] \in Inside => id'[g] = id[g]
  BY DEF RefuseCommand, TypeOK, Inside, Writing, Reading
<1>3. InCalls' = InCalls
  BY <1>2 DEF InCalls
<1>4. Waiting' = Waiting /\ Executed' = Executed
  BY <1>3 DEF RefuseCommand, portalVars, mcVars, Waiting, Left, Executed
<1>5. Rpc!Refuse(h)
  BY <1>1, <1>4 DEF RefuseCommand, Mapped, Rpc!Refuse, Phase, PhaseOf, Waiting, InCalls
<1> QED BY <1>5 DEF Rpc!Next

\* A read that ends the call, after the answer: the command was executed.
LEMMA RpcAnswer ==
  ASSUME TypeOK, TypeOK', Inv, NEW h \in Hosts, pc[h] \in Reading,
         pc' = [pc EXCEPT ![h] = "return"], ret' = [ret EXCEPT ![h] = ret'[h]],
         UNCHANGED <<portalVars, mcVars, owner, id, issued>>,
         ret'[h] \in Errors \cup {"0"}
  PROVE  Rpc!Next
<1>1. pc[h] \in Inside
  BY DEF Inside
<1>2. Phase' = [Phase EXCEPT ![h] = "returned"] /\ Phase[h] = "calling"
  BY <1>1, PhaseStep DEF Phase, PhaseOf, Inside, Writing, Reading
<1>3. InCalls = {id[h]} /\ owner = h /\ Left = {} /\ Left' = {}
  BY <1>1, OneInCall, HostsAssumption DEF Left
<1>4. id[h] \in Executed
  <2>1. id[h] \in 1..MaxCmds
    BY <1>1, MaxCmdsAssumption DEF Inv, Numbering, TypeOK
  <2>2. execs[id[h]] = 1
    BY DEF Inv, Awaited, Answered
  <2> QED BY <2>1, <2>2 DEF Executed
<1>5. Executed' = Executed
  BY DEF mcVars, Executed
<1>6. {g \in Hosts : pc[g] \in Inside}' = {}
  BY <1>3 DEF Inv, Ownership, TypeOK, Inside, Writing, Reading
<1>7. InCalls' = {}
  BY <1>6 DEF InCalls
<1>8. Waiting' = Waiting
  BY <1>3, <1>4, <1>5, <1>7 DEF Waiting
<1>9. Rpc!Answer(h)
  BY <1>2, <1>4, <1>5, <1>8 DEF Rpc!Answer, Phase, PhaseOf, Waiting, InCalls
<1> QED BY <1>9 DEF Rpc!Next

LEMMA RpcResume ==
  ASSUME TypeOK, NEW h \in Hosts, Return(h)
  PROVE  Rpc!Next
<1>1. Phase' = [Phase EXCEPT ![h] = "idle"] /\ Phase[h] = "returned"
  BY PhaseStep DEF Return, Phase, PhaseOf, Inside, Writing, Reading
<1>2. /\ {g \in Hosts : pc[g] \in Inside}' = {g \in Hosts : pc[g] \in Inside}
      /\ \A g \in Hosts : pc[g] \in Inside => id'[g] = id[g]
  BY DEF Return, TypeOK, Inside, Writing, Reading
<1>3. InCalls' = InCalls
  BY <1>2 DEF InCalls
<1>4. Waiting' = Waiting /\ Executed' = Executed
  BY <1>3 DEF Return, portalVars, mcVars, Waiting, Left, Executed
<1>5. Rpc!Resume(h)
  BY <1>1, <1>4 DEF Return, Rpc!Resume, Phase, PhaseOf, Waiting, InCalls
<1> QED BY <1>5 DEF Rpc!Next

\* A process dies.  The command of its call stays pending exactly when the
\* last store submitted it and the firmware did not take it yet.
LEMMA RpcStop ==
  ASSUME TypeOK, TypeOK', Inv, Inv', NEW h \in Hosts, Stop(h)
  PROVE  Rpc!Next
<1>1. Phase' = [Phase EXCEPT ![h] = "off"] /\ Phase[h] # "off"
  BY PhaseStep DEF Stop, Phase, PhaseOf, TypeOK, Points, Inside, Writing, Reading
<1>2. Executed' = Executed
  BY DEF Stop, mcVars, Executed
<1>3. Waiting' \in {Waiting, Waiting \ {id[h]}}
  <2>1. CASE owner # h
    <3>1. /\ {g \in Hosts : pc[g] \in Inside}' = {g \in Hosts : pc[g] \in Inside}
          /\ \A g \in Hosts : pc[g] \in Inside => id'[g] = id[g]
      BY <2>1 DEF Stop, Inv, Ownership, TypeOK, Inside, Writing, Reading
    <3>2. InCalls' = InCalls
      BY <3>1 DEF InCalls
    <3>3. Left' = Left
      BY <2>1 DEF Stop, Left, portalVars, mcVars
    <3> QED BY <1>2, <3>2, <3>3 DEF Waiting
  <2>2. CASE owner = h
    <3>1. owner' = NoHost /\ UNCHANGED <<header, mc, execs>>
      BY <2>2 DEF Stop, portalVars, mcVars
    <3>2. InCalls' = {}
      <4>1. {g \in Hosts : pc[g] \in Inside}' = {}
        BY <3>1, HostsAssumption DEF Inv, Ownership
      <4> QED BY <4>1 DEF InCalls
    <3>3. InCalls \subseteq {id[h]} /\ Left = {}
      BY <2>2, OneInCall, NoneInCall, HostsAssumption DEF Left
    <3>4. CASE mc = "idle" /\ header.status = "READY"
      <4>1. pc[h] = "spin"
        BY <2>2, <3>4 DEF Inv, Ownership, Quiet
      <4>2. header.word = Req(id[h]) /\ id[h] \in Nat
        BY <3>4, <4>1, MaxCmdsAssumption DEF Inv, Awaited, Quiet, TypeOK
      <4>3. PICK n \in 1..issued : header.word = Req(n) /\ execs[n] = 0
        BY <3>4 DEF Inv, Submitted
      <4>4. n = id[h] /\ header.word[2] = id[h]
        <5>1. n \in Nat
          BY <4>3, MaxCmdsAssumption DEF TypeOK
        <5>2. Req(n) = Req(id[h])
          BY <4>2, <4>3
        <5>3. n = id[h] /\ Req(n)[2] = n
          BY <4>2, <5>1, <5>2, WordFacts
        <5> QED BY <4>3, <5>3
      <4>5. id[h] \notin Executed
        BY <4>3, <4>4 DEF Executed
      <4>6. Left' = {id[h]}
        BY <3>1, <3>4, <4>4 DEF Left
      <4>7. InCalls = {id[h]}
        BY <4>1, OneInCall DEF Inside
      <4> QED BY <1>2, <3>2, <3>3, <4>5, <4>6, <4>7 DEF Waiting
    <3>5. CASE ~(mc = "idle" /\ header.status = "READY")
      <4>1. Left' = {}
        BY <3>1, <3>5 DEF Left
      <4> QED BY <1>2, <3>2, <3>3, <4>1 DEF Waiting
    <3> QED BY <3>4, <3>5
  <2> QED BY <2>1, <2>2
<1>4. Rpc!Stop(h)
  BY <1>1, <1>2, <1>3 DEF Stop, Rpc!Stop, Phase, PhaseOf, Waiting, InCalls
<1> QED BY <1>4 DEF Rpc!Next

\* A step inside a call that does not end it.
LEMMA RpcInside ==
  ASSUME TypeOK, TypeOK', Inv, NEW h \in Hosts, NEW q \in Inside,
         pc[h] \in Inside, pc' = [pc EXCEPT ![h] = q],
         UNCHANGED <<owner, id, ret, issued, mcVars>>
  PROVE  UNCHANGED Rpc!vars
<1>1. Left = {} /\ Left' = {}
  BY OneInCall, HostsAssumption DEF Left
<1>2. ASSUME NEW g \in Hosts
      PROVE  /\ PhaseOf(pc[g])' = PhaseOf(pc[g])
             /\ pc'[g] \in Inside <=> pc[g] \in Inside
  <2>1. CASE g = h
    <3>1. pc'[g] = q
      BY <2>1 DEF TypeOK
    <3>2. \A p \in Inside : PhaseOf(p) = "calling"
      BY DEF PhaseOf, Inside, Writing, Reading
    <3>3. PhaseOf(pc[g])' = PhaseOf(q)
      BY <3>1 DEF PhaseOf
    <3> QED BY <2>1, <3>1, <3>2, <3>3
  <2>2. CASE g # h
    <3>1. pc'[g] = pc[g]
      BY <2>2 DEF TypeOK
    <3> QED BY <3>1 DEF PhaseOf
  <2> QED BY <2>1, <2>2
<1> QED BY <1>1, <1>2, RpcStutters DEF mcVars

LEMMA RpcInit ==
  ASSUME Init
  PROVE  Rpc!Init
<1>1. Phase = [h \in Hosts |-> "off"]
  BY DEF Init, Phase, PhaseOf, Inside, Writing, Reading
<1>2. Executed = {}
  BY DEF Init, Executed
<1>3. Waiting = {}
  BY DEF Init, Waiting, InCalls, Left, NoCommand, Inside, Writing, Reading
<1> QED BY <1>1, <1>2, <1>3 DEF Init, Rpc!Init, Phase, PhaseOf, Waiting, InCalls

LEMMA RpcNext ==
  ASSUME TypeOK, TypeOK', Inv, Inv', [Next]_vars
  PROVE  [Rpc!Next]_Rpc!vars
<1>1. CASE McFetch
  BY <1>1, RpcExecute
<1>2. CASE McComplete \/ \E r \in Regs : McWriteParam(r)
  <2>1. mc = "busy" /\ UNCHANGED execs /\ UNCHANGED hostVars
    BY <1>2 DEF McComplete, McWriteParam
  <2>2. Left' = Left
    BY <1>2, RepliesAssumption DEF McComplete, McWriteParam, Left
  <2> QED BY <2>1, <2>2, RpcStutters DEF hostVars, PhaseOf
<1>3. ASSUME NEW h \in Hosts,
             WriteParam(h) \/ WriteHeaderHigh(h) \/ WriteHeaderLow(h) \/ Poll(h)
      PROVE  UNCHANGED Rpc!vars
  <2>1. /\ pc[h] \in Inside /\ UNCHANGED <<owner, id, ret, issued, mcVars>>
        /\ \E q \in Inside : pc' = [pc EXCEPT ![h] = q]
    BY <1>3 DEF WriteParam, WriteHeaderHigh, WriteHeaderLow, Poll, Inside, Writing, Reading
  <2> QED BY <2>1, RpcInside
<1>4. ASSUME NEW h \in Hosts, ReadHeader(h) \/ ReadParam(h)
      PROVE  [Rpc!Next]_Rpc!vars
  <2>1. /\ pc[h] \in Reading /\ pc[h] \in Inside
        /\ UNCHANGED <<portalVars, mcVars, owner, id, issued>>
    BY <1>4 DEF ReadHeader, ReadParam, Inside, Reading
  <2>2. CASE pc' = [pc EXCEPT ![h] = "return"]
    <3>1. ret' = [ret EXCEPT ![h] = mc_status_to_error[status[h]]]
      BY <1>4, <2>1, <2>2 DEF ReadHeader, ReadParam, TypeOK, Reading
    <3>2. ret'[h] \in Errors \cup {"0"}
      BY <3>1, ErrorFacts DEF TypeOK
    <3>3. ret' = [ret EXCEPT ![h] = ret'[h]]
      BY <3>1 DEF TypeOK
    <3> QED BY <2>1, <2>2, <3>2, <3>3, RpcAnswer
  <2>3. CASE pc' # [pc EXCEPT ![h] = "return"]
    <3>1. ret' = ret /\ pc' = [pc EXCEPT ![h] = "rparam"]
      BY <1>4, <2>3 DEF ReadHeader, ReadParam, TypeOK
    <3> QED BY <2>1, <3>1, RpcInside DEF Inside, Reading
  <2> QED BY <2>2, <2>3
<1>5. ASSUME NEW h \in Hosts, HostStep(h), ~CallStep(h)
      PROVE  Rpc!Next
  BY <1>5, RpcStart, RpcMap, RpcStop, RpcCall, RpcRefuse, RpcResume DEF HostStep
<1>6. CASE UNCHANGED vars
  <2>1. UNCHANGED <<owner, id, ret, issued, execs, pc>> /\ Left' = Left
    BY <1>6 DEF vars, portalVars, mcVars, hostVars, Left
  <2> QED BY <2>1, RpcStutters DEF PhaseOf
<1> QED BY <1>1, <1>2, <1>3, <1>4, <1>5, <1>6 DEF Next, McStep, HostStep, CallStep

\* For any number of processes that call, die and start again, and any
\* firmware answers: every command is executed at most once, and a call that
\* comes back with an answer was executed.
THEOREM Refinement == Spec => ImplementsMcRpc
<1>1. Init => Rpc!Init
  BY RpcInit
<1>2. TypeOK /\ TypeOK' /\ Inv /\ Inv' /\ [Next]_vars => [Rpc!Next]_Rpc!vars
  BY RpcNext
<1> QED BY <1>1, <1>2, Typing, Invariance, PTL DEF Spec, ImplementsMcRpc, Rpc!Spec

=============================================================================
