------------------------------ MODULE McPortal ------------------------------
(***************************************************************************)
(* The MC portal protocol: mc_send_command of flib/mc/mc_sys.c with        *)
(* mc_write_command and mc_read_response of flib/mc/fsl_mc_cmd.h inlined,  *)
(* one action per access to the memory-mapped portal.                      *)
(*                                                                         *)
(* The portal is one 64-bit header and NParams parameter registers that    *)
(* the host and the MC firmware both write.  Nothing locks it: the host    *)
(* hands a command over by the order of its stores (parameters, then the   *)
(* high header word with the command id and token, then the low word whose *)
(* status READY submits it) and takes the answer by the order of its       *)
(* loads.  Registers are device memory, so stores reach it in program      *)
(* order; dmb() in fsl_mc_sys.h only stops the compiler.                   *)
(*                                                                         *)
(* Data is abstracted to whose word it is: <<"req", n>> is any word of     *)
(* command n, <<"rsp", n>> any word of the MC's answer to it.  A host is a *)
(* run of the tool: it maps the portal while it holds the VFIO group,      *)
(* which the kernel gives to one process at a time, and may die between    *)
(* any two accesses.  The MC is modelled from how the host uses it.        *)
(***************************************************************************)
EXTENDS Integers, FiniteSets

CONSTANTS
  Hosts,        \* processes that may map the portal
  NoHost,       \* the owner of an unmapped portal
  NParams,      \* MC_CMD_NUM_OF_PARAMS: parameter registers of the portal
  MaxCmds,      \* bound: number of commands ever issued
  Replies       \* statuses the firmware answers with

\* enum mc_cmd_status; "UNKNOWN" is any other value of the 8-bit field.
Statuses == {"OK", "READY", "AUTH_ERR", "NO_PRIVILEGE", "DMA_ERR", "CONFIG_ERR",
             "TIMEOUT", "NO_RESOURCE", "NO_MEMORY", "BUSY", "UNSUPPORTED_OP",
             "INVALID_STATE", "UNKNOWN"}

ASSUME HostsAssumption   == NoHost \notin Hosts
ASSUME NParamsAssumption == NParams \in Nat \ {0}
ASSUME MaxCmdsAssumption == MaxCmds \in Nat
ASSUME RepliesAssumption == Replies \subseteq Statuses \ {"READY"}

\* mc_status_to_error: the errno of a status, READY and unknown ones included.
mc_status_to_error == [s \in Statuses |->
  CASE s = "OK"             -> "0"
    [] s = "AUTH_ERR"       -> "EACCES"
    [] s = "NO_PRIVILEGE"   -> "EPERM"
    [] s = "DMA_ERR"        -> "EIO"
    [] s = "CONFIG_ERR"     -> "EINVAL"
    [] s = "TIMEOUT"        -> "ETIMEDOUT"
    [] s = "NO_RESOURCE"    -> "ENAVAIL"
    [] s = "NO_MEMORY"      -> "ENOMEM"
    [] s = "BUSY"           -> "EBUSY"
    [] s = "UNSUPPORTED_OP" -> "ENOTSUP"
    [] s = "INVALID_STATE"  -> "ENODEV"
    [] OTHER                -> "EINVAL"]

Errors == {"EACCES", "EPERM", "EIO", "EINVAL", "ETIMEDOUT", "ENAVAIL",
           "ENOMEM", "EBUSY", "ENOTSUP", "ENODEV"}

Regs    == 1..NParams
Words   == {"reset", "req", "rsp"} \X Nat
Req(n)  == <<"req", n>>
Rsp(n)  == <<"rsp", n>>
Reset   == <<"reset", 0>>

Headers  == [word : Words, status : Statuses]
Commands == [header : Headers, params : [Regs -> Words]]

\* mc_encode_cmd_header: the status of a command about to be sent is READY.
Request(n) == [header |-> [word |-> Req(n), status |-> "READY"],
               params |-> [r \in Regs |-> Req(n)]]
NoCommand  == [header |-> [word |-> Reset, status |-> "OK"],
               params |-> [r \in Regs |-> Reset]]

VARIABLES
  \* the portal
  header,       \* high word and status of the header register
  params,       \* the parameter registers
  \* the MC firmware
  mc,           \* "idle" or "busy" with latched
  latched,      \* the command the MC took from the portal
  written,      \* parameter registers that hold the answer already
  execs,        \* history: how often the MC executed each command
  \* the hosts
  owner,        \* the process that has the portal mapped, or NoHost
  pc,           \* where each process is in mc_send_command
  i,            \* loop variable of mc_write_command and mc_read_response
  cmd,          \* the command buffer of the caller
  id,           \* number of the command in the buffer, 0 when there is none
  status,       \* local of mc_send_command
  ret,          \* what mc_send_command returned, "none" before
  issued        \* number of commands issued so far

portalVars == <<header, params>>
mcVars     == <<mc, latched, written, execs>>
hostVars   == <<owner, pc, i, cmd, id, status, ret, issued>>
vars       == <<portalVars, mcVars, hostVars>>

\* Program points at which a command owns the portal, in order.
Writing == {"wparam", "whigh", "wlow"}
Reading == {"rheader", "rparam"}
Inside  == Writing \cup {"spin"} \cup Reading
Points  == {"off", "idle", "return"} \cup Inside

Init ==
  /\ header = NoCommand.header
  /\ params = NoCommand.params
  /\ mc = "idle"
  /\ latched = NoCommand
  /\ written = {}
  /\ execs = [n \in 1..MaxCmds |-> 0]
  /\ owner = NoHost
  /\ pc = [h \in Hosts |-> "off"]
  /\ i = [h \in Hosts |-> 1]
  /\ cmd = [h \in Hosts |-> NoCommand]
  /\ id = [h \in Hosts |-> 0]
  /\ status = [h \in Hosts |-> "OK"]
  /\ ret = [h \in Hosts |-> "none"]
  /\ issued = 0

-----------------------------------------------------------------------------
(* The decisions of the code.  A definition whose name ends in an            *)
(* underscore and a fault is a faulty form of the one after it; no behaviour *)
(* uses it, it shows that some property depends on the decision.             *)

\* if (!mc_io || !mc_io->regs)
Mapped_Unchecked(h) == TRUE
Mapped(h) == owner = h

\* for (i = 0; i < MC_CMD_NUM_OF_PARAMS; i++)
LastParam(r) == r = NParams

\* The two 32-bit stores of the header.
StoreHigh_Whole(from) == from
StoreHigh(from) == [header EXCEPT !.word = from.word]
StoreLow(from)  == [header EXCEPT !.status = from.status]

\* while (status == MC_CMD_STATUS_READY)
Pending_Timeout(s) == FALSE
Pending_UntilOk(s) == s # "OK"
Pending(s) == s = "READY"

\* if (status != MC_CMD_STATUS_OK) return status;
HasData_Always(s) == TRUE
HasData(s) == s = "OK"

-----------------------------------------------------------------------------
(* A process and its mapping of the portal (aiop_lib.c, fsl_vfio.c)         *)

Start(h) ==
  /\ pc[h] = "off"
  /\ pc' = [pc EXCEPT ![h] = "idle"]
  /\ UNCHANGED <<portalVars, mcVars, owner, i, cmd, id, status, ret, issued>>

\* The kernel resets the container's objects when the group is released, so
\* the next process finds no command in flight.
Quiet == mc = "idle" /\ header.status # "READY"

\* setup_mc_portal: mc_io->regs becomes non-NULL.
MapPortal(h) ==
  /\ pc[h] = "idle"
  /\ owner = NoHost
  /\ Quiet
  /\ owner' = h
  /\ UNCHANGED <<portalVars, mcVars, pc, i, cmd, id, status, ret, issued>>

\* The process ends, by exit or by a signal, at any point of a call.
Stop(h) ==
  /\ pc[h] # "off"
  /\ pc' = [pc EXCEPT ![h] = "off"]
  /\ owner' = IF owner = h THEN NoHost ELSE owner
  /\ i' = [i EXCEPT ![h] = 1]
  /\ cmd' = [cmd EXCEPT ![h] = NoCommand]
  /\ id' = [id EXCEPT ![h] = 0]
  /\ status' = [status EXCEPT ![h] = "OK"]
  /\ ret' = [ret EXCEPT ![h] = "none"]
  /\ UNCHANGED <<portalVars, mcVars, issued>>

-----------------------------------------------------------------------------
(* mc_send_command                                                          *)

\* The caller has filled its buffer; mc_send_command finds the portal mapped.
SendCommand(h) ==
  /\ pc[h] = "idle"
  /\ Mapped(h)
  /\ issued < MaxCmds
  /\ issued' = issued + 1
  /\ id' = [id EXCEPT ![h] = issued + 1]
  /\ cmd' = [cmd EXCEPT ![h] = Request(issued + 1)]
  /\ i' = [i EXCEPT ![h] = 1]
  /\ pc' = [pc EXCEPT ![h] = "wparam"]
  /\ UNCHANGED <<portalVars, mcVars, owner, status, ret>>

\* if (!mc_io || !mc_io->regs) return -EACCES;
RefuseCommand(h) ==
  /\ pc[h] = "idle"
  /\ ~Mapped(h)
  /\ issued < MaxCmds
  /\ issued' = issued + 1
  /\ id' = [id EXCEPT ![h] = issued + 1]
  /\ cmd' = [cmd EXCEPT ![h] = Request(issued + 1)]
  /\ ret' = [ret EXCEPT ![h] = "EACCES"]
  /\ pc' = [pc EXCEPT ![h] = "return"]
  /\ UNCHANGED <<portalVars, mcVars, owner, i, status>>

WriteParam(h) ==
  /\ pc[h] = "wparam"
  /\ params' = [params EXCEPT ![i[h]] = cmd[h].params[i[h]]]
  /\ i' = [i EXCEPT ![h] = IF LastParam(i[h]) THEN 1 ELSE i[h] + 1]
  /\ pc' = [pc EXCEPT ![h] = IF LastParam(i[h]) THEN "whigh" ELSE "wparam"]
  /\ UNCHANGED <<header, mcVars, owner, cmd, id, status, ret, issued>>

WriteHeaderHigh(h) ==
  /\ pc[h] = "whigh"
  /\ header' = StoreHigh(cmd[h].header)
  /\ pc' = [pc EXCEPT ![h] = "wlow"]
  /\ UNCHANGED <<params, mcVars, owner, i, cmd, id, status, ret, issued>>

WriteHeaderLow(h) ==
  /\ pc[h] = "wlow"
  /\ header' = StoreLow(cmd[h].header)
  /\ pc' = [pc EXCEPT ![h] = "spin"]
  /\ UNCHANGED <<params, mcVars, owner, i, cmd, id, status, ret, issued>>

\* One iteration of the do-while loop, which has no limit and no wait.
Poll(h) ==
  /\ pc[h] = "spin"
  /\ status' = [status EXCEPT ![h] = header.status]
  /\ pc' = [pc EXCEPT ![h] = IF Pending(header.status) THEN "spin" ELSE "rheader"]
  /\ UNCHANGED <<portalVars, mcVars, owner, i, cmd, id, ret, issued>>

\* mc_read_response reads the header a second time and stops there on an
\* error; what mc_send_command returns comes from the status of the loop.
ReadHeader(h) ==
  /\ pc[h] = "rheader"
  /\ cmd' = [cmd EXCEPT ![h].header = header]
  /\ IF HasData(header.status)
       THEN /\ pc' = [pc EXCEPT ![h] = "rparam"]
            /\ UNCHANGED ret
       ELSE /\ pc' = [pc EXCEPT ![h] = "return"]
            /\ ret' = [ret EXCEPT ![h] = mc_status_to_error[status[h]]]
  /\ i' = [i EXCEPT ![h] = 1]
  /\ UNCHANGED <<portalVars, mcVars, owner, id, status, issued>>

ReadParam(h) ==
  /\ pc[h] = "rparam"
  /\ cmd' = [cmd EXCEPT ![h].params[i[h]] = params[i[h]]]
  /\ IF LastParam(i[h])
       THEN /\ pc' = [pc EXCEPT ![h] = "return"]
            /\ ret' = [ret EXCEPT ![h] = mc_status_to_error[status[h]]]
            /\ UNCHANGED i
       ELSE /\ i' = [i EXCEPT ![h] = i[h] + 1]
            /\ UNCHANGED <<pc, ret>>
  /\ UNCHANGED <<portalVars, mcVars, owner, id, status, issued>>

\* The caller takes the result; its command buffer goes out of scope.
Return(h) ==
  /\ pc[h] = "return"
  /\ pc' = [pc EXCEPT ![h] = "idle"]
  /\ i' = [i EXCEPT ![h] = 1]
  /\ cmd' = [cmd EXCEPT ![h] = NoCommand]
  /\ id' = [id EXCEPT ![h] = 0]
  /\ status' = [status EXCEPT ![h] = "OK"]
  /\ ret' = [ret EXCEPT ![h] = "none"]
  /\ UNCHANGED <<portalVars, mcVars, owner, issued>>

-----------------------------------------------------------------------------
(* The MC firmware (external): it takes a command when it sees READY,       *)
(* writes its answer over the parameters in any order, and the header last. *)

McFetch ==
  /\ mc = "idle"
  /\ header.status = "READY"
  /\ mc' = "busy"
  /\ latched' = [header |-> header, params |-> params]
  /\ written' = {}
  /\ execs' = [n \in 1..MaxCmds |->
                 IF header.word = Req(n) THEN execs[n] + 1 ELSE execs[n]]
  /\ UNCHANGED <<portalVars, hostVars>>

McWriteParam(r) ==
  /\ mc = "busy"
  /\ r \in Regs \ written
  /\ params' = [params EXCEPT ![r] = Rsp(latched.header.word[2])]
  /\ written' = written \cup {r}
  /\ UNCHANGED <<header, mc, latched, execs, hostVars>>

McComplete ==
  /\ mc = "busy"
  /\ written = Regs
  /\ \E s \in Replies :
       header' = [word |-> Rsp(latched.header.word[2]), status |-> s]
  /\ mc' = "idle"
  /\ latched' = NoCommand
  /\ written' = {}
  /\ UNCHANGED <<params, execs, hostVars>>

-----------------------------------------------------------------------------
CallStep(h) ==
  \/ WriteParam(h) \/ WriteHeaderHigh(h) \/ WriteHeaderLow(h)
  \/ Poll(h) \/ ReadHeader(h) \/ ReadParam(h)

HostStep(h) ==
  \/ Start(h) \/ MapPortal(h) \/ Stop(h)
  \/ SendCommand(h) \/ RefuseCommand(h) \/ CallStep(h) \/ Return(h)

McStep == McFetch \/ McComplete \/ \E r \in Regs : McWriteParam(r)

Next == McStep \/ \E h \in Hosts : HostStep(h)

Spec == Init /\ [][Next]_vars

\* A process in a call keeps being scheduled, and the firmware keeps serving
\* its portal; nothing is assumed of callers, of crashes or of restarts.
Fairness ==
  /\ \A h \in Hosts : WF_vars(CallStep(h))
  /\ WF_vars(McStep)

FairSpec == Spec /\ Fairness

-----------------------------------------------------------------------------
(* Properties                                                               *)

TypeOK ==
  /\ header \in Headers
  /\ params \in [Regs -> Words]
  /\ mc \in {"idle", "busy"}
  /\ latched \in Commands
  /\ written \in SUBSET Regs
  /\ execs \in [1..MaxCmds -> Nat]
  /\ owner \in Hosts \cup {NoHost}
  /\ pc \in [Hosts -> Points]
  /\ i \in [Hosts -> Regs]
  /\ cmd \in [Hosts -> Commands]
  /\ id \in [Hosts -> 0..MaxCmds]
  /\ status \in [Hosts -> Statuses]
  /\ ret \in [Hosts -> Errors \cup {"0", "none"}]
  /\ issued \in 0..MaxCmds

\* What the MC takes from the portal is one command as its caller filled it,
\* never the parameters of one and the header of another: the store of the
\* low header word comes last, and no store follows it until the answer.
NoTornCommand ==
  mc = "busy" => \E n \in 1..MaxCmds : latched = Request(n)

\* A call that returns 0 hands back the MC's answer to its own command, every
\* word of it; one that fails leaves the parameters its caller filled in, so
\* no word of an answer in the making or of an earlier one is ever decoded.
ResponseIsOwn ==
  \A h \in Hosts : pc[h] = "return" =>
    IF ret[h] = "0"
      THEN /\ cmd[h].header = [word |-> Rsp(id[h]), status |-> "OK"]
           /\ cmd[h].params = [r \in Regs |-> Rsp(id[h])]
      ELSE cmd[h].params = [r \in Regs |-> Req(id[h])]

\* The error returned is computed from the status of the polling loop, the
\* decision to read the answer from a second read of the header: the two
\* reads agree, whatever the MC does in between.
StatusReadsAgree ==
  \A h \in Hosts :
    pc[h] \in {"rparam", "return"} /\ cmd[h].header.word # Req(id[h])
      => cmd[h].header.status = status[h]

\* No command is ever executed twice, a command that came back from the
\* portal was executed, and one that was refused (regs NULL) was not.
ExecutedOnce ==
  /\ \A n \in 1..MaxCmds : execs[n] <= 1
  /\ \A h \in Hosts : pc[h] = "return" =>
       execs[id[h]] = IF cmd[h].header.word = Req(id[h]) THEN 0 ELSE 1

\* Between the store of READY and the answer only the MC writes the portal,
\* and before and after it only the process that has it mapped.
PortalHandedOver ==
  [][/\ header.status = "READY" /\ UNCHANGED mcVars
          => UNCHANGED portalVars
     /\ mc = "idle" /\ UNCHANGED mcVars /\ portalVars' # portalVars
          => owner # NoHost /\ pc[owner] \in Writing]_vars

\* A call comes back unless its process dies: with a firmware that answers,
\* the spin without a timeout ends, for error answers too.
CallReturns ==
  \A h \in Hosts : pc[h] \in Inside ~> pc[h] \in {"return", "off"}

\* mc_send_command is the remote procedure call of McRpc.  What may still be
\* executed is the command of a call the MC has not taken yet, and one its
\* process left in the portal by dying after the last store.
Executed == {n \in 1..MaxCmds : execs[n] > 0}
Left     == IF owner = NoHost /\ mc = "idle" /\ header.status = "READY"
              THEN {header.word[2]} ELSE {}
Rpc == INSTANCE McRpc WITH
  phase    <- [h \in Hosts |-> CASE pc[h] \in Inside  -> "calling"
                                 [] pc[h] = "return" -> "returned"
                                 [] OTHER            -> pc[h]],
  holder   <- owner,
  cur      <- id,
  result   <- ret,
  pending  <- Left \cup ({id[h] : h \in {g \in Hosts : pc[g] \in Inside}} \ Executed),
  executed <- Executed
ImplementsMcRpc == Rpc!Spec

-----------------------------------------------------------------------------
(* The inductive invariant behind the safety properties.                    *)

Fill(w) == [r \in Regs |-> w]

\* Only the process that has the portal mapped is inside a call, and the
\* portal is at rest unless that process is polling.
Ownership ==
  /\ \A h \in Hosts : pc[h] \in Inside => owner = h
  /\ \A h \in Hosts : owner = h /\ pc[h] # "spin" => Quiet

\* Commands are numbered: no two processes share one, nothing in the portal
\* or executed is newer than the last one issued.
Numbering ==
  /\ \A h \in Hosts : pc[h] \in Inside \cup {"return"} => id[h] \in 1..issued
  /\ \A g, h \in Hosts : g # h /\ id[g] # 0 => id[g] # id[h]
  /\ \A h \in Hosts : id[h] <= issued
  /\ header.word[2] <= issued
  /\ \A n \in 1..MaxCmds : execs[n] <= 1 /\ (n > issued => execs[n] = 0)

\* The stores made so far.
Stored ==
  \A h \in Hosts : pc[h] \in Writing =>
    /\ cmd[h] = Request(id[h])
    /\ execs[id[h]] = 0
    /\ pc[h] = "wparam" => \A r \in Regs : r < i[h] => params[r] = Req(id[h])
    /\ pc[h] \in {"whigh", "wlow"} => params = Fill(Req(id[h]))
    /\ pc[h] = "wlow" => header.word = Req(id[h])

\* What the MC finds and holds, left by a live process or a dead one.
Submitted ==
  /\ mc = "idle" /\ header.status = "READY" =>
       \E n \in 1..issued : /\ header.word = Req(n)
                            /\ params = Fill(Req(n))
                            /\ execs[n] = 0
  /\ mc = "busy" =>
       /\ header.status = "READY"
       /\ \E n \in 1..issued : /\ latched = Request(n)
                              /\ header.word = Req(n)
                              /\ execs[n] = 1
                              /\ \A r \in written : params[r] = Rsp(n)

Answered(h) ==
  /\ header.word = Rsp(id[h])
  /\ params = Fill(Rsp(id[h]))
  /\ execs[id[h]] = 1

\* What a polling or reading process finds.
Awaited ==
  \A h \in Hosts :
    /\ pc[h] = "spin" =>
         /\ cmd[h] = Request(id[h])
         /\ IF Quiet THEN Answered(h) ELSE header.word = Req(id[h])
    /\ pc[h] \in Reading => Answered(h) /\ status[h] = header.status
    /\ pc[h] = "rheader" => cmd[h] = Request(id[h])
    /\ pc[h] = "rparam" =>
         /\ cmd[h].header = header
         /\ header.status = "OK"
         /\ \A r \in Regs : r < i[h] => cmd[h].params[r] = Rsp(id[h])

\* What a call gave back: refused, failed by the MC, or answered.
Returned ==
  \A h \in Hosts : pc[h] = "return" =>
    \/ /\ cmd[h] = Request(id[h])
       /\ ret[h] = "EACCES"
       /\ execs[id[h]] = 0
       /\ header.word # Req(id[h])
    \/ /\ cmd[h].header = [word |-> Rsp(id[h]), status |-> status[h]]
       /\ ret[h] = mc_status_to_error[status[h]]
       /\ execs[id[h]] = 1
       /\ cmd[h].params = Fill(IF status[h] = "OK" THEN Rsp(id[h]) ELSE Req(id[h]))
       /\ status[h] # "READY"

Inv == Ownership /\ Numbering /\ Stored /\ Submitted /\ Awaited /\ Returned

=============================================================================
