-------------------------------- MODULE McRpc --------------------------------
(***************************************************************************)
(* What mc_send_command promises its callers in dpaiop.c, without the      *)
(* portal: a remote procedure call to the Management Complex (MC).         *)
(*                                                                         *)
(*   - a command is executed at most once, and one that returned without   *)
(*     being rejected was executed exactly once, before it returned;       *)
(*   - a call returns 0 only when the MC answered OK to that very command; *)
(*   - a call with no mapped portal is refused and nothing is executed;    *)
(*   - a process that dies in a call leaves at most that one command       *)
(*     behind, which the MC may still execute;                             *)
(*   - the portal passes to another process only when nothing is pending.  *)
(*                                                                         *)
(* McPortal is shown to implement this module.                             *)
(***************************************************************************)
EXTENDS Integers, FiniteSets

CONSTANTS
  Hosts,        \* processes that may map the portal
  NoHost,       \* the holder of an unmapped portal
  MaxCmds,      \* bound: number of commands ever issued
  Errors        \* results of a call other than "0"

VARIABLES
  phase,        \* [Hosts -> {"off", "idle", "calling", "returned"}]
  holder,       \* the process that has the portal mapped, or NoHost
  cur,          \* the command of each process' call, 0 when there is none
  result,       \* what the call returned: "none", "0" or an error
  pending,      \* commands the MC may still execute
  executed,     \* commands the MC has executed
  issued        \* number of commands issued so far

vars == <<phase, holder, cur, result, pending, executed, issued>>

Init ==
  /\ phase = [h \in Hosts |-> "off"]
  /\ holder = NoHost
  /\ cur = [h \in Hosts |-> 0]
  /\ result = [h \in Hosts |-> "none"]
  /\ pending = {}
  /\ executed = {}
  /\ issued = 0

Start(h) ==
  /\ phase[h] = "off"
  /\ phase' = [phase EXCEPT ![h] = "idle"]
  /\ UNCHANGED <<holder, cur, result, pending, executed, issued>>

Map(h) ==
  /\ phase[h] = "idle"
  /\ holder = NoHost
  /\ pending = {}
  /\ holder' = h
  /\ UNCHANGED <<phase, cur, result, pending, executed, issued>>

Call(h) ==
  /\ phase[h] = "idle"
  /\ holder = h
  /\ issued < MaxCmds
  /\ issued' = issued + 1
  /\ cur' = [cur EXCEPT ![h] = issued + 1]
  /\ pending' = pending \cup {issued + 1}
  /\ phase' = [phase EXCEPT ![h] = "calling"]
  /\ UNCHANGED <<holder, result, executed>>

Refuse(h) ==
  /\ phase[h] = "idle"
  /\ holder # h
  /\ issued < MaxCmds
  /\ issued' = issued + 1
  /\ cur' = [cur EXCEPT ![h] = issued + 1]
  /\ result' = [result EXCEPT ![h] = "EACCES"]
  /\ phase' = [phase EXCEPT ![h] = "returned"]
  /\ UNCHANGED <<holder, pending, executed>>

Execute(n) ==
  /\ n \in pending
  /\ pending' = pending \ {n}
  /\ executed' = executed \cup {n}
  /\ UNCHANGED <<phase, holder, cur, result, issued>>

Answer(h) ==
  /\ phase[h] = "calling"
  /\ cur[h] \in executed
  /\ \E r \in Errors \cup {"0"} : result' = [result EXCEPT ![h] = r]
  /\ phase' = [phase EXCEPT ![h] = "returned"]
  /\ UNCHANGED <<holder, cur, pending, executed, issued>>

Resume(h) ==
  /\ phase[h] = "returned"
  /\ phase' = [phase EXCEPT ![h] = "idle"]
  /\ cur' = [cur EXCEPT ![h] = 0]
  /\ result' = [result EXCEPT ![h] = "none"]
  /\ UNCHANGED <<holder, pending, executed, issued>>

\* The process ends, in a call or not: what it had asked for may be dropped
\* or may stay pending, and the portal is free again.
Stop(h) ==
  /\ phase[h] # "off"
  /\ phase' = [phase EXCEPT ![h] = "off"]
  /\ holder' = IF holder = h THEN NoHost ELSE holder
  /\ cur' = [cur EXCEPT ![h] = 0]
  /\ result' = [result EXCEPT ![h] = "none"]
  /\ pending' \in {pending, pending \ {cur[h]}}
  /\ UNCHANGED <<executed, issued>>

Next ==
  \/ \E h \in Hosts : \/ Start(h) \/ Map(h) \/ Call(h) \/ Refuse(h)
                      \/ Answer(h) \/ Resume(h) \/ Stop(h)
  \/ \E n \in 1..MaxCmds : Execute(n)

Spec == Init /\ [][Next]_vars

=============================================================================
