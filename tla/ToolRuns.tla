------------------------------ MODULE ToolRuns ------------------------------
(***************************************************************************)
(* Runs of the tool at the same time, on one container: what each does to   *)
(* the others and to the tile, over what of src/aiop_tool.c and             *)
(* src/aiop_lib.c outlives a call.  A run opens the VFIO group of the       *)
(* container in aiopt_init and never gives it back: aiopt_deinit only frees *)
(* names, so the group is free again when the process is gone.  The kernel  *)
(* (external) lets one process have it.  Failures of the single steps are   *)
(* in AiopLib, whose calls are one step or one step per change here.        *)
(***************************************************************************)
EXTENDS FiniteSets

CONSTANTS
  Runs,
  NoRun       \* owner of a free group

ASSUME RunsAssumption == IsFiniteSet(Runs) /\ NoRun \notin Runs

Ops     == {"load", "reset", "status", "gettod", "settod"}
Tiles   == {"RESET_DONE", "LOAD_DONE", "LOAD_ERROR", "BOOT_ONGOING", "BOOT_ERROR", "RUNNING"}
Changes == {"reset", "load", "run"}
NoJob   == [op |-> "none", reset |-> FALSE]
Jobs    == [op : Ops, reset : {FALSE}] \cup {[op |-> "load", reset |-> TRUE]}

VARIABLES
  tile,
  owner,      \* the run that has the VFIO group open, or NoRun
  at,         \* at[r]: place of run r in main
  job,        \* job[r]: its sub-command
  done,       \* done[r]: changes of the tile it made
  failed,     \* failed[r]: changes it tried in vain
  ret         \* ret[r]: in the end, the exit status

runVars == <<at, job, done, failed, ret>>
vars    == <<tile, owner, runVars>>

Init ==
  /\ tile \in Tiles /\ owner = NoRun
  /\ at = [r \in Runs |-> "off"] /\ job = [r \in Runs |-> NoJob]
  /\ done = [r \in Runs |-> {}] /\ failed = [r \in Runs |-> {}]
  /\ ret = [r \in Runs |-> "SUCCESS"]

-----------------------------------------------------------------------------
(* A definition whose name ends in an underscore and a fault is a faulty    *)
(* form of the one after it; no behaviour uses it.                          *)

Goto(r, from, to) == at[r] = from /\ at' = [at EXCEPT ![r] = to]
Returns(r, result) == ret' = [ret EXCEPT ![r] = result]
Tried(r) == done[r] \cup failed[r]

\* A run whose command line was accepted asks the library for a handle.
Exec(r, j) ==
  /\ Goto(r, "off", "setup")
  /\ job' = [job EXCEPT ![r] = j]
  /\ UNCHANGED <<tile, owner, done, failed, ret>>

\* vfio_set_group: opening the group fails while another process has it.
GroupFree_Shared == TRUE
GroupFree == owner = NoRun

OpenGroup(r) ==
  /\ Goto(r, "setup", "look") /\ GroupFree
  /\ owner' = r
  /\ UNCHANGED <<tile, job, done, failed, ret>>

\* aiopt_init fails before the group is open, or after.
InitFails(r) ==
  /\ at[r] \in {"setup", "look"}
  /\ at' = [at EXCEPT ![r] = "leave"] /\ Returns(r, "FAILURE")
  /\ UNCHANGED <<tile, owner, job, done, failed>>

InitDone(r) ==
  /\ Goto(r, "look", "work")
  /\ UNCHANGED <<tile, owner, job, done, failed, ret>>

\* The changes of perform_dpaiop_load and aiopt_reset, in their order.
NextChange_Rerun(r) ==
  LET j == job[r] IN
  CASE j.op = "reset" /\ Tried(r) = {} -> "reset"
    [] j.op = "load" /\ Tried(r) = {} -> IF j.reset THEN "reset" ELSE "load"
    [] j.op = "load" /\ Tried(r) = {"reset"} -> "load"
    [] j.op = "load" /\ "load" \in Tried(r) /\ "run" \notin Tried(r) -> "run"
    [] OTHER -> "none"
NextChange(r) ==
  LET j == job[r] IN
  CASE j.op = "reset" /\ Tried(r) = {} -> "reset"
    [] j.op = "load" /\ Tried(r) = {} -> IF j.reset THEN "reset" ELSE "load"
    [] j.op = "load" /\ Tried(r) = {"reset"} -> "load"
    [] j.op = "load" /\ "load" \in done[r] /\ "run" \notin Tried(r) -> "run"
    [] OTHER -> "none"

Outcome(c) ==
  CASE c = "reset" -> "RESET_DONE" [] c = "load" -> "LOAD_DONE" [] c = "run" -> "BOOT_ONGOING"
Damage(c) ==
  CASE c = "reset" -> {tile} [] c = "load" -> {tile, "LOAD_ERROR"} [] c = "run" -> {tile, "BOOT_ERROR"}

\* One try at a change; the MC may refuse it at once or spoil the tile first.
Change(r, c) ==
  /\ at[r] = "work" /\ NextChange(r) = c
  /\ \/ tile' = Outcome(c) /\ done' = [done EXCEPT ![r] = @ \cup {c}] /\ UNCHANGED failed
     \/ tile' \in Damage(c) /\ failed' = [failed EXCEPT ![r] = @ \cup {c}] /\ UNCHANGED done
  /\ UNCHANGED <<owner, at, job, ret>>

\* The operation returns, and a load waits.  What is left to try never was
\* when something before the MC failed.
Answers(r) ==
  CASE job[r].op = "load"  -> {IF "run" \in done[r] THEN "SUCCESS" ELSE "FAILURE"}
    [] job[r].op = "reset" -> {IF "reset" \in done[r] THEN "SUCCESS" ELSE "FAILURE"}
    [] OTHER -> {"SUCCESS", "FAILURE"}

AfterWork_AllWait(r) == "blocked"
AfterWork(r) == IF job[r].op = "load" THEN "blocked" ELSE "leave"

WorkDone(r) ==
  /\ Goto(r, "work", AfterWork(r))
  /\ Tried(r) = {} \/ NextChange(r) = "none"
  /\ \E a \in Answers(r) : Returns(r, a)
  /\ UNCHANGED <<tile, owner, job, done, failed>>

\* The process is gone, by itself or by a signal, and with it its descriptors.
OwnerAfter_Kept(r) == owner
OwnerAfter(r) == IF owner = r THEN NoRun ELSE owner

Gone(r) ==
  /\ at' = [at EXCEPT ![r] = "off"] /\ job' = [job EXCEPT ![r] = NoJob]
  /\ done' = [done EXCEPT ![r] = {}] /\ failed' = [failed EXCEPT ![r] = {}]
  /\ Returns(r, "SUCCESS")
  /\ owner' = OwnerAfter(r)
  /\ UNCHANGED tile

Exit(r) == at[r] = "leave" /\ Gone(r)
Kill(r) == at[r] \notin {"off", "leave"} /\ Gone(r)

Boot ==
  /\ tile = "BOOT_ONGOING"
  /\ tile' \in {"RUNNING", "BOOT_ERROR"}
  /\ UNCHANGED <<owner, runVars>>

RunStep(r) ==
  \/ OpenGroup(r) \/ InitFails(r) \/ InitDone(r)
  \/ \E c \in Changes : Change(r, c)
  \/ WorkDone(r) \/ Exit(r)

Next ==
  \/ Boot
  \/ \E r \in Runs : RunStep(r) \/ Kill(r) \/ \E j \in Jobs : Exec(r, j)

Spec == Init /\ [][Next]_vars

\* Each run goes on when it can; nobody has to start or kill one.
FairSpec == Spec /\ \A r \in Runs : WF_vars(RunStep(r))

-----------------------------------------------------------------------------
(* Properties                                                               *)

\* Types; a change of the tile is tried once.
TypeOK ==
  /\ tile \in Tiles /\ owner \in Runs \cup {NoRun}
  /\ at \in [Runs -> {"off", "setup", "look", "work", "blocked", "leave"}]
  /\ job \in [Runs -> Jobs \cup {NoJob}]
  /\ done \in [Runs -> SUBSET Changes] /\ failed \in [Runs -> SUBSET Changes]
  /\ ret \in [Runs -> {"SUCCESS", "FAILURE"}]
  /\ \A r \in Runs : done[r] \cap failed[r] = {}

\* The group is held exactly by the run that is past its setup, until the
\* process is gone: a blocked load keeps it, and a failed one cannot free it
\* for itself or for another.
GroupHeld ==
  /\ TypeOK
  /\ \A r \in Runs : at[r] \in {"look", "work", "blocked"} => owner = r
  /\ owner # NoRun => at[owner] \notin {"off", "setup"}

\* While a load waits, every other run fails and does nothing to the tile.
LoadShutsOut ==
  [][\A r, s \in Runs :
       at[r] = "blocked" /\ at'[r] = "blocked" /\ s # r =>
         /\ at[s] \notin {"look", "work"}
         /\ at'[s] = "leave" /\ at[s] # "leave" => ret'[s] = "FAILURE"
         /\ tile' # tile => tile = "BOOT_ONGOING"]_vars

\* With any number of runs in any order, killed anywhere, the tile sees what
\* it would see of one user after another.
AtWork == {r \in Runs : at[r] = "work"}
TheRun == CHOOSE r \in AtWork : TRUE
Service == INSTANCE TileService WITH
  job    <- IF AtWork = {} THEN NoJob ELSE job[TheRun],
  done   <- IF AtWork = {} THEN {} ELSE done[TheRun],
  failed <- IF AtWork = {} THEN {} ELSE failed[TheRun],
  answer <- "none"
ImplementsTileService == Service!Spec

\* A run that was started is gone in the end, or waits because it was asked to
\* load, however many others want the group.
RunsEnd ==
  \A r \in Runs : at[r] # "off" ~> at[r] = "off" \/ (at[r] = "blocked" /\ job[r].op = "load")

=============================================================================
