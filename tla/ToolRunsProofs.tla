--------------------------- MODULE ToolRunsProofs ---------------------------
(***************************************************************************)
(* Proofs about ToolRuns, for every finite set of runs: one of them at a    *)
(* time has the group, a load that waits shuts the others out, and what all *)
(* of them do to the tile is what TileService promises of one user.         *)
(***************************************************************************)
EXTENDS ToolRuns, TLAPS

\* A run that is not over has a sub-command.
JobGiven == \A r \in Runs : at[r] # "off" => job[r] \in Jobs

\* A run that has no handle yet has not touched the tile.
Untouched ==
  \A r \in Runs : at[r] \in {"off", "setup", "look"} => done[r] = {} /\ failed[r] = {}

\* The inductive invariant.
Inv == GroupHeld /\ JobGiven /\ Untouched

-----------------------------------------------------------------------------

LEMMA InitInv == Init => Inv
  BY RunsAssumption DEF Init, Inv, GroupHeld, JobGiven, Untouched, TypeOK, Jobs, NoJob, Ops, Changes

\* What a run tries next is a change it did not try before.
LEMMA NextIsNew ==
  ASSUME NEW r \in Runs, NEW c \in Changes, NextChange(r) = c
  PROVE  c \notin Tried(r)
  BY DEF NextChange, Tried, Changes

LEMMA InvExec ==
  ASSUME Inv, NEW r \in Runs, NEW j \in Jobs, Exec(r, j)
  PROVE  Inv'
  BY RunsAssumption DEF Inv, GroupHeld, JobGiven, Untouched, TypeOK, Exec, Goto

LEMMA InvOpenGroup ==
  ASSUME Inv, NEW r \in Runs, OpenGroup(r)
  PROVE  Inv'
  BY RunsAssumption DEF Inv, GroupHeld, JobGiven, Untouched, TypeOK, OpenGroup, Goto, GroupFree

LEMMA InvInitFails ==
  ASSUME Inv, NEW r \in Runs, InitFails(r)
  PROVE  Inv'
  BY RunsAssumption DEF Inv, GroupHeld, JobGiven, Untouched, TypeOK, InitFails, Returns

LEMMA InvInitDone ==
  ASSUME Inv, NEW r \in Runs, InitDone(r)
  PROVE  Inv'
  BY RunsAssumption DEF Inv, GroupHeld, JobGiven, Untouched, TypeOK, InitDone, Goto

LEMMA InvChange ==
  ASSUME Inv, NEW r \in Runs, NEW c \in Changes, Change(r, c)
  PROVE  Inv'
<1>1. c \notin done[r] \cup failed[r]
  BY NextIsNew DEF Change, Tried
<1>2. tile' \in Tiles
  BY DEF Change, Outcome, Damage, Tiles, Changes, Inv, GroupHeld, TypeOK
<1>3. /\ done' \in [Runs -> SUBSET Changes] /\ failed' \in [Runs -> SUBSET Changes]
      /\ \A s \in Runs : done'[s] \cap failed'[s] = {}
  BY <1>1 DEF Change, Inv, GroupHeld, TypeOK
<1>4. TypeOK'
  BY <1>2, <1>3 DEF Change, Inv, GroupHeld, TypeOK
<1>5. Untouched'
  BY DEF Change, Inv, GroupHeld, TypeOK, Untouched
<1>. QED
  BY <1>4, <1>5 DEF Change, Inv, GroupHeld, JobGiven

LEMMA InvWorkDone ==
  ASSUME Inv, NEW r \in Runs, WorkDone(r)
  PROVE  Inv'
<1>1. AfterWork(r) \in {"blocked", "leave"}
  BY DEF AfterWork
<1>2. ret' \in [Runs -> {"SUCCESS", "FAILURE"}]
  BY DEF WorkDone, Returns, Answers, Inv, GroupHeld, TypeOK
<1>. QED
  BY <1>1, <1>2, RunsAssumption DEF Inv, GroupHeld, JobGiven, Untouched, TypeOK, WorkDone, Goto

LEMMA InvGone ==
  ASSUME Inv, NEW r \in Runs, Gone(r)
  PROVE  Inv'
  BY RunsAssumption DEF Inv, GroupHeld, JobGiven, Untouched, TypeOK, Gone, Returns, OwnerAfter

LEMMA InvBoot ==
  ASSUME Inv, Boot
  PROVE  Inv'
  BY DEF Inv, GroupHeld, JobGiven, Untouched, TypeOK, Boot, Tiles, runVars

\* The invariant holds for any number of runs in any order, killed anywhere.
THEOREM Invariance == Spec => []Inv
<1>1. Inv /\ [Next]_vars => Inv'
  <2> SUFFICES ASSUME Inv, [Next]_vars PROVE Inv'
    OBVIOUS
  <2>1. CASE Boot
    BY <2>1, InvBoot
  <2>2. ASSUME NEW r \in Runs, RunStep(r) PROVE Inv'
    BY <2>2, InvOpenGroup, InvInitFails, InvInitDone, InvChange, InvWorkDone, InvGone
       DEF RunStep, Exit
  <2>3. ASSUME NEW r \in Runs, Kill(r) PROVE Inv'
    BY <2>3, InvGone DEF Kill
  <2>4. ASSUME NEW r \in Runs, NEW j \in Jobs, Exec(r, j) PROVE Inv'
    BY <2>4, InvExec
  <2>5. CASE UNCHANGED vars
    BY <2>5 DEF Inv, GroupHeld, JobGiven, Untouched, TypeOK, vars, runVars
  <2>. QED
    BY <2>1, <2>2, <2>3, <2>4, <2>5 DEF Next
<1>. QED
  BY InitInv, <1>1, PTL DEF Spec

\* The group is held exactly by the run that is past its setup.
THEOREM Held == Spec => []GroupHeld
<1>1. Inv => GroupHeld
  BY DEF Inv
<1>. QED
  BY <1>1, Invariance, PTL

-----------------------------------------------------------------------------

\* A run that waits is the owner of the group, and keeps it in any step that
\* leaves it waiting.
THEOREM ShutOut == Spec => LoadShutsOut
<1>. DEFINE Shut(r, s) ==
       /\ at[s] \notin {"look", "work"}
       /\ at'[s] = "leave" /\ at[s] # "leave" => ret'[s] = "FAILURE"
       /\ tile' # tile => tile = "BOOT_ONGOING"
<1>1. ASSUME Inv, Next, NEW r \in Runs, NEW s \in Runs,
             at[r] = "blocked", at'[r] = "blocked", s # r
      PROVE  Shut(r, s)
  <2>1. owner = r /\ \A q \in Runs \ {r} : at[q] \notin {"look", "work", "blocked"}
    BY <1>1, RunsAssumption DEF Inv, GroupHeld
  <2>2. CASE Boot
    BY <1>1, <2>1, <2>2 DEF Boot, runVars
  <2>3. ASSUME NEW q \in Runs, RunStep(q) \/ Kill(q) \/ \E j \in Jobs : Exec(q, j)
        PROVE  Shut(r, s)
    <3>1. ~OpenGroup(q) /\ ~InitDone(q) /\ ~WorkDone(q) /\ \A c \in Changes : ~Change(q, c)
      BY <1>1, <2>1, RunsAssumption
         DEF OpenGroup, GroupFree, InitDone, WorkDone, Change, Goto, Inv, GroupHeld, TypeOK
    <3>2. InitFails(q) \/ Gone(q) \/ \E j \in Jobs : Exec(q, j)
      BY <2>3, <3>1 DEF RunStep, Exit, Kill
    <3>3. tile' = tile
      BY <3>2 DEF InitFails, Gone, Exec
    <3>4. at'[s] = "leave" /\ at[s] # "leave" => ret'[s] = "FAILURE"
      BY <1>1, <3>2 DEF InitFails, Gone, Exec, Goto, Returns, Inv, GroupHeld, TypeOK
    <3>. QED
      BY <1>1, <2>1, <3>3, <3>4
  <2>. QED
    BY <1>1, <2>2, <2>3 DEF Next
<1>2. Inv /\ [Next]_vars
      => [\A r, s \in Runs : at[r] = "blocked" /\ at'[r] = "blocked" /\ s # r => Shut(r, s)]_vars
  BY <1>1
<1>. QED
  BY <1>2, Invariance, PTL DEF Spec, LoadShutsOut

-----------------------------------------------------------------------------
(* The refinement.  The user TileService speaks of is the run at work.      *)

\* What a sub-command is made of.
LEMMA JobShape ==
  ASSUME NEW j \in Jobs
  PROVE  /\ j.op \in Ops /\ j.reset \in BOOLEAN
         /\ j = [op |-> j.op, reset |-> j.reset]
         /\ j # NoJob
<1>1. CASE j \in [op : Ops, reset : {FALSE}]
  <2>1. j.op \in Ops /\ j.reset = FALSE /\ j = [op |-> j.op, reset |-> j.reset]
    BY <1>1
  <2>2. j.op # "none" /\ NoJob.op = "none"
    BY <2>1 DEF Ops, NoJob
  <2>. QED
    BY <2>1, <2>2
<1>2. CASE j = [op |-> "load", reset |-> TRUE]
  <2>1. j.op = "load" /\ j.reset = TRUE /\ NoJob.op = "none"
    BY <1>2 DEF NoJob
  <2>. QED
    BY <1>2, <2>1 DEF Ops
<1>. QED
  BY <1>1, <1>2 DEF Jobs

\* There is one run at work at most, so the mapping does not depend on CHOOSE.
LEMMA OneAtWork ==
  ASSUME Inv, NEW r \in Runs, at[r] = "work"
  PROVE  AtWork = {r} /\ TheRun = r
<1>1. AtWork = {r}
  BY DEF AtWork, Inv, GroupHeld
<1>. QED
  BY <1>1 DEF TheRun

LEMMA OneAtWorkNext ==
  ASSUME Inv', NEW r \in Runs, at'[r] = "work"
  PROVE  AtWork' = {r} /\ TheRun' = r
<1>1. AtWork' = {r}
  BY DEF AtWork, Inv, GroupHeld
<1>. QED
  BY <1>1 DEF TheRun

\* A run gets to work: its job is asked for.
LEMMA ServiceAsk ==
  ASSUME Inv, Inv', NEW r \in Runs, InitDone(r)
  PROVE  Service!Next
<1>1. AtWork = {}
  BY RunsAssumption DEF AtWork, InitDone, Goto, Inv, GroupHeld
<1>2. at'[r] = "work"
  BY DEF InitDone, Goto, Inv, GroupHeld, TypeOK
<1>3. AtWork' = {r} /\ TheRun' = r
  BY <1>2, OneAtWorkNext
<1>4. /\ job[r] \in Jobs /\ job' = job /\ tile' = tile
      /\ done'[r] = {} /\ failed'[r] = {}
  BY DEF InitDone, Goto, Inv, JobGiven, Untouched
<1>5. job[r].op \in Ops /\ job[r].reset \in BOOLEAN
      /\ job[r] = [op |-> job[r].op, reset |-> job[r].reset]
  BY <1>4, JobShape
<1>6. Service!Ask(job[r].op, job[r].reset)
  BY <1>1, <1>3, <1>4, <1>5 DEF Service!Ask, Service!NoJob, NoJob
<1>. QED
  BY <1>5, <1>6 DEF Service!Next

\* A run at work changes the tile: as its job says, once and in order.
LEMMA ServiceChange ==
  ASSUME Inv, Inv', NEW r \in Runs, NEW c \in Changes, Change(r, c)
  PROVE  Service!Next
<1>1. at[r] = "work" /\ at'[r] = "work"
  BY DEF Change
<1>2. AtWork = {r} /\ TheRun = r /\ AtWork' = {r} /\ TheRun' = r
  BY <1>1, OneAtWork, OneAtWorkNext
<1>3. job[r] \in Jobs /\ job[r] # NoJob /\ job' = job
  BY <1>1, JobShape DEF Inv, JobGiven, Change
<1>4. c \notin done[r] \cup failed[r]
  BY NextIsNew DEF Change, Tried
<1>5. CASE c = "reset"
  <2>1. job[r].op = "reset" \/ (job[r].op = "load" /\ job[r].reset /\ "load" \notin done[r] \cup failed[r])
    BY <1>5 DEF Change, NextChange, Tried
  <2>. QED
    BY <1>2, <1>3, <1>4, <1>5, <2>1
       DEF Service!Next, Service!Change, Service!MayChange, Service!NoJob, NoJob, Service!Changes,
           Service!Outcome, Service!Damage, Change, Outcome, Damage, Inv, GroupHeld, TypeOK
<1>6. CASE c = "load"
  <2>1. job[r].op = "load" /\ (job[r].reset => "reset" \in done[r] \cup failed[r])
    BY <1>6 DEF Change, NextChange, Tried
  <2>. QED
    BY <1>2, <1>3, <1>4, <1>6, <2>1
       DEF Service!Next, Service!Change, Service!MayChange, Service!NoJob, NoJob, Service!Changes,
           Service!Outcome, Service!Damage, Change, Outcome, Damage, Inv, GroupHeld, TypeOK
<1>7. CASE c = "run"
  <2>1. "load" \in done[r]
    BY <1>7 DEF Change, NextChange
  <2>. QED
    BY <1>2, <1>3, <1>4, <1>7, <2>1
       DEF Service!Next, Service!Change, Service!MayChange, Service!NoJob, NoJob, Service!Changes,
           Service!Outcome, Service!Damage, Change, Outcome, Damage, Inv, GroupHeld, TypeOK
<1>. QED
  BY <1>5, <1>6, <1>7 DEF Changes

\* A run that was at work is done or gone: its job is left.
LEMMA ServiceLeave ==
  ASSUME Inv, Inv', NEW r \in Runs, at[r] = "work", at'[r] # "work",
         \A s \in Runs \ {r} : at'[s] = at[s], tile' = tile
  PROVE  Service!Next
<1>1. AtWork = {r} /\ TheRun = r
  BY OneAtWork
<1>2. AtWork' = {}
  BY <1>1 DEF AtWork
<1>3. job[r] # NoJob
  BY JobShape DEF Inv, JobGiven
<1>. QED
  BY <1>1, <1>2, <1>3 DEF Service!Next, Service!Leave, Service!NoJob, NoJob

\* A step that leaves the tile, and the run at work, as they were is none of
\* the service's.
LEMMA ServiceStutters ==
  ASSUME Inv, Inv', tile' = tile,
         \A s \in Runs : at[s] = "work" <=> at'[s] = "work",
         \A s \in Runs : at[s] = "work" =>
           job'[s] = job[s] /\ done'[s] = done[s] /\ failed'[s] = failed[s]
  PROVE  UNCHANGED Service!vars
<1>1. AtWork' = AtWork
  BY DEF AtWork
<1>2. AtWork # {} => TheRun \in Runs /\ at[TheRun] = "work" /\ TheRun' = TheRun
  <2>1. SUFFICES ASSUME NEW r \in Runs, at[r] = "work"
                 PROVE  TheRun = r /\ TheRun' = r
    BY DEF AtWork
  <2>. QED
    BY <2>1, OneAtWork, OneAtWorkNext
<1>. QED
  BY <1>1, <1>2 DEF Service!vars

LEMMA ServiceBoot ==
  ASSUME Inv, Inv', Boot
  PROVE  Service!Next
<1>1. AtWork' = AtWork /\ TheRun' = TheRun
  BY DEF Boot, runVars, AtWork, TheRun
<1>. QED
  BY <1>1 DEF Boot, runVars, Service!Next, Service!Boot

\* Runs in any number and any order do to the tile what one user after another
\* may do.
THEOREM Refinement == Spec => ImplementsTileService
<1>1. Init => Service!Init
  BY DEF Init, Service!Init, AtWork, Tiles, Service!Tiles, NoJob, Service!NoJob
<1>2. Inv /\ Inv' /\ [Next]_vars => [Service!Next]_Service!vars
  <2> SUFFICES ASSUME Inv, Inv', [Next]_vars PROVE [Service!Next]_Service!vars
    OBVIOUS
  <2>1. CASE Boot
    BY <2>1, ServiceBoot
  <2>2. ASSUME NEW r \in Runs, OpenGroup(r) \/ InitFails(r) \/ \E j \in Jobs : Exec(r, j)
        PROVE  UNCHANGED Service!vars
    <3>1. tile' = tile /\ done' = done /\ failed' = failed /\ at[r] # "work" /\ at'[r] # "work"
      BY <2>2 DEF OpenGroup, InitFails, Exec, Goto, Inv, GroupHeld, TypeOK
    <3>2. \A s \in Runs \ {r} : at'[s] = at[s] /\ job'[s] = job[s]
      BY <2>2 DEF OpenGroup, InitFails, Exec, Goto, Inv, GroupHeld, TypeOK
    <3>. QED
      BY <3>1, <3>2, ServiceStutters
  <2>3. ASSUME NEW r \in Runs, InitDone(r) \/ \E c \in Changes : Change(r, c)
        PROVE  Service!Next
    BY <2>3, ServiceAsk, ServiceChange
  <2>4. ASSUME NEW r \in Runs, WorkDone(r)
        PROVE  Service!Next
    <3>1. at[r] = "work" /\ at'[r] # "work" /\ tile' = tile
      BY <2>4 DEF WorkDone, Goto, AfterWork, Inv, GroupHeld, TypeOK
    <3>2. \A s \in Runs \ {r} : at'[s] = at[s]
      BY <2>4 DEF WorkDone, Goto, Inv, GroupHeld, TypeOK
    <3>. QED
      BY <3>1, <3>2, ServiceLeave
  <2>5. ASSUME NEW r \in Runs, Gone(r)
        PROVE  [Service!Next]_Service!vars
    <3>1. at'[r] # "work" /\ tile' = tile
      BY <2>5 DEF Gone, Inv, GroupHeld, TypeOK
    <3>2. \A s \in Runs \ {r} :
            at'[s] = at[s] /\ job'[s] = job[s] /\ done'[s] = done[s] /\ failed'[s] = failed[s]
      BY <2>5 DEF Gone, Inv, GroupHeld, TypeOK
    <3>3. CASE at[r] = "work"
      BY <3>1, <3>2, <3>3, ServiceLeave
    <3>4. CASE at[r] # "work"
      BY <3>1, <3>2, <3>4, ServiceStutters
    <3>. QED
      BY <3>3, <3>4
  <2>6. CASE UNCHANGED vars
    BY <2>6, ServiceStutters DEF vars, runVars
  <2>. QED
    BY <2>1, <2>2, <2>3, <2>4, <2>5, <2>6 DEF Next, RunStep, Exit, Kill
<1>. QED
  BY <1>1, <1>2, Invariance, PTL DEF Spec, ImplementsTileService, Service!Spec

=============================================================================
