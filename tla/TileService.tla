---------------------------- MODULE TileService -----------------------------
(***************************************************************************)
(* What a user of the library in src/aiop_lib.c is promised about the tile: *)
(* one job at a time; a tile that is reset, loaded and started by a job only *)
(* as that job says, in this order, each at most once; and an answer that   *)
(* tells whether it was.  A job can be abandoned anywhere, and what it did  *)
(* so far stays.  Jobs that do not change the tile are promised nothing     *)
(* about their answer.                                                     *)
(***************************************************************************)

CONSTANT Ops    \* kinds of job, "load" and "reset" among them

NoJob   == [op |-> "none", reset |-> FALSE]
Tiles   == {"RESET_DONE", "LOAD_DONE", "LOAD_ERROR", "BOOT_ONGOING", "BOOT_ERROR", "RUNNING"}
Changes == {"reset", "load", "run"}

VARIABLES
  tile,
  job,        \* what was asked, or NoJob
  done,       \* changes the job has made
  failed,     \* changes the job tried in vain
  answer      \* "none", "SUCCESS" or "FAILURE"

vars == <<tile, job, done, failed, answer>>

Init ==
  /\ tile \in Tiles
  /\ job = NoJob /\ done = {} /\ failed = {} /\ answer = "none"

\* A job that changes nothing may be answered as soon as it is asked.
Ask(o, reset) ==
  /\ job = NoJob
  /\ job' = [op |-> o, reset |-> reset]
  /\ answer' \in IF o \in {"load", "reset"} THEN {"none"} ELSE {"none", "SUCCESS", "FAILURE"}
  /\ UNCHANGED <<tile, done, failed>>

\* What a job may still do to the tile.
MayChange(c) ==
  /\ job # NoJob /\ answer = "none"
  /\ c \notin done \cup failed
  /\ CASE c = "reset" -> job.op = "reset" \/ (job.op = "load" /\ job.reset /\ "load" \notin done \cup failed)
       [] c = "load"  -> job.op = "load" /\ (job.reset => "reset" \in done \cup failed)
       [] c = "run"   -> "load" \in done

Outcome(c) ==
  CASE c = "reset" -> "RESET_DONE" [] c = "load" -> "LOAD_DONE" [] c = "run" -> "BOOT_ONGOING"
Damage(c) ==
  CASE c = "reset" -> {tile} [] c = "load" -> {tile, "LOAD_ERROR"} [] c = "run" -> {tile, "BOOT_ERROR"}

Change(c) ==
  /\ MayChange(c)
  /\ \/ tile' = Outcome(c) /\ done' = done \cup {c} /\ UNCHANGED failed
     \/ tile' \in Damage(c) /\ failed' = failed \cup {c} /\ UNCHANGED done
  /\ UNCHANGED <<job, answer>>

\* The jobs that change the tile answer for it, a failed reset before a load
\* apart.
Wanted(o) == IF o = "load" THEN {"load", "run"} ELSE {"reset"}

Answer ==
  /\ job # NoJob /\ answer = "none"
  /\ answer' \in {"SUCCESS", "FAILURE"}
  /\ job.op \in {"load", "reset"} => (answer' = "SUCCESS" <=> Wanted(job.op) \subseteq done)
  /\ UNCHANGED <<tile, job, done, failed>>

\* The job is answered, or its process is gone.
Leave ==
  /\ job # NoJob
  /\ job' = NoJob /\ done' = {} /\ failed' = {} /\ answer' = "none"
  /\ UNCHANGED tile

Boot ==
  /\ tile = "BOOT_ONGOING"
  /\ tile' \in {"RUNNING", "BOOT_ERROR"}
  /\ UNCHANGED <<job, done, failed, answer>>

Next ==
  \/ \E o \in Ops, reset \in BOOLEAN : Ask(o, reset)
  \/ \E c \in Changes : Change(c)
  \/ Answer \/ Leave \/ Boot

Spec == Init /\ [][Next]_vars

=============================================================================
