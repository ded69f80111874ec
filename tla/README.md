# AIOP Tool: a TLA+ model, checked with TLC and proved with TLAPS

`aiop_tool` is a run-to-completion command line program that resets, loads, runs and inspects an AIOP tile. It
opens a resource container through VFIO, maps the portal of the management complex (MC) found in it and sends the
MC commands through that portal. This directory models the parts of it whose behaviour is hard to test, checks
them with TLC, and proves with TLAPS, for all values of their constants, the safety properties and the refinements that
the runs check, up to `main` on top of all.

## 1. The system

| component | source | state it keeps | operations |
|---|---|---|---|
| Tool main | `src/aiop_tool.c` | configuration built from the parsed globals, the handle | `main`, `create_conf_inst`, `get_ops_handler`, `perform_aiop_*` |
| Command line | `src/aiop_cmd.c` | globals `gvars`, `sub_cmd_name` | `parse_command_line_args`, one handler per sub-command, `generic_cmd_hndlr`, one helper per option |
| AIOP library | `src/aiop_lib.c` | the handle: VFIO handle, portal address, names, ids and session token of the dpmcp and dpaiop | `aiopt_init`, `_deinit`, `_load`, `_reset`, `_status`, `_gettod`, `_settod` |
| VFIO layer | `src/vfio/fsl_vfio.c` | one group slot, one container slot, device descriptor, address of the interrupt region | `fsl_vfio_setup`, `_destroy`, `_setup_dmamap`, `_destroy_dmamap`, `_map_mcp_obj`, `_get_dev_fd`, `_get_device_info` |
| Command marshalling | `flib/mc/dpaiop.c`, `fsl_dpaiop_cmd.h` | a command buffer per call | the 19 `dpaiop_*` functions |
| MC portal protocol | `flib/mc/mc_sys.c`, `fsl_mc_cmd.h`, `fsl_mc_sys.h` | none of its own; the memory-mapped portal | `mc_send_command`, `mc_write_command`, `mc_read_response` |
| Logger | `src/aiop_logger.c` | two flags | printing |
| Dummy operations | `src/aiop_tool_dummy.c` | none | stubs for the unit test of the command line |

Outside the repository, and modelled only as far as the code uses them: the **MC firmware** (executes commands,
keeps sessions), the **tile** (its state outlives a run), and the **kernel** (VFIO, files, memory, and what happens
to a process that dies).

How they interact. `main` calls the command line, then the library: `aiopt_init` → `fsl_vfio_setup` →
`fsl_vfio_map_mcp_obj` → a session with the MC to look at the dpaiop; then one operation; then `aiopt_deinit`.
Every operation opens a session (`dpaiop_open`, which stores a token in the handle by reference), sends its
commands with that token and closes it. Each `dpaiop_*` function packs its arguments into a command buffer and
gives it to `mc_send_command`, which writes it to the portal word by word and polls the header until the status
changes. There are no threads and no callbacks: the concurrency is between the host and the firmware, which share
the portal without a lock, and between runs of the tool that share the MC, the tile and the portal.

What makes each part correct, and what is hard about it:

* **Portal protocol.** The MC must see a whole command, once; the caller must see the whole answer to its own
  command. All depends on the order of single stores and loads against a firmware that reads and writes the same
  registers, with a process that may die between any two (there is no signal handling) and no timeout.
* **Marshalling.** Fields share 64-bit words; widths, sign extension and the flags of the caller must not leak from
  one field into another. A failed call leaves the buffer half overwritten.
* **Library.** Sessions, tokens, descriptors, memory and DMA mappings are acquired one by one and every step may
  fail; the tile must be reset, loaded and run in order, with its memory in reach; results of several commands are
  folded into one return value.
* **VFIO layer.** The same with group, container and device descriptors; in addition one slot shared by all callers
  of the process without a count of its users, and descriptor numbers that are reused as soon as they are closed.
* **Command line and main.** Precedence of the container name, options a command requires or ignores, lengths
  against fixed buffers, the exit status.

`PROJECT.json` lists each of these hazards at the line where it bites, with the properties that would catch it.

## 2. The modules

| module | models | abstract data |
|---|---|---|
| `McRpc` | what a caller is promised: a remote procedure call executed at most once | commands are numbers |
| `McPortal` | the portal protocol, one action per access of host or firmware | a word is "of the request n" or "of the answer to n" |
| `McPortalProofs` | the proofs about `McPortal` | |
| `McCmd` | the marshalling functions and layouts | a 64-bit word is the set of its one bits |
| `McCmdProofs` | the proofs about `McCmd` | |
| `AiopLib` | the library, one action per step that can fail | tokens are model values, files are "image" and "args" |
| `AiopLibProofs` | the proofs about `AiopLib` | |
| `TileService` | what a user of the library is promised about the tile | the tile is its state, a job the changes it makes |
| `AiopDevices` | how `aiopt_init` finds its objects, again and again in one process | a string is the block it is in and the entry it names |
| `LoadBuffer` | the bytes and pages of a load, against files that change | a file is its size and a version |
| `AiopDetailProofs` | the proofs about `AiopDevices` and about `LoadBuffer` | |
| `Vfio` | the VFIO layer, one action per system call that can fail | descriptors are small numbers, given out lowest first |
| `VfioProofs` | the proofs about `Vfio` | |
| `AiopCmd` | the command line into globals, one action per round of the `getopt` loop | a word is a value with a length, an option, a file, a number |
| `AiopCmdProofs` | the proofs about `AiopCmd` | |
| `AiopTool` | `main` over `AiopCmd` and `AiopLib`, one run after another | the configuration is what the library is told |
| `AiopToolProofs` | the proofs about `AiopTool`, from those about `AiopCmd`, `AiopLib` and `ToolRuns` | |
| `ToolRuns` | several runs at the same time on one container | a library call is one step, or one per change of the tile |
| `ToolRunsProofs` | the proofs about `ToolRuns` | |
| `MC…` | the instances for TLC | |

How they are composed. `AiopTool` extends nothing of `AiopCmd` and `AiopLib` but instantiates both on variables of its
own (`Cmd!…`, `Lib!…`), so that a step of `main` is a step of one of them or of neither. Refinements:

    AiopTool  ──►  ToolRuns  ──►  TileService  ◄──  AiopLib          McPortal  ──►  McRpc

The left one says that a run of the tool, seen from outside, is a run of `ToolRuns` with one process; that model is then
small enough for three of them at once.

In every module a definition whose name ends in an underscore and a fault (`Pending_Timeout`) is a faulty form of
the one below it. No behaviour uses it; it records a plausible bug that some property catches.

### McPortal

`header` and `params` are the portal; the header is kept as its high word and the status of its low word, because
`mc_write_command` stores the two separately. `pc[h]` is the place of process `h` in `mc_send_command`:
`wparam` (loop of parameter stores), `whigh`, `wlow`, `spin` (the `do … while`), `rheader` and `rparam`
(`mc_read_response`), `return`. The firmware takes a command when it sees READY (`McFetch`), writes parameters in
any order (`McWriteParam`) and the header last (`McComplete`). A process maps the portal (`MapPortal`) and may end
anywhere (`Stop`), which leaves the registers and the firmware as they are.

Assumed of the environment:
* The portal is mapped as device memory, so the stores of one process arrive in program order. The barrier of
  `fsl_mc_sys.h` only stops the compiler.
* The kernel gives the VFIO group to one process at a time, and resets the objects of the container when it is
  released: a process that maps the portal finds no command in flight (`Quiet`). This is what stands in for the
  lock that the comments in `mc_send_command` leave to the reader.
* The firmware answers with a status other than READY, and writes the header after the parameters.

### McCmd

A call is `Prepare` (the function up to `mc_send_command`), `AnswerOk` or `AnswerError` (the portal, in one
step), `Decode` (the rest) and `Return`. `Request` and `Response` are the layouts of `fsl_dpaiop_cmd.h`, row by row. An
argument declared `int` is sign-extended before it is packed (`Passed`), as the C conversion does.

### AiopLib

`pc` is the next step of the call in progress. `Step` is a call out of the library that succeeds or fails with what
follows at that label. The commands inside a session are one action, `Command(c)`; where each leads is
`NextCommand`, and how a call's result is put together is `CloseResult`. `sessions`, `leaked` and `tile` belong to the MC and
survive `Exit`. `trace` and `alien` are history.

`fds`, `mm` and `dma` are what a load has opened, mapped and made visible to the device. `fsl_vfio_destroy_dmamap` returns
nothing: `dma` loses a mapping when the library gives it up, and that the kernel may refuse is `Vfio`'s business. What
`aiopt_init` opens is not among them (`AiopDevices`).

`Service` maps a call to a job of `TileService`: what was asked is `op` with its arguments, what was
done and tried in vain is read from `trace`, and the answer is there once the call is at `return`.

### TileService

One job at a time, a change of the tile at most once and only if the job is for it, in the order reset, load, run,
where a reset that failed does not stop a load (`perform_dpaiop_load` goes on). A load or reset answers success exactly
when its changes were made; other jobs are promised nothing about their answer, because of the first entry of section 6.
A job may be abandoned anywhere (the process is killed) and what it did stays.

### AiopDevices

`Call … InitAiop` are `aiopt_init` with `setup_aiopt_device`; `Copy … Unfill` are `fill_obj_info`, whose two
allocations and two system calls can each fail. `heap` holds the blocks in use, so that a name freed twice or never is a
block missing or left over. `dirs` and `devs` count descriptors nobody closes: `opendir` on an error path, and up to two
of the dpaiop for each call, a successful one included. Objects that are unplugged after they were listed show as calls that fail.

### LoadBuffer

`Stat`, `Open`, `Map`, `DmaMap`, `Load`, `DmaUnmap`, `Out` are the steps that `aiopt_load` takes for either of its files;
`AlignedSize` is its rounding, which differs between the two. `Change` is another process that writes the file or takes its name,
at any time. A page behind the end of a file can be mapped but not shown to the device, as the kernel cannot pin it.

### Vfio

`fdt` is the descriptor table of the process; `files` is history, the descriptors that the rest of the process opened.
`Setup … SetupFailed` are the steps of `fsl_vfio_setup`; `PutGroup` is `vfio_put_group` with
`vfio_disconnect_container`. Callers hold `held` handles and do not know of each other; `torn` records that one of
them put the group while another held it. Descriptor 0 is taken as open, since the code uses 0 for "none".
Every ioctl may fail, those whose result the code does not look at too: unsetting the container, mapping the interrupt
region, and either of the two unmaps of `fsl_vfio_destroy_dmamap`, after which `msi_intr_vaddr` is cleared all the same.
`refused` is history: the kernel refused the last unmap of the interrupt region that it was asked for. The page that
`vfio_map_irq_region` maps into the process is never unmapped by the code and is not modelled.

### AiopCmd

`CheckHelp`, `FindSubcmd` (with `get_container_from_env`), `Option` (a round of the loop in `generic_cmd_hndlr`) and
`Mandatory` (the rest of the handler) are the steps of `parse_command_line_args`; `Applied` is its switch, one operator
per helper. `gvars` is one struct, so a path as long as its buffer puts its terminator on the next flag: the helpers of `-f` and `-a`
clear that flag (`Spills`), and a reader finds a longer path when the flag is set later (`PathRead`). Numbers pass
`atoi` and `strtoul` with the widths `IntWidth` and `LongWidth`. The properties compare with what the words mean
(`MeantToWork`, `LastValue`), which is defined over the whole line and not over the loop: a word is an option
(`OptionPlaces`) if an even number of words that take a value stands right before it and no word earlier ended the options.
`MeantToWork` comes from the usage text and the unit tests, not from the parser: which sub-command takes which option
(`Takes`), that what needs a value has one and that mandatory options are there (`WordsMeant`), and what a time may be
(`MeantTime`: a decimal number in range, or a hexadecimal one). The parser departs from it on the lines of `Disputed`: a
`reset -r`, and a `settod` whose time is hexadecimal, empty or out of range. Section 6 has a configuration for each of these.

### AiopTool

`main_pc` is the place in `main`. `CallInit`, `Operation` and `CallDeinit` start a call of `AiopLib`, `LibraryStep` is a
step inside it, `…Returns` what `main` does with the result. After a load the place is `blocked`, the `select` of
`perform_aiop_load` that nothing ends. `group` says whether the process has the VFIO group; `answered` is history, the
commands the MC answered in this run.

### ToolRuns

`owner` is the run that has the VFIO group. `aiopt_deinit` does not give it back, so `Gone` does. `Change` is one try at
a reset, load or start of the tile, and `NextChange` their order. Assumed of the kernel: one process has the group at
a time, and releasing it leaves the tile as it is.

## 3. The runs

| run | config | instance | shows |
|---|---|---|---|
| portal | `McPortal.cfg` | 2 processes, 3 parameters, 3 commands, 3 kinds of reply | inductive invariant, four safety properties, `PortalHandedOver`, `CallReturns`, and that `McPortal` implements `McRpc` |
| marshalling | `McCmd.cfg` | 19 commands, 3 flag words, 2 tokens, 4 values per field, 2 kinds of junk | headers, arguments, results |
| library | `AiopLib.cfg` | 2 session tokens | sessions, tokens, mappings, `CallEnds`, and that `AiopLib` implements `TileService` |
| vfio | `Vfio.cfg` | 2 groups for 1 slot, 2 handles, 2 regions, 5 descriptors | descriptors, handles, interrupt region |
| devices | `AiopDevices.cfg` | directories of 0 and 3 entries of 6 kinds, 3 calls, 8 descriptors | names, first objects, what is lost |
| load_buffer | `LoadBuffer.cfg` | 12 sizes, 2 changes of the file | reach of the device, pages |
| command_line | `AiopCmd.cfg` | every sequence of 0, 1 and 2 of 34 options and of 3 of 12, for each sub-command, 4 environments | verdict and settings |
| tool | `AiopTool.cfg` | 17 command lines, 2 tokens | calls, exit status, what is done to the tile, `RunEnds`, and that `AiopTool` implements `ToolRuns` |
| tool_runs | `ToolRuns.cfg` | 3 runs, all jobs | who has the group, `RunsEnd`, and that `ToolRuns` implements `TileService` |
| library_error, library_alien, vfio_irq | `AiopLibError.cfg`, `AiopLibAlien.cfg`, `VfioIrq.cfg` | as above | violations: see 6 |

A run whose module states fairness checks its liveness property under `FairSpec`, whose behaviours are among those of `Spec`
with the same reachable states, so that the safety properties lose nothing by it. Where a type invariant is not in a
run's list by its own name it is a conjunct of one that is (`HeaderSubmits`, `SettingsAreMeant`, `NamesAccounted`, `CallAsAsked`,
`GroupHeld`), or proved (`McPortal`, `LoadBuffer`).

Why the bounds are enough.
* *portal*: with two processes one can die at any point and the other find what it left; three commands are one
  left behind, one refused or answered, and one more; three registers give a first, a middle and a last one. The
  replies are OK and two errors, one of them a status that `mc_status_to_error` does not know. The safety
  properties are proved for all values of these constants (section 5).
* *marshalling*: the functions keep nothing between calls, so one call at a time covers them; the values set and
  clear the bits at the ends of every field (0, 7, 31, 63) and everything between, the flags include every bit, and a
  negative int is among the values.
* *library*: calls are sequential and the only state that grows is the set of sessions: with two tokens one can be
  leaked while another is in use, and both can be, so that `dpaiop_open` must fail.
* *vfio*: one slot each (`VFIO_MAX_GRP`, `VFIO_MAX_CONTAINERS`), two groups that want it, two callers that share
  it; five descriptors hold a group, a container, a device and a portal or file, and then run out. This run does not check for
  deadlock: a process that followed a null pointer has no next step.
* *devices*: two entries of one kind around one of the other are the first place where "first" can go wrong; a call
  loses at most three descriptors, so with eight a later call fails at each of its steps for want of one.
* *load_buffer*: sizes on both sides of every limit and of a page boundary; two changes of the file are one before and one
  after each step. The safety properties are proved for all sizes (section 5).
* *command_line*: the parser reads one option at a time and what an option does depends on at most two earlier
  ones (the flag a path overwrites, the value it replaces), so sequences of three suffice; among the values are each limit,
  its neighbours and numbers that wrap. An int has 6 bits and a long 8 there: large enough for 16 threads and small enough that
  a word of the command line passes both.
* *tool*: what `main` does depends on the sub-command, on how parsing ends and on four settings; the lines
  have each of them, and two with a path as long as its buffer. The library underneath is the whole of `AiopLib`.
* *tool_runs*: two runs compete while a third works, waits or dies.

Fairness. *portal*: weak fairness of the steps inside a call (the process is scheduled) and of the firmware
(it takes a command and answers it). Nothing is assumed of callers, deaths or restarts. Without the second the spin
of `mc_send_command` would not end, which is what its comment about a timeout says. *library*: weak fairness
of the steps inside a call; each of them returns, whether it succeeds or fails. *tool*: weak fairness of `MainStep`, the
process is scheduled. *tool_runs*: the same for each run, `WF(RunStep(r))`. No call is ever forced to happen, no
process to be started or killed, nor any step to succeed; a run that finds the group taken fails rather than waits, which is what makes weak
fairness enough.

## 4. The properties

* `NoTornCommand`, `ResponseIsOwn`, `StatusReadsAgree`, `ExecutedOnce`, `PortalHandedOver` (McPortal): what the
  order of the accesses is for, stated over whole commands and whole answers, deaths included.
* `ImplementsMcRpc`: every behaviour of `McPortal` is one of `McRpc`. A call in progress maps to "calling";
  *pending* is the command of each call that the MC has not taken, and the one a dead process left in the portal.
* `HeaderSubmits`, `ArgsDelivered`, `ResultsReturned` (McCmd): no field, flag or left-over bit reaches another field. `ArgsDelivered`
  speaks of every field whole, so that two layouts that overlap in a bit violate it.
* `SessionsAccounted`, `TokenIsLive`, `DmaBacked`, `NothingLeftBehind` (AiopLib): balance over every path of every call.
  `NothingLeftBehind` is about what a call opens for itself: the files of a load, their mappings in memory and for the
  device, and the `mc_io` of its session. It does not speak of what does stay: the descriptors and the directory that
  `aiopt_init` never closes (`LossBounded`) and the page of the interrupt region.
* `ImplementsTileService` (AiopLib): the tile and the answers of the library are those of one user after another: reset,
  load and run in order, each at most once and only as asked, and an answer that tells of them. That answer is promised
  for load and reset only; for the other calls the statement is false (6).
* `ImplementsTileService` (ToolRuns): what is done to the tile stays so with several runs at the same time, killed
  anywhere. Here a run gives no answer (the mapping has "none"), so nothing is said of answers; that the exit status tells
  of the tile is `ExitTells`, of one run after another.
* `NamesAccounted`, `FirstOfEach`, `LossBounded` (AiopDevices): no string is lost or freed twice on any error path or by
  a second `aiopt_deinit`; name and id belong to one and the first object; what is lost of the descriptors is bounded.
* `BufferFits`, `PagesReleased`, `LegalFileLoads` (LoadBuffer): three rounding rules that must agree: what is mapped, what is
  unmapped (by another size) and what the device reaches; `LoadInv` is their inductive invariant.
* `VerdictIsMeant`, `SettingsAreMeant` (AiopCmd): the loop over words agrees with what the line means. The first has two
  parts: an accepted line is one whose words may stand where they do, and outside `Disputed` exactly the lines of
  `MeantToWork` are accepted. On the disputed lines the parser is known to be at odds with its tests (6), and nothing is
  claimed of them but the first part. Of `-c` the second property promises nothing if the number does not fit an int, as that may
  wrap into the range (6, `ThreadsValid`).
* `CallAsAsked`, `ExitTells` (AiopTool): from the words of the command line to the tile and
  back to the exit status, with every failure in between. `ExitTells` is as much as holds: 0 is also the status of a line
  that was refused. `RunEnds`: every run but a load ends.
* `TileAsTyped` (AiopTool): no step does to the tile what was not typed. A reset of the tile needs the words `reset`, or `load`
  with `-r`, on a line that was meant to work, whatever the runs before it left behind.
* `ImplementsToolRuns` (AiopTool): a run of the whole tool is one of `ToolRuns`.
* `GroupHeld`, `LoadShutsOut`, `RunsEnd` (ToolRuns): the group keeps runs apart, a load that waits keeps all others out, and nobody
  waits for anybody.
* `DescriptorsOwned`, `StrangersKept`, `HandleReady`, `IrqNotForgotten` (Vfio). `HandleReady`
  is as much as holds: a handle shared by two callers does become a null pointer when one of them destroys it,
  or when a setup for another group finds the slot taken and goes to `cleanup`. So is `IrqNotForgotten`: with several
  mappings the first to be destroyed takes the interrupt region along, and no order of mapping, destroying, putting and
  setting up again leaves it mapped and forgotten, except that the kernel refuses to unmap it, when `msi_intr_vaddr` is
  cleared nevertheless (`fsl_vfio.c:198`).

## 5. The proofs

Every safety property of the passing runs, every action property and each of the four refinements is a theorem of its module's
specification, for all values of the constants. Liveness is left to TLC.

| module | holds for every | theorems |
|---|---|---|
| `McPortalProofs` | set of processes, number of registers, bound on commands, set of replies other than READY | `Typing`, `Invariance`, `NoTorn`, `OwnResponse`, `StatusAgreement`, `OnceOnly`, `HandOver`, `Refinement` |
| `McCmdProofs` | set of flag words, of tokens and of values, content of the bits between fields | `Submits`, `Delivered`, `Returned` |
| `AiopLibProofs` | finite set of session tokens | `Typing`, `Accounted`, `Live`, `Backed`, `LeftClean`, `HandleGiven`, `Refinement` |
| `AiopDetailProofs` (`AiopDevices`) | directory, limit of descriptors, number of calls | `Accounted`, `TakesFirst`, `Bounded` |
| `AiopDetailProofs` (`LoadBuffer`) | set of sizes, number of changes of a file | `LoadInvariance`, `Fits`, `Released`, `Loadable` |
| `VfioProofs` | set of groups, of regions and of descriptors, number of callers | `Invariance`, `Typing`, `Owned`, `Strangers`, `Ready`, `Irq` |
| `AiopCmdProofs` | set of words, of command lines and of environments, the usual widths of int and long | `Verdict`, `Settings` |
| `ToolRunsProofs` | finite set of runs | `Invariance`, `Held`, `ShutOut`, `Refinement` |
| `AiopToolProofs` | set of words, of command lines and of environments, finite set of session tokens, widths as for `AiopCmd` | `Invariance`, `Asked`, `Tells`, `OnlyAsTyped`, `Refinement`, `ServesTile` |

The assumptions on the constants are the ones stated in the modules, and TLC evaluates each of them in the module's run. Those of
`AiopTool` are the assumptions of its parts, and that the name which a garbled path stands for is one that nobody gave. Every
inductive invariant was checked by TLC on the run's instance before it was proved. Each proof of invariance has one lemma per action.

### McPortal

None of the safety properties is inductive alone: that the MC takes a whole command says nothing of the stores that
come before READY. `Inv` adds what each point of the protocol has established:

* `Ownership`: only the process that has the portal mapped is inside a call, and outside `spin` the portal is quiet;
* `Numbering`: commands are numbered, none belongs to two processes, none is executed twice;
* `Stored`: the parameters already stored are those of the command, up to the loop variable;
* `Submitted`: what the MC finds at READY, and holds while busy, is one whole command, left by a live or a dead process;
* `Awaited`: a polling process finds its own request or the whole answer to it, a reading one the whole answer;
* `Returned`: what a call hands back.

`WordFacts` says that requests and answers are different words; `RequestFacts` and `ErrorFacts` give the types of a command and
of the errno of a status. The properties follow from `Inv` by the lemmas `InvImplies…`.

`Refinement`: there is one lemma for each action of `McRpc`. Under the mapping of `McPortal`, `SendCommand` is a call,
`McFetch` the execution of a pending command, the read of the last word its answer; the accesses between them are stutters.
What the steps need is that at most one process is in a call (`OneInCall`, from `Ownership`), so that the set of pending
commands changes by one at a time.

### McCmd

A call is a straight line and each action happens once in it, so the invariant says at every place what the one before left:
`Answer` relates the parameters of the answer to the results of the firmware, `Unwritten` keeps the outputs until
`Decode`. The work is in the lemmas about bits: `mc_enc` and `mc_dec` of a field are inverse to each other for every word
whatever stands beside the field, and the fields of each of the 19 layouts are within the 64 bits and apart (`LayoutOK`, table by table).

### AiopLib

Five layers, each inductive with those before it. `Place`: where the call is, for its operation and arguments, and which commands
it can have sent. `Session`: a session is open exactly between the open and the close of a call, with the
token in the handle. `Buffers`: at each step of `aiopt_load`, which descriptors, mappings and DMA mappings exist; `DmaBacked` and
`NothingLeftBehind` follow. `Course`: what `trace` says was done and tried, and what `ret` and `result` then are, from the first
command to the return. `Handle`: at which places the caller has a handle, and that `aiopt_init` returns success exactly when it
gives one out. `Refinement` follows step by step from `Course`: a command that changes the tile is `TileService`'s change,
the close that makes up the result is a stutter, the return the answer.

### AiopDevices

`Place` is the step of the scan; `Strings` says for each step who has each block of the heap (the two locals, the name
in the handle), from which a free of a free block and a lost block are impossible; `First` says of the types taken that
no earlier entry was a link of their kind, and of the others that no entry up to here was; `Loss` counts open directories
and descriptors against the calls so far.

### LoadBuffer

The argument is in one
lemma about numbers, `Rounding`: for a size within its limit the rounded size ends with the page of the last byte,
so it has as many pages as the size itself. The rest carries that from `Stat` to `Out`: `Sized` keeps the size
within its limit, `Unmapped` and `Mapped` say which pages belong to it at each step, `Reached` and `Given` what the device
and the MC know of them. `PagesReleased` is not inductive alone, as it says nothing of the pages while they are mapped.

### Vfio

`Inv` joins the properties with what they say of each other: `Slots` (a group in the table has an open descriptor of its number,
and the container it is connected to a slot), `Course` (the group being built at each step of `fsl_vfio_setup`, and what
it has so far), `Device`, and `Callers` (while nobody tore the group away, a handle means that group, container and device are in
place). `DescriptorsOwned` and `StrangersKept` need each other: that a close hits no stranger's descriptor is because the
tables hold no stale number, and the reverse. Which number an open returns enters by one lemma, `MinIsLeast`.

### AiopCmd

The loop reads one option at a time; the meaning is stated over the whole line. `Runs`, `OnFlag`, `OnValue` and `AtEnd`
connect the two: the place of `optind` is always one where an option may start, each round adds exactly that place to
the options seen (`Seen`), and where none starts all have been seen. `Told` says what the globals are, given the options
seen; `Rounds` proves that a round of the switch keeps it, from `Applies`, the effect of each helper field by field, and from
`MaxOfLast`, as the option just read is the last. `Mandates` is the test at the end. What the parser takes is then a condition on
the words (`Passes`), and `Meanings` compares that with `MeantToWork`: it implies `WordsMeant`, and outside `Disputed` the two are
equal. `Ordinary` and `Numbers` are about `atoi` and
`strtoul` for ints of 16 or 32 bits (and the 6 of the run) and longs of 32 or 64 (and 8), with `Powers` for 2^64, which is beyond the
solvers' arithmetic.

### ToolRuns

`GroupHeld` needs two more facts, that a run has a job of those asked for (`JobGiven`) and that a run that has not
worked has done nothing (`Untouched`). `ShutOut` is an action property: a step of another run cannot pass its setup while
`owner` waits. `Refinement`: the owner's job is the service's job, and a run without the group can only leave.

### AiopTool

`main` calls two parts that have invariants of their own, so its proof is about what lies between them. `CmdP` and `LibP` are the
proof modules of the parts, instantiated on `main`'s variables; `SameParser` and `SameLibrary` say that their definitions are
those `AiopTool` calls, and `Moves` that a step of the tool is a step of the parser or none, and one of the library or none. From
that `Parts`, the invariants of the parts, needs no second proof (`PartsNext`). `Main` is what `main` adds:

* `Places`: how the places in `main`, parser and library go together;
* `Decided`: `conf` says what the globals do, and the library is called with it;
* `Held`: whether there is a handle, and whether the group is open, at each place, also if `aiopt_init` failed half way;
* `Told`: the answers of the MC in this run, which while the library works are its own record of what it made and missed, and
  afterwards are known by `main`'s result.

No property holds by itself: `CallAsAsked` needs that the globals of an accepted line mean its words (`Accepted`, from `AiopCmd`)
and that `main` copied them (`Decides`), `ExitTells` needs `Course` of the library at the return. `OnlyAsTyped` puts the two ends together,
`InitAsks` excluding that `aiopt_init` touches the tile. `Refinement`: one lemma per action of `ToolRuns` (`Run…`) says by what a step
is recognised in `View`, the variables that `ToolRuns` sees, and one per action of `main` (`Refine…`) which of them it is; that the next
command of the library is the next change of the run is `ChangeIsNext`. `ServesTile` composes it with the refinement of
`ToolRuns`, so that the whole tool implements `TileService`.

### What the attempts taught

* `SettingsAreMeant` once promised the default for every negative number of threads. With a long of 64 bits `-c -4294967292` is 4:
  the conversion to int wraps it into the range. TLC had missed it, as no negative word of its lines is that large. The property now
  speaks of the numbers that an int holds, and, in return, also of lines with a path as long as its buffer.
* `ArgsDelivered` once asked only that each argument can be read back, which fields that overlap can satisfy. It now speaks of
  the whole command.
* The place of a run under the refinement of `AiopTool` was a CASE with guards that overlap, of which TLA+ may take either. TLC takes the
  first, which is why it had found no fault; the guards now exclude each other.
* `OptionPlaces` was recursive, which no proof can use; it is now a condition on the words before a place, and TLC found the two equal.

* `VerdictIsMeant` once compared the parser with a condition that repeated its own test of a time, and so could not see that it
  takes what the unit tests refuse. `MeantToWork` is now read from the usage text and the tests, and `Disputed` names where
  the parser departs.
* `IrqNotForgotten` once held only because an unmap could not fail in the model. With the failure in, the kernel's refusal is
  the one way to violate it, which `refused` records.

### Only model-checked

* Liveness, `CallReturns`, `CallEnds`, `RunEnds` and `RunsEnd`: reasoning about fairness and ENABLED is beyond the prover used.

## 6. Where the code and its documentation disagree

Three of these are runs of the project:

* **`ErrorIsReturned`** (*library_error*). After `dpaiop_close`, `aiopt_gettod`, `aiopt_settod` and `aiopt_status` test `ret` where
  `result` was meant (`aiop_lib.c:849`): the error of the command is replaced by the success of the close and an
  uninitialised time is reported, and a failed close is not.
* **`ClosesItsOwn`** (*library_alien*). Without an argument file `aiopt_load` tests and closes `args_fd`, which was never assigned.
* **`IrqMapped`** (*vfio_irq*). `msi_intr_vaddr` is set before the ioctl it stands for; if that fails, later calls find the region
  "already mapped" (`fsl_vfio.c:214`) and the tile's interrupts have no mapping, until a `fsl_vfio_destroy_dmamap` clears it.

The others have a configuration each, for which TLC prints the counterexample (`tlc -config AiopCmdTime.cfg MCAiopCmd.tla`):

| property | config | what the code does |
|---|---|---|
| `VersionIsOptional` | `AiopLibVersion.cfg` | `init_aiop` comments that failing to read the service layer version "is not considered an error" and then returns that error (`aiop_lib.c:403`) |
| `ContainerReusable` | `VfioReuse.cfg` | the descriptor of a container is cleared "in case container reused", but its slot stays in use (`fsl_vfio.c:174`) |
| `OptionsKept` | `AiopCmdPath.cfg` | a path of exactly `MAX_PATH_LEN` characters is accepted; its terminator overwrites the flag of another option, or the flag continues the path (`aiop_cmd.c:220`, `:284`; `aiop_cmd.h:70`) |
| `TimeRefused` | `AiopCmdTime.cfg` | `settod` accepts a time that overflows, is negative or is empty; `unit_test.sh:180` and `:181` expect a refusal of the first two, and `aiop_cmd.c:427` calls them "too long a value, or a NAN" |
| `HexTimeTaken` | `AiopCmdHex.cfg` | `settod` refuses a hexadecimal time, as `strtoul` is given base 10; `unit_test.sh:182` expects success |
| `ResetTakesReset` | `AiopCmdReset.cfg` | `reset` refuses `-r`; `unit_test.sh:145` and `:150` give it |
| `UsersContainer` | `AiopCmdContainer.cfg` | a container name that is too long is dropped without a failure and the command goes to another container (`aiop_cmd.c:181`; usage text, `:731`) |
| `ThreadsValid` | `AiopCmdThreads.cfg` | any number of threads from 1 to 16 is accepted, and larger ones that wrap; `aiop_cmd.h:78` allows powers of two |
| `RunsToCompletion` | `AiopToolComplete.cfg` | a load waits for ever, a failed one too (`aiop_tool.c:215`); `TODO:17` calls the tool run-to-completion |
| `MajorIsMajor` | `AiopToolMajor.cfg` | the status command prints the minor version as the major one (`aiop_tool.c:270`) |
| `SizeIsOfData` | `LoadBufferSize.cfg` | the size of a file is taken by name before it is opened; the contents may be those of another (`aiop_lib.c:548`, `:627`) |

Seen in reading, without a run: `README` gives the time of `-t` in seconds and the usage text in milliseconds; the tool passes on what
it is given.

## 7. Not modelled

* Of the command line: abbreviated options, bundled flags (`-dv`) and `--option=value`, all handled inside `getopt_long`; the
  printing of usage and settings.
* The logger, two flags that gate printing and are part of `gvars`; the dummy operations and the unit test script, which replace the
  library by stubs that only print.
* Strings: the sysfs paths, `aiopt_get_state_str`, formatting. Ids and types of directory entries are values.
* Whether the tile still reads its arguments after `dpaiop_run`, when their mapping is destroyed: only the firmware knows.
* The page of the interrupt region in the process's own memory, which stays mapped until the process ends.
* Objects that are plugged while a run uses them, other than as calls that fail.
* Firmware that never answers, and portals mapped by two processes at once: excluded by the assumptions of section 2.

## 8. Plan

1. *Done*: `McRpc`, `McPortal` with proofs; `McCmd`; `AiopLib`; `Vfio`.
2. *Done*: `AiopCmd`; `AiopTool` over `AiopCmd` and `AiopLib`; `TileService`; `ToolRuns`; `AiopDevices`; `LoadBuffer` with proofs.
3. *Done*: the proofs about `ToolRuns`, `AiopLib`, `AiopDevices`, `Vfio`, `McCmd`, `AiopCmd`, and the refinement of `McPortal`.
4. *Done*: the proofs about `AiopTool`, from those about its parts, and the composition of its refinement with that of `ToolRuns`.
