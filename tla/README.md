# Peon in TLA+

Peon is an agent: a mission (a goal) is handed to a language model, which in a
loop either finishes or asks for a tool; a policy judges the request, the user
confirms the dangerous ones, and the result goes back to the model as an
observation. The program is sequential. What is hard about it is that a mission
outlives the process that drives it: `peon run` and `peon resume` are processes
that share two files, either may be killed anywhere, and an action such as
`delete_file` must never be run twice because of that.

All paths are relative to the repository; `runtime.py` is `src/peon/runtime.py`.

## Inventory

| Component | State | Operations | Interacts with | What makes it correct |
| --- | --- | --- | --- | --- |
| State machine (`state_machine.py`) | none | `transition` | called by the runtime | no event is ever refused |
| Runtime (`runtime.py`) | observations, pending confirmation, count of persisted events, event log | `run`, `resume_confirmation`, `resume_mission`, `save_checkpoint`, `persist_events`, `load_event_log` | reasoner, policy, executor (calls), storage (writes) | a confirmed action runs once; the pending request and the status agree; iterations bounded; context = history |
| Command line (`cli.py`) | none but the files | `run`, `resume`, `_drive_to_completion` | runtime, user, storage | what is on disk after any exit can be resumed, and resumes to the right thing |
| File storage (`storage.py`) | checkpoint file, events file, temporary files | `save_*`, `load_*` | runtime, other processes | each file replaced whole; the checkpoint a cell, the events a log |
| In-memory storage (`storage.py`) | a checkpoint, a list of events | the same | runtime | deep copies both ways |
| Context builder, event log | none; the events | `build_from_event_log` | runtime | this mission's observations, all of them, no others |
| Policy (`policy.py`, `guardrails.py`) | none; a `workspace_root` per process | `evaluate` | tool registry | rule order; nothing refused by a rule is run; rewrites converge |
| Reasoner (`reasoner.py`) | none across calls | `decide` | LLM | bounded retries, one kind of exception |
| Ollama provider (`providers/ollama.py`) | none | `generate` | HTTP | whatever goes wrong is a failed attempt |
| Executor (`executor.py`) | none | `run` | tools | contains whatever a tool does |
| Tools and workspace (`tools/`, `workspace.py`) | the user's files | `execute` | operating system | every failure is reported as one |
| Tracing (`tracing.py`) | open spans | `start_span` | every caller above | spans nest, close, and tell of the right exceptions |
| Tool registry, models | registry contents | lookup, validation | | a validator never fires in the middle of a mission |
| Prompts, composition | none | formatting, wiring | | |

Hard behaviours: kills between any two of {checkpoint write, events write, effect
of a tool, question to the user}, and inside a write; two files that are not
written together; state kept twice (list and log, memory and disk, object and
copy); counters that must survive a restart; retries; exceptions that leave in
the middle, of a call the caller may repeat; a policy that is another one after a
resume. There is no concurrency inside a process. Two processes at a time are
outside the documented use (ARCHITECTURE.md:36-60), but nothing prevents them, so
`FileStorage` lets them save at once. PROJECT.json lists each hazard at its line.

## Modules

| Module | Models |
| --- | --- |
| `StateMachine` | the transition table, as pure operators |
| `ContextBuilder` | how the observations of the current mission are read from an event log |
| `Runtime` | one action per handler of the runtime, as the command line calls them |
| `PeonCli` | the two commands over `Runtime`, crashes, the specification and its properties |
| `ConfirmedOnce` | abstract: what the confirmation gate promises of a high-risk action |
| `RuntimeClient` | the public methods of `Runtime` over `InMemoryStorage`, in any order, by a program that survives exceptions |
| `FileStorage` | the steps of `save_events` and `save_checkpoint`, by any number of processes |
| `AtomicStore` | abstract: a store whose saves take effect at one instant |
| `Policy` | the rules and their chain, on classes of actions |
| `BuiltinTools` | what the tools of `tools/` make of their arguments and of the system's answers |
| `OllamaProvider` | how one exchange with the model can go, and what becomes of it |
| `Tracing` | the spans that are open and the exceptions recorded in them |
| `ReasoningCycle` | the inside of one cycle: attempts, verdict, run of the tool, spans |
| `ContextBuilderProofs` | what an event that is appended does to the context, for any log |
| `PeonCliProofs`, `PeonCliDiskProofs`, `PeonCliGateProofs`, `PeonCliJournalProofs` | theorems about `PeonCli` |
| `RuntimeClientProofs`, `FileStorageProofs`, `ReasoningCycleProofs` | theorems about the other three specifications |
| `MCPeonCli`, `MCRuntimeClient`, `MCFileStorage`, `MCReasoningCycle` | instances for TLC |

There are four specifications, of the same program at four grains:

- `PeonCli` extends `Runtime`, which extends `StateMachine` and `ContextBuilder`;
  it refines `ConfirmedOnce`. It takes one save to be atomic.
- `FileStorage` is the inside of a save. It refines `AtomicStore` twice, as a cell
  (the checkpoint) and as a log (the events), which is what `Runtime` builds on.
- `ReasoningCycle` extends `Policy`, `BuiltinTools`, `OllamaProvider` and
  `Tracing`. It opens up the two calls that `Runtime` leaves open: its `finished`,
  `reasoning_error`, `reasoner_raised` and `policy_raised`, the four verdicts and
  the three ends of the executor are the disjuncts of `Decide` and `Execute`.
- `RuntimeClient` extends `StateMachine` and `ContextBuilder`, and asks which of the
  guarantees of `PeonCli` are the runtime's own and which need the order in which
  the command line makes its calls.

### State and actions of the core

The process is one thread, so control is one variable, `stage`. A stage is a
point where the process can be killed or an exception can leave: the head of the
loop, the call of the reasoner, the call of the executor, each durable write
(`*_checkpoint`, `*_events`, and `returned`, where `_drive_to_completion` saves),
the question to the user. What the code does between two such points is one step.

`mission`, `pending`, `log`, `observations`, `persisted` are the fields of the
process's memory and are forgotten when it ends (`ForgetMemory`); `checkpoint` and
`eventsFile` are the two files. `current` is the local `request` of
`resume_confirmation`. Ghosts: `history` (the observations the mission has
really gone through, saved with the checkpoint as `savedHistory`), `executions`
(per request), `decided` (per mission), `started` and `issued` (fresh ids).

Abstractions: goals, reasons, summaries and outputs are left out, but for whether
an observation's text holds a character that breaks a JSON line (`Texts`); of an
action in `Policy` only what some rule tells apart is kept; a mission's and a
request's UUID are numbers; timestamps are gone. `Checkpoint(mission=...)`
on a mission past its limit raises, because a validator of mode `after`
(models/mission.py:35) runs on an instance too, so nothing past its limit reaches the
disk and every checkpoint there can be loaded: cli.py:229-233 is about a file
damaged from outside, which is not modelled. One save is atomic, as
temporary file plus `os.replace` makes it for a killed process; power loss is not
modelled. A save that fails with an I/O error leaves memory and disk as a kill at
that stage does, so it has no action of its own. An effect of a tool may have happened when the process is killed during
it (`CrashAfterEffect`) or not (`Crash`). An abort at the question is a `Crash`
there. The runtime never sends `AbortRequested`; the state machine has it.

### State and actions of the others

`FileStorage`. Per process, `save` is the call under way and the step it has
reached. A batch of events or a checkpoint is the serial number of the save that
brought it, so that a file's content says who wrote what; `temp` is the directory's
temporary files, by the save that made them, where they stay if nobody removes them. `RaiseEarly` is anything before `mkstemp` returns
(a directory, the old file or the serialiser refuses); `LeaveTry` and `CleanUp` are
the handler, `UnlinkFails` the handler whose `os.unlink` is refused; `Interrupt` is a
Ctrl-C where no handler stands; `Kill` is the end of the process, which may come back
and save again. Ghosts: `acknowledged`, `orphaned` (the saves that could not remove
their temporary file), and `overlapped`, whether two saves of events were ever under
way at once.

`RuntimeClient`. A `Mission` is a mutable object and a `Checkpoint` refers to one, so
missions live in `objects`, by slot: the slots of the client and one of the storage.
What is pending, stored or kept refers to slots. After `run` the loop goes a cycle
at a time (`Observe`, `Pause`, `Finish`, ...), each with the way it can raise;
`resume_confirmation` goes through its two saves (`consuming`, `concluding`), each of
which can raise before, between or after its writes. An exception gives control
back to the client, which may call anything next. Ghosts name the cases in which
the code promises nothing: `stale` (a checkpoint was resumed whose request is not
the one that storage holds), `mixed` (a mission was resumed behind the back of a later
one, or on a log that holds events and does not say that they are its own), `apart` (recording an observation raised half-way, or a new `Runtime` has not
resumed), `doubted` (`save_events` raised after it had its effect).

`ReasoningCycle`. One cycle after another; `step` says where it is, `answers` holds the
classes of answers the reasoner got, until what it decided has been judged. Of an
action there are left its tool and the class of each argument, of the system's answer
to a tool its class. Some paths and commands cannot even be handed to the system (a
NUL, a character without an encoding): pathlib and `subprocess` then raise `ValueError`,
whatever the system would have answered, and so does the rule that resolves such a path. `rooted` says
whether this process restricts paths; `ResumeUnderOtherRoot` changes it while an
action awaits its confirmation, as `peon resume` can (cli.py:251), and
`judgedRooted` remembers what the action was judged by.

## Runs

| Run | Question | Result |
| --- | --- | --- |
| `crashes` | what survives a kill at every stage, 2 missions, 2 requests, limits 1 and 2, line-breaking texts | holds, 209,296 states |
| `resume` | does a resumed process continue with the history of the one before, when no kill falls between the two writes of a save; 3 requests, line-breaking texts | holds, 89,899 states |
| `liveness` | does every command end, with kills anywhere | holds under `FairSpec`, 79,600 states |
| `cycle` | what the guardrails let through, when retries stop, what failures become, what is traced | holds, 1,391,006 states |
| `client` | what the runtime guarantees to a program that makes its calls in any order | holds, 2,861,281 states |
| `storage` | what two processes saving at once, killed anywhere, leave in the files and in the directory | holds, 105,803 states |
| `torn_pause` | the claim of cli.py:123-126, with a kill between the two writes | violated |
| `exhausted` | the claim of ARCHITECTURE.md:644-646 on a mission that reaches its limit | violated |
| `splitting` | the claim of storage.py:62-63 on text with U+2028 and the like | violated |
| `tool_bug` | the claim of executor.py:23-24 on exceptions without a message | violated |
| `answer` | the claim of reasoner.py:63-65 on answers `json.loads` chokes on | violated |
| `lost_events` | the claim of storage.py:68-69 on two saves that overlap | violated |

The properties, by what they are about:

- once only: `AtMostOnce`, `ConsumedBeforeExecution`, `AnswerSavedFirst` (no answer is
  acted upon before it is on disk, denials included), `RefinesConfirmedOnce` under the
  command line; `OnceUnlessStale` for any client;
- the gate: `AwaitingHasRequest` (the assertion of `_drive_to_completion` and both
  errors of `resume_confirmation`); `ExecutionJudged`, by the policy of the process that
  judged the action: the one of a process that resumes and runs it is never asked,
  which is documented (cli.py:223-225);
- the budget: `DecideBudget`, `RetriesBounded`, `RewriteConverges`, `EveryStepSpends`,
  `EveryCommandEnds`;
- failures: `CallFailuresRetried`, `BuiltinFailuresReported`, and `ToolBugsContained`,
  `ReasonerRaisesOnlyInvalid`, which the code does not keep;
- one file: `FilesWhole`, `NoStrayTemps`, `CheckpointAtomic`, and
  `EventsAtomicAlone` as long as saves do not overlap; `EventsAppendOnly`, which the
  code does not keep when they do;
- the two files of a mission: `CheckpointMonotone`, `JournalChained`,
  `SnapshotMatchesJournal`, `DecidedEndSaved`; and `FinalStateSaved`,
  `EventLogStaysReadable`, which the code does not keep;
- the storage of a client: `EventsStoredOnce` (unless `doubted`), `StoredCheckpointFrozen`;
- the context: `ObservationsMirrorLog`; `ContextFaithful` (kept, like `JournalChained`
  and `SnapshotMatchesJournal`, unless a kill separates the two writes); `ListMatchesLog` (unless `apart`) and
  `OwnObservationsOnly` (unless `mixed`) for any client;
- the trace: `SpansTellTheTruth`;
- types: `TypeOK` (also: no transition is refused), `ClientTypeOK`, `StorageTypeOK`,
  `CycleTypeOK`.

Bounds. Two missions are what it takes for one mission's events to leak into the
next one's context and for one checkpoint to replace another; a second request is
what it takes for a resolved one to be confused with a fresh one; limits 1 and 2
give a mission that ends at once and one that resumes with an iteration left. The
number of processes, kills and resumes is not bounded. In `cycle` all classes of
actions on five tools, the four built-in ones and one with a closed schema, meet
all exchanges and all answers of the system; two attempts is the default of the
code and the number of cycles is not bounded. In `client` seven calls are enough for
two missions that pause, a save, a resume from it and an answer, with an
exception on the way; three objects, for one mission to exist as the object that
`run` returned and as two loaded copies. In `storage` three saves by two processes are enough
for one to lie between the read and the rename of another and for a third to find
what they left. All of these properties but liveness are proved for all bounds, see below.

Deadlock is checked in the runs of `PeonCli`. A reasoning cycle really stops when it
has finished or raised, a client and the two processes of `storage` need not call
anything more, so those runs do not check it.

Fairness. `FairSpec` asks that a running process goes on (`WF_vars(Proceed)`).
The call of the model returns because it has an HTTP timeout; the user answers or
aborts; `run_command` has no timeout, so a command that never returns is assumed
away. Nothing obliges anybody to type a command, and kills need not stop.

## Findings

1. `exhausted`: a mission past its limit cannot be saved (`runtime.py:241`, `models/mission.py:35-39`).
2. `torn_pause`: checkpoint and events are two writes, and the order chosen lets a
   resumed mission reason without its history or with another mission's (`cli.py:127`).
3. `splitting`: `str.splitlines` and JSON Lines disagree on U+2028, U+2029, U+0085
   (`storage.py:100`).
4. `tool_bug`: `ExecutionError` refuses a blank message inside the executor's own
   handler (`executor.py:28`).
5. `answer`: `json.loads` raises more than `JSONDecodeError` (`reasoner.py:48`).
6. `lost_events`: `save_events` reads and rewrites the file without a lock; when two
   overlap, the later rename drops acknowledged events (`storage.py:81`).

## Proofs

Everything below holds for every value of the constants, from the named
assumptions on them only: `MissionsAssumption`, `RequestsAssumption`,
`LimitsAssumption` and `CrashAssumption` (`Runtime`, `PeonCli`), `ClientAssumption`,
`SavesAssumption`, `AttemptsAssumption`. `Tools` and `SpecOf` of `Policy` are any.

| Module | Theorem | Property |
| --- | --- | --- |
| `PeonCliProofs` | `TypeCorrect` | `TypeOK` |
| | `NeverTwice` | `AtMostOnce` |
| | `ConsumedOnDisk` | `ConsumedBeforeExecution` |
| | `RequestAtHand` | `AwaitingHasRequest` |
| | `BudgetRespected` | `DecideBudget` |
| | `AnswerIsSaved` | `AnswerSavedFirst` |
| `PeonCliDiskProofs` | `CheckpointForward` | `CheckpointMonotone` |
| | `EndSaved` | `DecidedEndSaved` |
| | `StepsAreSpent` | `EveryStepSpends` |
| `PeonCliJournalProofs` | `ListMirrorsLog` | `ObservationsMirrorLog` |
| | `ContextIsTrue` | `ContextFaithful`, if `NeverTorn` |
| | `JournalIsChained` | `JournalChained`, if `NeverTorn` |
| | `SnapshotIsJournals` | `SnapshotMatchesJournal`, if `NeverTorn` |
| `PeonCliGateProofs` | `ImplementsGate` | `RefinesConfirmedOnce` |
| `FileStorageProofs` | `StorageTypes` | `StorageTypeOK` |
| | `FilesStayWhole` | `FilesWhole` |
| | `NoTempAstray` | `NoStrayTemps` |
| | `CheckpointIsACell` | `CheckpointAtomic` |
| | `EventsAreALog` | `EventsAtomicAlone` |
| `RuntimeClientProofs` | `ClientTypes` | `ClientTypeOK` |
| | `RunOnceUnlessStale` | `OnceUnlessStale` |
| | `StoredOnce` | `EventsStoredOnce` |
| | `StoredIsFrozen` | `StoredCheckpointFrozen` |
| | `ListIsBuilt` | `ListMatchesLog` |
| | `OwnObservations` | `OwnObservationsOnly` |
| `ContextBuilderProofs` | `BuildRecorded` | (what recording an observation does to the context) |
| `ReasoningCycleProofs` | `CycleTypes` | `CycleTypeOK` |
| | `OnlyJudgedRun` | `ExecutionJudged` |
| | `RetriesEnd` | `RetriesBounded` |
| | `CallFailuresStay` | `CallFailuresRetried` |
| | `BuiltinsReport` | `BuiltinFailuresReported` |
| | `SpansTrue` | `SpansTellTheTruth` |
| | `RewritesConverge` | `RewriteConverges` |

`BuiltinsReport` and `OnlyJudgedRun` are about the guardrails as they are (`DefaultRules`
in their order) over arbitrary tools; the built-in tools and their answers are those
of `BuiltinTools`.

`PeonCliProofs`. None of its properties is inductive. The argument has three layers,
each using the one before:

- `TypeInv`: types plus `Control`, which ties the status of the mission to the
  stage (`StatusByStage`) and says that a request is pending exactly while its own
  mission is AWAITING_CONFIRMATION, in memory and on disk (`PendingWhileAwaiting`).
  Typing needs it: the state machine accepts an event only in the right status.
- `Bookkeeping`: every request that memory or disk still knows of is unspent
  (issued, not run), and when a confirmed action is about to run the disk holds no
  request any more. So the one step that counts an execution counts a request that
  nothing can bring back.
- `Accounting`: a mission in memory is within its budget, and the one on disk is
  as long as it can be resumed. The clause that makes it inductive: while the
  reasoner may be asked again, the checkpoint does not offer an older count of the
  same mission, for it asks nothing. That clause is `AnswerSavedFirst`.

`PeonCliDiskProofs` adds `EndKept` (a mission that did not run into its limit is within
it, the final checkpoint holds it, and no checkpoint on disk is past its limit) and `Ahead` (a running process is never behind
the checkpoint on disk): what the next write replaces is then never newer than
what it writes. Its last part is about time instead of disk: `Remaining` counts ten
steps for each cycle the budget leaves and, within a cycle, how far the stage is
from its end. No step of a process that does not end it leaves `Remaining` as it
was, whatever is decided, refused, confirmed or denied; `OnePast` says that a
mission is one cycle past its limit at most. This is the part of
`EveryCommandEnds` that is not fairness.

`ContextBuilderProofs`. The builder cuts the log at the last MISSION_CREATED and
maps what is left. `ContextBuilder` states a sublist as the set of its positions, so
that the n-th observation is the one with n positions up to it: what an appended
event does to it follows from facts about cardinalities, without induction over the
log. Events that are no observation and start no mission change nothing (`BuildKept`),
an observation is appended (`BuildRecorded`), a MISSION_CREATED empties the context
(`BuildStarted`).

`PeonCliJournalProofs`. `ContextFaithful` and its companions are about a file that is
always behind the memory that will be appended to it, and for a moment behind
the checkpoint. The invariant is therefore not about the file but about `Whole`, the
file as the next `persist_events` will leave it: it tells the missions' lives in one
chain, ends in the status of the mission in memory and yields its observations
(`Told`). A save turns it into the file; a kill forgets what is not saved, and then
`Matching` says that the file yields what the checkpoint was saved with. That
needs `NeverTorn`, a hypothesis on the behaviour: in no step of it is a process killed
between the two writes of a save. The run `torn_pause` shows that the code does not
keep `ContextFaithful` without it. Kills at all the other stages are allowed, and
texts that make the file unreadable, which every command then refuses.
`TornOnlyByKills` shows that the hypothesis holds of every behaviour of an instance
such as the run `resume`, whose `CrashPoints` leave out those stages.
`ListMirrorsLog` needs no such hypothesis.

`PeonCliGateProofs`. The refinement maps each request to a phase: unissued, open,
granted, executed, dropped. The phase depends on the counter, the executions and on
who knows the request (`PhaseOf`). Every step either moves no request (`NoMove`), or
lets memory or disk forget one (`OneLost`, `MemoryLost`), or runs the current one
(`CurrentRun`), or issues or grants one; each of these is a step of the gate. That a
request which is still known has not been run is `Bookkeeping`.

`FileStorageProofs`. `StorageInv` says what the temporary file of each save holds at
each step, and that no two saves under way share one (`Temps`), that a file which is there
has a save in charge of it or an excuse (`NoStrayTemps`), that nothing is stored or was read twice (`Stored`), and that a save
that has yet to rename has an item no file holds (`Fresh`): without the last, an item
could be stored a second time by a save that overlaps. The two refinements share one
lemma, `StepSeen`: each step is a call, an effect, a return, a loss, or nothing, as
`AtomicStore` sees it. The cell needs nothing more; the log needs `Alone`: the one save of events
under way has read what the file holds.

`RuntimeClientProofs`. `Heap` (whose slot is whose: storage's copy is in no client's
hands), `Answerable` (a request that can still be answered has not been run, unless
`stale`; one being carried out is no longer stored) and `Journal` (storage holds the
events up to `persisted`, behind those the runtime did not load). `Owned` says which mission
is driven and which one each request is of, `Told` what the log and the storage say of
the mission started last: that its MISSION_CREATED is in them and the observations
behind it are its own. The attempt to prove
`OwnObservationsOnly` showed the second case of `mixed`, which takes ten calls: a
checkpoint is saved without its events, a new `Runtime` resumes it and persists
observations that no MISSION_CREATED precedes, and a later mission, of which
again only the checkpoint was saved, is resumed on those. Without a MISSION_CREATED the
builder takes all events for the mission's (context_builder.py:57-69).

`ReasoningCycleProofs`. Three independent invariants: `Attempted` counts the attempts and
their answers, `Judged` keeps what the verdict on an action let through until its tool
has run, `Nested` says which spans are open at each step. `Typed` rests on `Judged`. That
a rewrite converges rests on `SuggestedFacts`: the command a rewrite suggests is in a form that
no rule rewrites again.

Each of these invariants has been checked with TLC within the bounds of the runs too.

Only model-checked: liveness (`EveryCommandEnds`), as fairness is out of this prover's
reach. `StepsAreSpent` proves what it rests on: with it, a process that takes steps
ends, and that it takes them is the assumption of `FairSpec`. Every other property of
a run that passes is proved.

## Plan

Done: the runtime under the command line, with crashes, resumes and the refinement
of the gate; the storage and its refinement; the runtime under any client; the
cycle with the policy, the tools, the provider and the trace; a theorem for every
property of these but liveness.

Left, in this order:

1. One abstract specification of a cycle as its caller sees it, which both `PeonCli` and
   `ReasoningCycle` implement: that the answers of the three calls which `Runtime` leaves
   open are those `ReasoningCycle` gives is so far said in this file only.
2. Two processes that drive one checkpoint at the same time: both may ask about its
   request and run its action. `FileStorage` has the saves of such processes, no module
   their missions.
3. `max_attempts`, limits and options as the constructors validate them
   (`OllamaConfig`, `Mission`), so that every early exit of the commands has its cause.
4. Power loss: `os.replace` without `fsync`.

## Not modelled

- Prompts: a function of the context to text, without state.
- Composition but for the policy of each process, and the command line's option
  parsing and printing: wiring and wording. The refusals they lead to are
  `RunRefused` and `ResumeRefused`.
- `OllamaConfig`'s validation (same refusals), the wording of the HTTP request.
- The effects of tools on the user's files: not part of the program's state; that
  an effect may have happened or not when the process dies is.
- Two simultaneous missions over the same files, and power loss: see the plan.
- A tracer that raises: none of the repository does.
- Files damaged by something other than the program.
