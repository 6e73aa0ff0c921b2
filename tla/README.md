# A TLA+ verification of IDEL

IDEL runs commands for people, CI jobs and language-model agents. Whatever is
typed is parsed, looked up in a registry, rated for danger, decided by a policy,
perhaps approved by a human, executed by an adapter and recorded in a signed log.
Around that chain there are several ways in: a terminal, a local server with a web
page, agents, functions, an editor extension and a desktop application. This
directory states what chain and ways in are supposed to guarantee, model-checks it
with TLC and proves a part of it with TLAPS.

`PROJECT.json` is the index: every component, run, property, mutant (a plausible
bug that the property catches), theorem and hazard, and for each definition the
source lines it models. Paths below are relative to `src/packages`, but for
`desktop/main.cjs`, which is relative to `src`.

## 1. Inventory

| Component | State | Operations | Talks to |
|---|---|---|---|
| OpenLogs append lock, `openlogs/src/writer.ts` | the lock file and its age | `withAppendLock`, `reclaimStaleLock` | other processes, through the file system |
| OpenLogs writer, `writer.ts`, `keys.ts` | log, signing key, trust file, checkpoint; a promise queue per process | `append`, `verify`, `assertReady` | the lock; called by the runtime |
| Runtime, `runtime/src/runtime.ts` | the installed approval handler, the latched audit error; each run's locals between its awaits | `run`, `preview`, `setApprovalHandler` | all of the rest |
| Safety, `safety/src` | none (reads the file system) | `assessAst`, `assessResolved` | called by the runtime |
| Policy, `policy/src` | none | `evaluate` | called by the runtime |
| Server, `server/src/server.ts`, `service.ts` | parked agent approvals with timers, single-use run approvals, open streams | run, approve, batches, agent stream, close | runtime, agents, browser |
| Agents, `agent/src` | the conversation of a call | rehearse, gate, run for real | server approvals, runtime |
| Native terminal, `server/src/native-terminal.ts` and `web/public/terminal.js` | sessions, listeners, backlog; tabs and their generations | start, input, signal, close, exit | child processes, event streams |
| REPL, `cli/src/terminal.ts` | line queue, flags `draining`, `stop`, `inputEnded` | line, prompt, interrupt, end of input | runtime, approval handler |
| Web client, `web/public/terminal.js` | command line, approval cards, rules, editor tabs with undo history | type, run, answer, save, reload | server |
| Functions, `function/src`, `cli/src/function-command.ts` | nonce file and its lock, rows, evidence chain | admit a request, execute steps | runtime through invoke |
| Registry, `registry/src`, `cli/src/learn.ts`, `promote.ts`, `registry-verify.ts` | drafts, promoted definitions, their signatures, trust store | learn, promote, verify, load | the runtime asks it for definitions |
| Parser and completion, `parser/src`, `server/src/complete.ts`, `cli/src/complete.ts`, the readers in `terminal.js` | none; the field's pending completion | split, tokenize, parse, complete, quote | everything that reads or writes a line |
| Structures, `structure/src`, `vscode-idel-language/src` | none; a document's timer and diagnostics | parse, check, canonicalize; open, change, refresh | the editor |
| Managed server, `vscode-extension/src/extension.cjs` | the child and its URL | start, stop, ensure, dispose | a server process, the port |
| Desktop, `desktop/main.cjs` | window, runtime, timer, workspace file | start, quit, choose a workspace, relaunch | a server process, the page |
| File adapter, `adapters-posix/src/node-adapter.ts` | none (the file system) | the file commands, `tail` | other programs, through the file system |
| Meta output, manifests, preferences, Java bridge | none that matters here | | |

What is hard, by component, and what would make it correct:

* **Append lock.** Several processes race through open, inspect, rename, unlink;
  owners die; files age. Correct: one owner at a time, nobody takes a live owner's
  lock, a dead owner's lock does not block the log, every waiter ends.
* **Writer.** A crash or a failed write between any two of four files; removal of
  files by others. Correct: what `append` acknowledged is in the log, whole and
  once; a log in use stays usable; what was removed is noticed; a check before
  execution agrees with the append after it; the queue goes on behind a failure.
* **Runtime.** Runs interleave at every await; the record is written after the
  effect. Correct: nothing is executed without permission; what the record says is
  true; a lost record is reported and shuts the object; preview tells the truth.
* **Safety and policy.** Two definitions of one command, two looks at a target, a
  missing estimate, rules in order. Correct: no source of risk is lost, CRITICAL
  has a floor.
* **Server, agents.** Disconnects, time-outs and answers race; ids are single-use.
  Correct: one answer settles an approval, nothing stays parked, what was approved
  is what is run, once.
* **Native tabs.** A restarted tab gets answers meant for the one before; a closing
  shell lingers; streams break and are opened again. Correct: keys arrive once and in
  order, no output is missing, every shell that is closed ends.
* **REPL.** Input that ends, prompts on the same readline, ^C in the middle.
  Correct: lines run once, in order and with the consent they need; piped input drains.
* **Web page.** Answers to saves, previews and approvals come late, in any order or
  not at all. Correct: no text is lost unasked, the risk shown is that of the text
  there is, a card says what the server did.
* **Functions.** Single use across processes, refusals half-way. Correct: a nonce is
  used once; the store has no row the evidence does not know of; one chain.
* **Registry.** A promotion is three writes, a session reads the files one by one.
  Correct: what is loaded is what was signed; a command is in one writable layer.
* **Readers of a line.** Parser, server, CLI and page each read it with code of
  their own. Correct: they agree, and what one writes another reads back.
* **Structures.** A second, older parser in the editor; a timer and a lazy import.
  Correct: the diagnostics are those of the text, the canonical text means the same.
* **Managed server, desktop.** Starts, stops, ends and time-outs cross. Correct: no
  server runs on that nobody will end; a person is told once when the runtime is gone.
* **File adapter.** A path changes between assessment and use. Correct: a file is
  only changed by the command that names it; `tail` shows the last lines.

The full list of hazards, each at its line, is in `PROJECT.json`.

## 2. Modules

```
  Mutex <--implements-- AppendLock      AuditLog <--implements-- OpenLogWriter
                                                                      .
                 Safety <- Policy <- Runtime --implements--> CommandGate
                                        .
                                     Server --implements--> Approval

  FrontEnds = Repl | WebConsole | WebEditor | FunctionRuns | Registry

  Workbench = NativeTerminal | CommandLine -> CommandText | StructureEditor -> Structure
            | ServerManager | DesktopShell | NodeAdapter
```

| Module | What it is |
|---|---|
| `Mutex` | what a user of `withAppendLock` relies on |
| `AppendLock` | the lock-file protocol, one action per file-system call |
| `AuditLog` | what `append` promises: durable, then acknowledged, never lost |
| `OpenLogWriter` | the writer's files, queues, crashes and damage, over the abstract lock |
| `Safety`, `Policy` | pure operators: the two assessments, rule matching and decision |
| `CommandGate` | what a caller of `Runtime.run` relies on |
| `Runtime` | `run` and `preview`: concurrent runs of one Runtime object |
| `Approval` | what a person relies on who answers through the server |
| `Server` | agent streams, commands and batches, both tables of approvals, shutdown |
| `Repl` | the interactive terminal |
| `WebConsole`, `WebEditor` | the page's command line with its approvals; its editor tabs |
| `FunctionRuns` | runs of functions over their shared files |
| `Registry` | drafts, promotions and sessions over theirs |
| `NativeTerminal` | native shell sessions and the tabs that show them |
| `CommandText`, `CommandLine` | pure operators that read and write a line; the field with its completions |
| `Structure`, `StructureEditor` | pure operators of the structure language; a document in the editor |
| `ServerManager` | the editor extension's server |
| `DesktopShell` | the desktop application |
| `NodeAdapter` | file commands among other programs |
| `FrontEnds`, `Workbench` | the parts that share no state, side by side |
| `MC*` and `*.cfg` | the instances TLC checks |
| `*_proofs` | the theorems |

The levels are joined by their promises: `OpenLogWriter` has one `holder` at a
time because `AppendLock` implements `Mutex`, as long as no two reclaims overlap; `Runtime` has a log whose append
either succeeds with its record in the log or fails with or without it, because
`OpenLogWriter` implements `AuditLog`; for `Server` and `Repl` a run is one step that
decides and acts, because `Runtime` implements `CommandGate`.

The parts of `FrontEnds`, and those of `Workbench`, have no state in common: they run
in other processes or other objects of a page, and their only meeting place is the
server, which each sees as a source of answers that may be late, lost or different
from one time to the next. `face` says which part moves in a behaviour; the others
stay as they start. One state space and one configuration thus check five or six
modules, each with all of its interleavings.

### AppendLock

`lockFile` is the token in the file at `<log>.lock` (a caller has one per use and
owns one file at a time, so the caller is its token), `written` that its JSON is
there, `aged` that `lockStaleMs` has passed. `pc` follows the loop of
`withAppendLock`: `open` (line 387), `write` (389), `held` (418), `closing` and
`unlink` (422, 424), `inspect` and `rename` (`reclaimStaleLock`), `wait` (411-414).
A rename or unlink acts on the path, whatever file is there by now, and a write
goes to the file that was opened: that is where the race is.

Abstractions: read, stat, age test and liveness probe of `reclaimStaleLock` are one
step; the tombstone's unlink belongs to the rename; process ids are not reused.
`Orderly` names the deployments the protocol is made for: one machine, whose processes
can be probed, and an owner that fills its file within `lockStaleMs`. Any number of
callers may reclaim, as by default every writer does. `OneReclaimAtATime` says of a
state that no two of them are between inspection and rename. Both are assumptions of the
theorems, not of the module; the second is the race, and nothing else.

### OpenLogWriter

`log` (with `newline`, whether it ends in one), `keyFile`, `trust` and `checkpoint`
are the four files, `mem` what the running append has read of them, `queue` the
promise chain of each process, `acked` the appends that resolved. `phase` is the
append's place in `appendLocked`; each phase ends at a file access or a check, and
every check has its refusal. A record's hash is its identity; a line is whole, cut
short, or shared by two records when the first lost its newline (`RunTogether`). `verify` and
`assertReady` change nothing and are the predicates `VerifyOk` and `ReadyOk`.

`Damage` is what others may do: truncate the log, remove one of the files. When all
evidence of a history is gone (with configured keys: log and checkpoint; with a
local trust file: that too) the code cannot tell the files from a fresh
deployment, and `acked` starts over. That is the limit of `TamperEvident`.

### Safety, Policy, Runtime

A target is the place it normalizes to plus its glob, traversal and flags; a
definition is what it declares about a command and whether it finds a target
there; the file system is one look per run (`Facts`). A finding is its level; LOW
ones say nothing more and are left out. Not modelled: path normalization, the
native scanner's patterns (its answer, HIGH or CRITICAL, is `scan` of a request)
and the network rules.

A run's `pc` stops at each await of `run`: `ready` (`assertReady`), `parse` (with
the resolved assessment, whose answer is `seen`), `asking` (the handler), `running`
(the adapter or the shell), `append` (the log). It settles as `done`, `latched`
(refused by the latch), `rejected` (the promise is rejected and nothing was
recorded), `lost` (`AuditAppendError`) or `dead`. `enforce` is both
`enforceAndExecute` and the copy of its decisions in `handleMeta`. `preview` and its parts
(`previewIdel`, `previewNative`, `previewRisk`, ...) are written from preview's own lines and
use none of the operators of `run`, as the code has the steps twice; both call `assessAst`,
`assessResolved` and `evaluate`, as in the code. Meta commands
run in a dry run too, as in the code: they touch only the runtime's own data.

A handler is `absent`, `refuse` (the CLI's, without `--yes`), `yes` (with it) or
`human`. `Crash` is the death of the host process: the latch is memory and is gone,
later calls are those of a new process.

### Server

A stream's `stage` follows the agent's loop (`agent.ts`, `cli-agent.ts`): `plan` (the
model's turn), `rehearse` (its dry run, or `Pass` for what is rejected unseen or changes
nothing), `parked` (the gate), `real`; a run's is
`running`, a step of its batch at a time. `gates` and `pending` are the tables of
`PendingApprovals` and `PendingRunApprovals`, `late` the ids of the second whose time has passed (they
leave the table when they are asked for or when room is made), `resuming` approved
requests under way. `answer`, `shown` and `effects` are history: how each id was
settled, what a client was told with it, what was executed and on whose word. Policy
may decide otherwise each time it is asked (`Decisions`), since files change. The
editor's commands are not bound to an approval, as in the code. `Disconnect` denies
what is parked and leaves the rest running; `Close` empties both tables, and the
server is closed when the last connection is.

### Repl

`queue` is the readline's pending lines, `at` and `step` the line being handled and its
command, `phase` the await it is at: the preview, the question about it, the real run,
the policy's question, the agent's gate. A question is asked on the same readline, so
the next line typed is its answer (`answers`); ^C clears the queue and answers no; the
input may end at any time, also in the middle of a line. The preview of a typed command is
itself a run that may ask, as in the code. What an agent calls for is rehearsed by its
service, which asks no one (`Rehearse`: `ci` when nobody has approved, `service.ts:387`), and
is asked about at the gate (`Proposed`); a native line is refused. An error ends a typed
line, and nothing catches it from a batch. In a call of `IdelAgent` it becomes the result of the
call, and the next follows (`agent.ts:187`); `IdelCliAgent` does not catch it, so that
the ask ends. `agent` remembers which of the two a session has.

### WebConsole, WebEditor

In `WebConsole` the input has one or several lines, and its text is changed on one of them
(`edited`). That line alone is previewed and completed (`currentInputSegment`): a local
command is shown as safe at once, another sets a timer, whose request (`asked`) is answered
in any order. A cursor that moves later leaves the preview as it is, so its
moves are not modelled, nor is the switch of the multi-line mode; `jobs` are entries under way, several
for workflows and Ask AI; an approval has a card on the page, a state at the server
and perhaps a rule that answers it, and each answer (`posts`) is lost, taken or taken
with its reply lost. In `WebEditor` a text is a number, `ed` the state of each tab with
its undo history, `net` the loads, saves and reloads under way; each answer acts on
what the tab holds by then. `written`, `agreed` and `meanwhile` are history: the texts a
file has held, those a person gave up, those that came to a tab during a request.

### FunctionRuns, Registry

A run of a function is a process over `nonces`, `lock`, `store` and `evidence`. It reads
them one at a time, tests its nonce, takes the lock, tests and writes the nonces anew,
leaves the lock, executes its steps on its copy of the rows (`frames`: an invoked function
runs on top of its caller), and writes the copy over the store; it may be killed between
any two changes, the write of the store is two steps, and a dry run reaches no file.

A promotion is `read`, the question to the person, then for each of `Stages` (definitions,
manifest, drafts) a cut and a write; `file` has the three files, whose state says whether
they are whole. Two promotions may write at once, which leaves a file `mixed`. A session
reads trust store, manifest and definitions to verify them, then loads both layers.

### NativeTerminal

A session is a bridge and its shell: `proc`, with the stdin ended (`ended`), the exit
seen or not (`exited`), the 250 ms timer of a close (`armed`). A tab is at a generation
(`cur`), and `nat` and `link` are the native state and the event stream of each; requests
and replies of older generations are still in `net`, and act on the tab as the code does.
`typed` and `got` are the keys on both sides. Output is counted, and what a
stream is told is an interval of it. A shell may ignore a hangup; the server may
be shut down or crash; any request may fail, before or after the server saw it.

### CommandText, CommandLine

A line is a sequence over an alphabet of nine characters, one for each way a reader
treats a character. `CommandText` has the parser's `SplitBatch`, `Tokenize` and `Parse`, the server's and the
CLI's completion, the page's `ParseIdelLine` and `lastTokenBounds` and both quoters;
`CommandLine` is the field: a text, the timer, the requests, the list that is offered. Only
`MCWorkbench` fixes the alphabet; the modules, and the proofs, are of any characters.

### Structure, StructureEditor

`Structure` has the lexer, the parser, the linter and `Canonicalize`, over an alphabet of
words and marks, with the set of escapes as a parameter: the package's and that of the
bundled copy. Its lexer is a recursive function of a place in the text, its parser one of a
place in the tokens, for each of the five rules something is read by there (`Rules`). A document comes with
the set of all its values and entries, its `parts`, which the linter goes through, and which
make the canonical text a function too: the text of a part from those of the parts in it.
`StructureEditor` is one document, its timer
and the import of the parser that the first refresh waits for.

### ServerManager, DesktopShell, NodeAdapter

`ServerManager`: a call is one of the extension's plans (`Plans`) and stops at each await:
a health check, a server's start, its stop with SIGTERM, five seconds and SIGKILL. `port`
is who listens, which may be somebody else. `DesktopShell`: one process with a window and
a runtime; 30 s timer, exit, failed load, quit, the page's refusal, the choice of a
workspace and its relaunch. `NodeAdapter`: `entry` says what a path names, `text` what a
file holds; a command is assessed, then makes its calls one at a time, while `Swap` does
what another program may.

## 3. Runs

| Run | Shows |
|---|---|
| `append_lock` | Four callers in three processes on one machine, two of which may die, one caller that reclaims, all I/O faults, four uses of the lock. The lock implements `Mutex`; only the lock of a dead process is taken (`ReclaimsOnlyTheDead`); every call with a deadline settles; a dead owner's lock goes while a patient reclaimer waits. |
| `append_lock_race` | Two callers that reclaim, no I/O fault: `MutualExclusion` fails. b1 and c1 condemn the same stale lock; b1 renames it, locks afresh and enters; c1's rename takes b1's lock. A finding: the comment at `writer.ts:227` says the lock file handles other processes. |
| `log_writer` | Two processes, two keys, three configurations, two appends, two crashes, two acts of damage. Acknowledged records stay (`AuditSpec`, `WriterInv`), but where a write lost its newline alone (section 5); a log that has its checkpoint verifies and accepts the next append, also after a crash between log and checkpoint (`EstablishedStaysUsable`); no order of removals and appends gives a log that verifies without an acknowledged record (`TamperEvident`); `assertReady` and the next append agree but for the signing key (`ReadyMatchesAppend`); queues drain. |
| `log_first_use` | One crash, no damage: `FirstUseTogether` fails. The first append writes the trust file, dies before the checkpoint, and from then on every append and `assertReady` refuses. A finding: the comment at `writer.ts:285` says they are created together. |
| `runtime` | Two concurrent runs, the first with any of fourteen requests (one for every way through the pipeline), the second a native shell line; three policies with both audit modes and no log; handlers `yes` and `human` that change at any time; failing log; crash. |
| `server` | One agent stream and three runs (batches, an editor command, one without a bearer), two approvals at most, faults, disconnect, expiry, shutdown. |
| `server_refusal` | The same: `RefusedIsNotRun` fails. A command refused by its person is run again with the refusal and executed when policy allows it by then. A finding: `service.ts:69` has `false` record a refusal. |
| `front_ends` | The five parts of `FrontEnds`: properties below. |
| `front_ends_eof` | `NoUseAfterClose` fails: piped input that ends while a command is rehearsed leads to a question on a closed readline. A finding: `CONCERNS.md:217` says this does not happen. |
| `function_evidence` | `EvidenceIsOneChain` fails: two runs read the end of the evidence before either appends. A finding: `function-command.ts:12` says the chain is continued across runs. |
| `promote_twice` | One terminal, two drafts of one program: `InOneLayer` fails. The second promotion replaces the first one's definitions, which are in no layer any more. A finding: `promote.ts:42` says exactly one. |
| `workbench` | The six parts of `Workbench`: properties below. |

The properties of `runtime`:

* `EffectsPermitted`: nothing is executed in a dry run, be it the caller's, the policy's or
  by the command's own parameter, and what required approval got a yes, of the context or of
  a handler entitled to say it; CRITICAL never by `--yes`.
* `NothingSoftened`: the risk decided on is at least that of every definition,
  shadowed ones included, CRITICAL for a link to a place whose loss is total, and
  at least HIGH when a needed estimate is missing.
* `AuditTrailHolds`: a record that says nothing was done is true, one that says
  success is true, and what was done is recorded or its caller heard that it is not.
* `PreviewAgrees`: `preview` and `run` agree on risk and action for the same look at the
  files. Each is modelled from its own lines, and a change to one alone breaks it, as the
  mutant of `previewRisk` does.
* `GateSpec`: refinement of `CommandGate`; in particular after a lost record no
  further run of the object begins.
* `RuntimeInv`, the inductive invariant, and `EveryRunSettles`.

Of `server`:

* `ApprovedAsShown`: what is executed on the strength of an approval is executed once
  and is the command that was shown with the id; an agent's needs a yes.
* `BatchInOrder`: nothing behind a step that did not succeed, also when that step is
  approved and run later.
* `ServerInv`: the tables agree with the handlers; an id is in one table at most, and
  unsettled as long as it is in it.
* `ApprovalSpec`: refinement of `Approval`: a yes settles one question and no other,
  silence, disconnects and the shutdown are a no, and only a yes acts, once.
* `ServerSettles`: streams end and a shutdown is completed.

Of `front_ends`, by module:

* `Repl`: `LinesInOrder`, `ActsAsApproved`, `InputDrained`.
* `WebEditor`: `NothingLostUnasked`: a text leaves a tab for good only if a file has held
  it, a person agreed, or it came during a request that took it along; it also keeps
  `EditorInv` (one save at a time, a history that fits the text).
* `WebConsole`: `RiskShownIsCurrent`, `AnswersTold`.
* `FunctionRuns`: `OncePerNonce`, `StoredIsAudited`, with their inductive invariants.
* `Registry`: `LoadedIsSigned`, whatever promotion was killed or wrote at once, unless the
  layer is written between its verification and its loading, which read it separately.

Of `workbench`:

* `NativeTerminal`: `NativeInv`, `InputInOrder`.
* `CommandLine`: `CompletionFits`, `LinesReadBack`.
* `StructureEditor`: `DocumentsReadTrue`.
* `ServerManager`, `DesktopShell`: `RuntimesTracked`.
* `NodeAdapter`: `FilesAsNamed`, with `TailIsLastLines`.
* `AllSettles`: closed shells end, tabs stop stopping, calls of the extension are answered.

**Bounds.** Two appends and two crashes suffice for every pair of adjacent file
states, since an append starts from what the previous one left; four lock uses let
one owner die, one reclaim, one enter and one release; two runs suffice for what
one run can do to another, which is only to set the latch or to change the
handler. A failed write leaves nothing, a piece, a line without its newline or all of it
(`Tails`), in the run as in the theorems; with two appends a record runs into one that lost
its newline where a missing checkpoint is adopted, and the theorems have every other way.

`server`: `Cap` is 2 instead of 256 with three runs that ask, so the oldest is dropped
and expires in every order; `MaxSteps` is 1 instead of 12 with two calls in a turn, so a
stream parks twice; a second stream would share nothing with the first but the shutdown.
`front_ends`: three lines let one be handled, one be its answer and one wait for either; an
ask has three calls, of which one is refused, one may be rehearsed only and one is CRITICAL;
an entry of two lines is edited on either;
an undo history of two instead of 120 drops its oldest with the second edit; two edits and
three clicks give an edit during a save and a reload behind it; two runs of a function are
one that uses a nonce up and one that finds it so, or dies; two promotions and one new draft
are what it takes to mix two files' versions. `workbench`: two generations are one and the
one that replaced it; a backlog of one piece is over with the second; a tail chunk of two
characters is shorter and longer than a line; three starts of the desktop are one, another
for a chosen workspace, and one more behind a torn file; two calls of the extension are
what it does at once, and three servers are one, one that takes its place and one after.
A line of two typed characters is short; what needs a long one starts from one of the
lines of `MCPast`, with a batch, open quotes and escaped blanks in it, and the directory has a
name with a quote; a document likewise
starts whole and is changed once, with every mark of the language at every place.

Deadlock checking is off in every run: all behaviours are finite by their bounds
and stop when the last call has settled.

**Fairness.** `AppendLock`: a live process runs its next step; time passes
(`Age`, `Deadline`); a caller whose rename is possible again and again is not
refused by the file system for ever (strong, needed for `DeadLockReclaimed` only).
`OpenLogWriter`: live processes run their steps; crashes, faults, damage and calls
are never forced. `Runtime`: the event loop runs what is pending and awaited I/O
and children end; a human need never answer, so a run that waits for one may wait
for ever, and `EveryRunSettles` says just that. The CLI's handler does answer.
`Server`: models and runs answer, as both have time limits, and timers fire (`Work`);
clients need do nothing. `Repl`: the line being handled goes on; the person need
not, so a question that is open when the input ends leaves the session waiting, and
`InputDrained` names that. `NativeTerminal` and `ServerManager` (`Work` of each): replies
come or fail, timers fire, a killed process ends; nobody need click, and as clicks are
bounded `AllSettles` can ask for rest again and again. The page's requests in
`WebConsole` and `WebEditor` may stay unanswered: nothing is assumed of them.

## 4. Proofs

| Theorem | Property | Assumes |
|---|---|---|
| `LockInvariant`, `Exclusion`, `ReclaimSound`, `ImplementsMutex` | `LockInv`, `MutualExclusion`, `ReclaimsOnlyTheDead`, `MutexSpec` | `Orderly`, and that no two reclaims overlap (`OneReclaimAtATime`) |
| `WriterInvariant`, `WriterStaysUsable`, `WriterImplementsAuditLog` | `WriterInv`, `EstablishedStaysUsable`, `AuditSpec` | the constants' types |
| `WriterTamperEvident`, `WriterReadyMatches` | `TamperEvident`, `ReadyMatchesAppend` | the constants' types |
| `RuntimeInvariant`, `OnlyPermittedEffects`, `TrailHolds`, `PreviewMatchesRun`, `FloorsHold`, `RuntimeImplementsGate` | `RuntimeInv`, `EffectsPermitted`, `AuditTrailHolds`, `PreviewAgrees`, `NothingSoftened`, `GateSpec` | the constants' types |
| `CriticalFloor` | of `evaluate`: CRITICAL is only ever blocked or sent to approval | |
| `ServerKeepsInv`, `ServerActsAsShown`, `ServerRunsInOrder`, `ServerImplementsApproval` | `ServerInv`, `ApprovedAsShown`, `BatchInOrder`, `ApprovalSpec` | the constants' types |
| `LinesRunInOrder`, `ActsWereApproved` | `LinesInOrder`, `ActsAsApproved` | the constants' types |
| `RiskIsCurrent`, `AnswersAreTold` | `RiskShownIsCurrent`, `AnswersTold` | the constants' types |
| `OnceAdmitted`, `RowsAudited` | `OncePerNonce`, `StoredIsAudited` | the constants' types |
| `SignedIsLoaded` | `LoadedIsSigned` | finitely many definitions |
| `NothingIsLost` | `NothingLostUnasked` | the constants' types |
| `RunsAreTracked` | `RuntimesTracked` | the constants' types |
| `ShellsAreListed`, `KeysArriveInOrder` | `NativeInv`, `InputInOrder` | the constants' types |
| `FilesKeepTheirNames` | `FilesAsNamed` | the constants' types |
| `LinesReadTrue`, `CompletionsLeaveTheRest` | `LinesReadBack`, `CompletionFits` | names of commands and parameters as the parser has them |
| `DocumentsAreRead` | `DocumentsReadTrue` | documents of the alphabet |
| `CanonicalReads`, `CopyReadsAlike` | of `Parse` and `Canonicalize`, for any text | numbers in decimals, for the first |

They hold for any number of callers, processes, keys, appends, crashes, acts of damage,
requests, definitions, policies, runs, streams, approvals, lines, promotions, sessions,
calls, servers, tabs, edits, shells, keys, lines, file commands and swapped paths. Those about
`FrontEnds` and `Workbench` are of all their parts side by side; a first lemma
of each part says that the steps of the others leave it alone.

*Lock.* `Exclusion` is not inductive. What is: a caller from its `open` to its
`unlink` finds its own token at the path, and a caller about to rename faces the
lock of a dead process. The second holds between inspection and rename because
nobody else can take that lock away meanwhile: its owner is dead and no other caller is
before its rename. This is the step the race breaks, and so the only way to break it. The
theorems are of the form `Spec /\ []OneReclaimAtATime => ...`, for any number of
reclaimers: with two of them `OneReclaimAtATime` fails, as the race run shows, and nothing is
promised from then on.

*Writer.* `WriterInv` is in two halves. Types, the shape of the lock and the
freshness of identities hold whatever happens. The rest holds while nobody else has
touched the files (`damages = 0`) and as long as no two records share a line: only the last line can be torn
and nothing is written behind it, the holder works on the log as it is, the checkpoint names a
record at its place, what was acknowledged is there and no longer queued.
When two do, `SpoiltInv` takes over: that line is the last for
good, everything before it is whole, and at most the last acknowledged record is not.
`AuditSpec` follows step by step: a write adds one entry at the end or none, and
`Settle` acknowledges one that is there; a write that runs into the line before it
is `Merge`, which takes the one entry on that line away.

*Usable log.* The log the next append would accept is not `WriterInv` alone. `UsableInv`
adds that every record is signed with one key, the one that is pinned, and linked to the
record before it, and that a checkpoint is behind the log by what the holder has just
written and no more. It holds while nobody else has touched the files.

*Tampering.* `TamperInv` holds whatever has been done to them: a checkpoint that fits the
log covers what was acknowledged, what the holder has read of the files is what it will
decide on, and no call that waits has the hash the checkpoint names. That is enough for `TamperEvident`, since `verify` asks
for a checkpoint that fits. `ReadyMatchesAppend` needs no invariant: it holds of any files,
because the two sequences of checks are compared and not what led to the files.

*Server.* Three parts, each moved by few actions, with a lemma for every action and a frame
lemma for the rest. `StreamOK`: a stream is parked on exactly its latest gate, and the ids it
has used and the calls it has still to do are together no more than its turns may ask for,
so that ids cannot run out. `RunOK`: a pending id belongs to the step its batch has stopped at, and
what is behind that step has not been run. `TablesOK`: an id is in one table at most, is
unsettled as long as it is there, and was shown with the command it will let act. For the
refinement: a question that is open has no answer, a step that takes questions off the
tables answers each of them, and one that answers yes answers only one.

*Terminal.* `LinesInv` puts each line typed in one place: done, gone (as an answer, or
cleared), waiting in `queue`, or the one at hand. `ConsentInv`: a no that is remembered was said to the preview
of the command at hand; what an agent calls for has none, as its rehearsal asks nothing. `ActsInv`: what was run has the answer its decision asked for. The
last fact of `ActsAsApproved` is about the decisions only, that a command refused at its
preview is run only if policy decided otherwise by then; said of the actions alone it would
not be invariant, as the risk of one action may be another by then.

*Command line of the page.* `RiskInv`: the answer to a preview that was asked for since the
text last changed is of the line it was changed on, and only such an answer is shown. `ApprovalInv` follows an
approval from its card through the one request in which a click or a rule answers it.

*Runtime.* `InOrder` ties the place of a run to its decision, permission, effect
and verdict; each step moves one run and is shown to keep that run's part. The
gate's refinement follows from it. `PreviewMatchesRun` has an invariant of its own,
that a decided run was decided at what preview computes from its request and its
look at the files, and `FloorsHold` then is a statement about `EffectiveRisk`. That the two copies compute the same
is a lemma about them, case by case, since neither is defined by the other.

*Functions.* `AdmissionInv`: at most one run is between the creation of the lock and
its removal, it decides on the nonces as they are by then, and whoever is past it with
a single-use request has its nonce in the file. A crash inside leaves the lock, so that
nobody is inside any more; that is why the early test of the nonces, which two requests
pass together, does no harm. `RowsInv`: a row in a run's copy is its own or was in the
store, and its own is recorded as executed before the copy is written.

*Registry.* The manifest and the definitions are written apart and read apart. Behind a
verified pair each signed definition is the definition there, and as both list every id
once and are equally long, the two sets are one; this counting is the argument, and why
the definitions have to be finite. It is lost only when the layer is touched between
verification and loading.

*Editor tabs.* A text is held when it is in `written`, `agreed` or `meanwhile`. `EditorOK`: what
a tab counts as saved (`clean`) is held; a tab whose save is under way shows the text that is
saved or a held one, and one that is reloaded a held one; requests are told apart by their
click and saves by their tab; only Save As puts one file in two tabs. So an answer that
replaces a text replaces one that is held, whatever came between.

*Managed server.* A server that runs is the manager's child, has been told to end, or
was replaced in `child` by a start that had waited (`lost`). A start or a stop under way
names a server it has told.

*Desktop.* `Quitting`: a runtime that is gone has set `quitting`, and an application that is to
quit and is still there has its one message on the screen or a page that refused. `Promise`: as
long as a restart is due, `workspace.json` has the workspace it was promised, or is torn.

*Native tabs.* Four parts. `SessionsOK`: while the server is up, the sessions listed are those
started whose exit it has not seen. `PageOK`: the generations begun, with the restarts that
may still begin one, are no more than there may be, so that each finds a session. `LinksOK`:
what a stream has been told is a chain of pieces without a gap, of which it has shown a first
part and queued the rest. `KeysOK`: a key is in one place, waiting in the chain of its
generation, alone of that generation on its way, or with a shell that has only older ones of
it; hence the order, which no single step establishes.

*File commands.* `NodeOK`: a path of the workspace never names the file outside but through
a link, whatever swaps came between two calls of a command; and what `tail.file` has read
is the end of the text it looked at. `SuffixLines` then is about texts alone: an end of a text
that has more ends of lines than lines are wanted has the same last lines as the whole. It
holds because the lines of the one are those of the other, moved, and their number is
counted from behind; that `newlines <= count` reads one more than it wants is needed where the
text ends in one. Both least elements it uses come from the well-foundedness of finite sets.

*Command line.* What is proved of `CommandLine` (`CommandLine_proofs`) is about texts of any
length over any characters, so it rests on what the recursive functions of `CommandText`
compute. Each is first shown to exist, by an induction over the places it is made from, and
with it what it is at a place, given what it is at the one before (`Reading`). What is read of a stretch depends
on where the reader is before it and on its characters only (`SameReading`), and so does what
the stretch says (`SaidAlike`). Behind a place where nothing is open a text is therefore read
as it is by itself; both theorems are built from this.

`LinesReadBack` has three parts. A value in quotes: each character is written with as much in
front of it that the reader says that character and is where it was, so the quote that closes
is the last (`Quoted`). The parser and the page: their tokens are found at the same places when
no equals sign has a blank beside it, three of the one for one of the other, and a
token of the page is taken apart at the equals sign between a key and its value. The last
command: the separators are taken from the left, the completion looks for the last of them.

`CompletionFits` needs the invariant `Typed`: what is offered is what `complete` answers for
the text it was asked for. The text before the last token is empty or ends with a
blank between tokens (`KeptCloses`), and behind one the tokens of two texts are those of the first
and those of the second (`TokensJoin`), whatever is put there: that the list is the answer for
another text does not matter. That a completion goes on where the text ended (`GoesOn`) is a
case for each kind of completion; for a path, what is in quotes says what it would without.
A path with a quote or a backslash in it (`OddlyNamed`) is the exception of that part: it is
escaped in the completion and was not in the text. That such a completion too leaves the
tokens before it alone is proved, as for any other.

*Documents.* `SquigglesOfText` is inductive as it stands; what the diagnostics are is `Check`,
of which nothing has to be known. The rest of `DocumentsReadTrue` is about texts
(`StructureEditor_proofs`). Its proofs go over the places of a text, or of the tokens, from the
last to the first (`Down`): what is read at a place depends on what is read at later ones
only. So a reader exists (`Reading`), and no induction over the depth of a document is needed,
as what is in a list or a block is read at later places too.

`CopyReadsAlike`: at each place where the copy's reader of strings finds an end, the package's
finds the same; so do the readers of tokens, and equal tokens are parsed alike.

`CanonicalReads`: what the lexer returns is well made (`Made`): the text of a name is one that
is read as a name, that of a number one that is read as a number. A text *spells* tokens
(`Spells`) when it is read as those wherever it stands, if a character follows that ends its
last token. Texts that spell are joined to one that spells the tokens of all, and each string,
number, name and mark spells itself; a string does because each character is written as what
is read as that character. What is read of tokens is read of them wherever they stand
(`ValueReads`, `EntryReads`, `ItemsRead`, `ChainReads`, `EntriesRead`). The induction, from the last token on:
what `Write` makes of whatever a rule reads there spells tokens that are read as the same value
with the same parts (`RowFine`). `Write` wants the texts of the parts, and what is read at a
place consists of things read at later ones (`SoundThing`), so that there is a `text` as
`Canonicalize` has it (`TextsAre`, `PartsSolved`).

Only model-checked: the liveness properties (`EveryCallSettles`, `DeadLockReclaimed`,
`EveryAppendSettles`, `EveryRunSettles`, `ServerSettles`, `InputDrained`, `AllSettles`),
which are out of the prover's reach.

## 5. What the runs do not show, and what is not modelled

Met while modelling, kept in the models as the code has it, and named where a property
makes an exception for it:

* `CommandLine`: an `&&` without a blank is replaced along with the last token when a
  completion is applied; an escaped blank at the end is taken for the end of a token; a
  completed name with a quote, `=` or `&&` in it is not quoted; `quoteParamValue` quotes
  neither `=` nor `&&` nor the empty string, so that the web editor cannot save an empty
  file; a quoted `"true"` comes back from the history as a flag; a list asked for another
  text is still offered.
* `Structure`: a number with two dots is no number, so that documents that differ in it
  have one digest and a canonical text that is not read; nor is the canonical text of a number
  with an exponent, which one of 22 digits, or below a millionth, is written with. Numbers are
  not rounded in the model, as a double is from 16 digits on, so that some numbers of 21 digits are
  written with an exponent too. The bundled copy knows fewer
  escapes and writes labels without them. A closed document whose timer runs shows its
  diagnostics again.
* `ServerManager`: two starts at once end each other's server; a start that waited for a
  stop overwrites a child spawned meanwhile, which nobody ends; a start that times out
  sends SIGTERM only; a stop resolves behind its SIGKILL without waiting for the end.
* `DesktopShell`: when the page refuses to be left, Electron cancels the quit silently,
  the runtime is ended already, the exit says nothing, and a restart for another workspace
  does not happen before a later quit. `workspace.json` is not replaced atomically.
* `FunctionRuns`: the nonce lock has neither owner nor age, so that a crash inside refuses
  every later single-use request; the rows are read once and written whole, so that the
  later of two runs undoes the earlier.
* `Registry`: `learn --write --json` returns before it has written.
* `OpenLogWriter`: a record is lost that was acknowledged. A crash or a full disk may cut a
  line just before its newline; `readStrict` takes that line for a whole record, and the next
  append, which opens the file for appending (`writer.ts:362`), writes its record on the same
  line, syncs it and acknowledges it. The line then holds neither, and every later append,
  `verify` and `assertReady` refuses the log. `RunTogether` is that state. `WriterInv` and
  `AuditLog` (`Merge`, `AcknowledgeMerged`) say so and say that it is all: what was
  acknowledged before stays, and nothing is acknowledged after. No document of the
  repository speaks of the case.
* `WebEditor`: a save that succeeds marks the tab clean as it is after the await, so that
  what was typed during it counts as saved; `NothingLostUnasked` excepts such texts (`meanwhile`).
* `WebConsole`: of an input of several lines the risk shown is that of one line. A
  card says "Approved" from the click on; if the answer is lost a line below it says so.
* `NativeTerminal`: keys whose request fails are lost, and keys still buffered when a tab's
  shell is restarted go to the new one; `InputInOrder` excludes neither.
* `NodeAdapter`: between assessment and use a path may come to name something else, and
  what it names is used; `FilesAsNamed` bounds what can be reached, not that it was assessed.

Not modelled, and why:

* Strings: path normalization, redaction, scanner patterns, rendering of commands for
  POSIX and PowerShell, wording. Pure functions, tested as such.
* Cryptography: a signature is the key's name in the record, or the definition it was
  made over; a hash is an identity, or the text that is hashed.
* Loading and validating of policies, `network.ts`, `meta.ts` output, package manifests,
  the schema of definitions (one bit, `ok`): functions of one document.
* `ask`, `connect`, `help`, provider configuration, the server's read-only routes: one
  request around an external program or a text, no state that outlives it.
* The page's dictionary, search, preferences, screenshots, window sizes: shown from one
  request or from local storage. Hover and completion of structures, positions of errors.
* What a function's expressions compute, and the verification of receipts.
* The desktop's smoke test and navigation guards; the Java bridge, which takes no part in
  the pipeline; build scripts.

## 6. Plan

Done: lock, writer, safety, policy and runtime with their theorems; server with its
refinement; terminals, page, functions, registry, readers, structures, extension, desktop
and file commands, with the readers of lines and of documents.

Every safety property the passing runs check is stated by a theorem, for every value of the
constants its assumptions allow. Liveness stays with TLC.
