# vllm-use: models, model checking and proofs

vllm-use is one Go process beside one vLLM on one host. It registers models in
SQLite, downloads them with the Hugging Face CLI, supervises the vLLM process,
and fronts it with a gateway that authenticates and audits. This directory holds
TLA+ models of its stateful parts, TLC configurations, and proofs checked by
TLAPS. Line numbers are those of the files under `src/`.

## Inventory

| component | state | operations | hard behaviour |
|---|---|---|---|
| download service `ability_download/downloader.go` | jobs in memory, worker semaphore, `closed`, rows of `downloads` and `models` | download, retry, cancel, worker goroutine, log consumers, restore, shutdown | goroutines and handlers interleave; a transaction or the process may fail between any two steps; queue; stale reads before the lock |
| model registry `ability_model/registry.go` | rows of `models`, directories, `.quarantine` | register, scan, delete, reconcile | two stores (tree and SQLite) that change one system call at a time, with crashes |
| supervisor and switch service `ability_runtime/supervisor.go` | `cmd`, `status`, `active`, `modelPath`, two mutexes | start, stop, restart, switch, guarded deletion, readiness poll, wait goroutine | callers give up at any wait; processes ignore signals; association with a model goes stale |
| gateway `api_gateway/proxy.go` | audit slots, record counter, idle channel | proxy, audit, `WaitRecords` | audit goroutines against shutdown |
| API keys `ability_api_key/keys.go` | `api_keys` | create, enable, delete, verify | revocation during the key derivation |
| SQLite store `db/sqlite/*.go` | the database | migrations, settings, audit with pruning | transactions of concurrent goroutines |
| application `app/app.go` | none of its own | ordered start and shutdown | deadline with handlers in flight |
| settings and bootstrap token `ability_settings/config.go` | configuration, token file | load, read or create exclusively | two starts on one directory; a start that dies in the middle |
| management HTTP, MCP and dispatch `api_http/server.go`, `api_mcp/*.go`, `api_executer/*.go`, `ability/ability.go`, every `methods.go` | tables fixed at start, the access in a call's context | authenticate, route, execute, nested execute | three tables and two scope rules that must agree; a key revoked under a call |
| arguments, GPU, validation, web | none, or fixed at start | pure or I/O | - |

The components meet at these points. `models.delete` runs the registry's Delete
inside `SwitchService.GuardModelDeletion`. A download claims and publishes rows of
`models`, the table the registry deletes from and the switch service resolves.
The application reconciles the quarantine, restores the downloads, and only then
listens; it shuts down the HTTP server, the downloads, the supervisor and the
audit records in that order, under one deadline. Management HTTP and MCP reach every
ability through one executer, and two abilities call others through it again.

What makes each correct: one attempt per claimed model, durable before its process
exists, and a table the next start accepts (downloads); no registered directory is
lost before its row and every interrupted deletion is completed or undone (registry); one process,
the association is true, no deletion under a live process, every call returns
(runtime); no use of a revoked key, no record written after the drain, the newest
records kept (gateway); nothing runs beyond a credential's scopes and no composed method
is refused half-way (management); a migration takes effect once, no start
goes on with less than a credential (start). `PROJECT.json` lists the hazards, each at its line.

## Modules

| module | models |
|---|---|
| `DownloadLedger` | the abstract promise of the download tables |
| `Download` | the download service; implements `DownloadLedger` |
| `ModelDeletion` | directories, quarantine, reconciliation, one system call at a time |
| `Registry` | registration, scan, downloads and deletions together, on the contents of directories |
| `Runtime` | supervisor, switch service, guarded deletion |
| `Authentication` | the abstract promise of the verification of API keys |
| `Gateway` | authentication with times of use, audit records, drain; implements `Authentication` |
| `Management` | management HTTP, MCP, the methods and their scopes; implements `Authentication` |
| `Startup` | bootstrap token, opening the database, migrations, port |
| `DownloadLedgerProofs`, `DownloadProofs` | theorems about the downloads and their ledger |
| `RuntimeProofs`, `GatewayProofs`, `ManagementProofs`, `StartupProofs`, `ModelDeletionProofs`, `RegistryProofs` | theorems about the module each is named after |
| `MC*` | instances for TLC |

`map` in `PROJECT.json` gives the lines each definition stands for. Operators under
the comment "Wrong on purpose" are not part of any specification: each is a mistake
the code could have made, used to see that a property notices it.

**Download.** A job's goroutine has a position `pc` (waiting for a worker, granted,
spawning, live, exited, finishing). Handlers have a request that was read without
the lock (`ReadModel`), because downloadModel reads the model before it takes
`Downloader.mu`; `Accept` is the critical section with its transaction. SQLite
(`modelStatus`, `rowState`, `rowModel`) and the files survive `Crash`; memory does
not. Transactions fail where the code has an error path: `BeginQueuedFails`,
`FinishUnpersisted`, `RestoreFails`, `Reject`. On start `Boot` and `RestoreRow` do
what restore does with the rows, and a row that would be refused is a state the
invariant `RestoreAccepts` excludes. `Restorable` leaves out those refusals of
validateLinkedRestoredJob that no step of the model can bring about: a linked model that
is of another kind or has a path, another repository or revision, and another models
root (downloader.go:922-934, 943).

**ModelDeletion.** One action per system call or statement of Delete and of
ReconcileDeletionQuarantine. A manifest is absent, torn or good. `RemoveSome`
takes away any part of a tree in any order, as RemoveAll may. `ReconcileFails` is a
system call or a query of the reconciliation that fails, which fails the start but
changes nothing, so that the next start begins again.

**Registry.** This is the composition that `Download` and `ModelDeletion` leave out:
the same directory may be the destination of a download, the path of a local model
that Scan or RegisterLocal added, and the directory a deletion stages. `content[p]` is
the set of files in a directory and `stage[i]` what a deletion moved away, so a
property can say which files are lost. `op.old` says that another transaction committed
after the deletion's transaction took its snapshot; SQLite then refuses its DELETE, which
is what keeps a download that was accepted after the check. A rename into the stage may
fail, and then the deletion gives up (`DeleteRenameFails`). `Under` gives the
directories below a directory. The models root is taken to be its own real path: below
a symbolic link, the query of registry.go:571 compares a resolved path with one that is not.

**Runtime.** `act[a]` is the position of a call in Switch, Start, Restart, Stop or
the deletion; `sw.mu` and `opMu` are the two mutexes. Processes move from alive to
termed, killed, gone and reaped, and `Wait` is the goroutine in wait. Another
server may answer the health probe, so `Healthy` needs no process. `StopCanceled`
is a caller that gives up. The HTTP server's shutdown ends when every handler has
returned, or at its deadline beside some that run or wait for a mutex; these go on
beside the shutdown's own stop. `closing` records which it was.
A model's id also stands for the text of its path as the row has it. A direct start may
be given that text or another one of `Others`, wherever it leads: the code compares
texts, and so does `InUse`. `DeletionSparesLive` is what the guard achieves: it is about
processes that were started by id or with the path's own text and have not been killed,
and not about one that the shutdown is stopping (`ShutdownStops`), because the shutdown
does not take `SwitchService.mu`. Without either restriction the code breaks it: see the
disagreements below.

**Gateway.** A request is a handler and then an audit goroutine. SQLite changes by
one statement at a time, so a key may be disabled between `Lookup` and `CommitUse`,
which repeats the condition in its UPDATE. `TextLess` is the order of
RFC3339Nano texts, in which a fraction sorts by its digits and its absence last.
The idle channel is a number, and `closedIdle` the channels that were closed.

**Authentication** says what the verification of a key promises whatever runs beside it:
a request is served only if its key is enabled at the moment it is authenticated, and the
last use of a key never moves back. `Gateway` maps its forwarded requests to it, and
`Management` those it routes and executes. A request that is being served when its key
is disabled goes on, in the code as in the specification.

**Management.** `pc[r]` takes a call from its arrival through the verification to its
execution. The version, origin and size of an MCP request are looked at after the
verification (`NotRouted`). `Routes` and the sets of tools are the tables of server.go and of the
LoadAPIMethods functions, and `Routed` the order in which the switch tries them.
`Nested` is what system.get and dashboard.get execute through the same gate. The
administration token, a key of every scope or of two, and a credential nobody knows
make every call there is, while a second call administers the keys. What an ability
does beyond the API keys belongs to the other modules; `ran` records that it ran.

**Startup.** Nothing keeps two services off one data directory before the second
finds the port taken, so starts of different builds run side by side. `pc[s]` is
the position of a start: one system call on the token file, or one transaction of
the database. A token file is the number of the start that made it and how much of the
text is there: nothing, less than 32 bytes, 32 of the 43 or more, or all. `Check`
tells a changed file from the one that was read, and asks for 32 bytes, as the code
does; so a long beginning passes for a token, if the write of one is ever seen in parts.
The database file at its path has a number too: a start whose new file cannot be
closed removes what is there (`CloseFails`), perhaps under another that has it open. A
service keeps the file that its first connection opened (the code's pool may open
more connections, by path), the -wal and -shm files beside it are not modelled, and what
was written is not lost, as in a power failure.
`Migrate` needs the version not to be recorded, which is its primary key; what
fails otherwise is `OpenFails`. `End` may happen everywhere: a crash, a signal, or
an I/O error of a step that leaves nothing behind. An operator may remove the token
and a tool may write a setting only while no service runs.

## Runs

| run | checks | instance |
|---|---|---|
| `download` | safety of the service; refinement of `DownloadLedger` | 2 jobs, 2 models, 2 clients, 1 worker |
| `download_live` | a canceled attempt and Shutdown end; no queued attempt is starved if CLI processes end | 2 jobs, 2 models, 1 client, 1 worker |
| `model_deletion` | nothing registered lost nor staged without a readable manifest, a start refused for a torn manifest only, lock and start end | 3 ids, 2 directories, 2 registrars |
| `model_deletion_torn` | violation: an interrupted deletion blocks the start | 2 ids, 2 directories |
| `registry` | a ready model has its files, an active download its claim, no file goes before its row, no row under a download | 2 ids, 1 local directory, 2 files, 2 clients |
| `registry_nested` | violation: a row refers to files that the deletion of another removed | 2 ids, 2 nested directories, 1 client |
| `runtime` | one process, true association, no deletion under a live process | 2 clients, 2 ready models, 1 other text, 2 processes |
| `runtime_live` | every call returns | 2 clients, 1 model, 1 process |
| `runtime_stale_path` | violation: deletion with the path of before the download's end | 2 clients, 1 downloading model, 1 process |
| `gateway` | refinement of `Authentication`; counter and channel, drain, retention | 3 requests, 1 key, 2 slots, 1 record kept, 3 instants |
| `management` | refinement of `Authentication`; scopes, and agreement of routes, tools and nested calls | any call beside one that administers keys, 1 key |
| `startup` | migrations once, clean settings, a token of 32 bytes or more | 2 places, builds with 1 and 2 migrations, 4 starts |

Why these sizes are enough for the cases that matter: two jobs on one worker make
a queue with a grant that races cancelation; two models let the jobs share one or
not; two clients let a stale read cross an acceptance, a retry or a deletion. Three
ids over two directories let a directory be registered, deleted and registered
again while an earlier stage remains. Two ids of `Registry` are a model that is downloaded
and a second registration of its directory, which is all the rows one directory can
have, and two files make a directory that is partly written. Two processes make a restart that finds the
first unreaped; with two clients, one holds the lifecycle while another waits to
delete. Two slots of three requests can be full, and three instants with half
seconds give two seconds, one of them with two instants. Two places with two builds
make an upgrade, a downgrade and two starts side by side, and four starts let two of
them die and two more come after. In `management` the first call may be any route with any
verb or any tool, and the second one is enough to create, disable or delete the key
between any two steps of the first. Ids are used once
(registrations get random ids), and once they are used up a run stops:
`CHECK_DEADLOCK FALSE` is set in the runtime, gateway, management and startup runs, where a
finite supply of models, processes, requests or starts and the end of the service really
leave nothing to do. Symmetry is used in safety runs only.

### Disagreements the runs show

1. `model_deletion_torn`: README.md:45 says that after an exit in the middle of a
   deletion the next start recovers. A crash before the manifest is complete, or
   during the removal of a committed stage, leaves a stage without a readable
   manifest, and the start is refused (registry.go:428-431).
2. `registry_nested`: only equal paths are compared, so a directory inside a registered
   one can be registered, and loses its files with the outer one. Without nesting the
   same invariant fails when RegisterLocal has looked at a directory before the lock and
   a deletion removes it before the row is added.
3. `runtime_stale_path`: models.delete takes the path from a read made before the
   guard, so the path check of supervisor.go:509-511 can be made with an empty path.

Others have no run:

- docs/api_description.md:34 promises that the model of a process that was started directly
  on the same actual path is not deleted. supervisor.go:517 compares cleaned texts, and
  a direct start takes any text (args.go:51-63): relative to the working directory,
  through a link, or of a directory inside the model's. Such a one is not recognised, and
  the model is deleted under the live process. In `Runtime` these texts are `Others`.
- supervisor.go:506 says that a deletion is serialized with every lifecycle operation. The
  shutdown's stop is not: when httpServer.Shutdown ran into its deadline (app.go:182), a
  status request may drop the association of the process that is being stopped (488-491),
  and a deletion that waited for the mutex passes before the SIGKILL. The window is
  short, since the context is over by then. `ShutdownStops` keeps it out of
  `DeletionSparesLive`; without that conjunct TLC finds it.
- config.go:248-250 says that the operator reads the token from the file. A start beside
  the one that makes the file may go on with a long beginning of the token (314), or
  with a whole one whose maker's Sync or Close then fails and removes the file.
- Within one second audit records are not ordered as their times, because created_at is
  compared as text (services.go:240), so the "oldest" of services.go:213-214 may be the
  newest. `RetainsNewest` is stated to the second.

## Fairness

- Goroutines and handlers that can take a step take it: weak fairness of
  `JobStep`, `Step`, `HolderStep`, `StartStep`. Go schedules every runnable
  goroutine, and timers fire.
- Strong fairness of `Grant`: senders blocked on a Go channel are served first in,
  first out. Strong fairness of the wait for `SwitchService.mu` in
  `GuardModelDeletion`, and of the shutdown's wait for `Supervisor.opMu`
  (`StopIdle(App) \/ StopBegin(App)`): a Go mutex hands itself to a waiter that has
  starved.
- A CLI process whose group was killed ends (`Canceled(j) /\ Exit(j)`). That CLI processes end
  by themselves is a premise of `AcceptedSettles` alone. `runtime_live`
  assumes nothing of vLLM, neither that it ends nor that it can be reaped, and no
  cancelation by callers.
- `model_deletion` assumes only that the holder of the lock and a starting service
  take their next step; a system call may fail, and a crash ends what is waited for.

## Proofs

Every module but `Authentication` has its proofs in a module of its own, and every
invariant, action property and refinement that a passing run checks is a theorem,
for every value of the constants that the assumptions of the module allow; two of
them need a hypothesis, given below. The runs stay: they show that the statements
are not vacuous on real instances, and that each can be broken.
`Startup`'s type invariant is the one that no run repeats: it is a conjunct of its `IInv`
and of the theorem `TypeCorrect`.

Each proof has the same shape. `IInv` is the inductive invariant: the type invariant,
the properties, and what they need to be kept. One lemma per action shows
`IInv /\ A => IInv'`, with frame lemmas for what an action leaves alone; `Inductive`
puts them together, and the other theorems are consequences. `IInv` was checked by TLC
on the instance of the module's run before it was proved.

| module | beyond its properties `IInv` says |
|---|---|
| `Download` | see below |
| `ModelDeletion` | while a row is there its directory is in exactly one of two places, and whole in the stage only with a readable manifest; what each step of the deletion has already made; what a start has still to reconcile |
| `Registry` | no two rows share a path and a download's is its own id; a process has an active attempt, which has its claim; what a process wrote is still there unless a row took the directory; a stage holds only what was at its row's path or below; while the transaction's snapshot is current, no download of the model or into its directory is active |
| `Runtime` | which operation can be at which position, the holders of the two mutexes, the process a stop is about, and what is up while a call launches and after it; a model that is being switched to is ready |
| `Gateway` | a channel is opened by a request that opens no other, a record has the time that was read for it, what the shutdown waits for was accepted and is done once its channel is closed, the table is finite |
| `Management` | the scopes of a created key never change; what may still be executed of a request is permitted once its first method ran, and changes nothing if the verb only reads |
| `Startup` | a text that is not empty is that of some start, each service relies on recorded versions that stay, the history found is a prefix |

**Download.** The properties alone are
not inductive: that a settled row is consistent with the model's status needs to know that a
goroutine owns exactly the active jobs (`OwnedIffActive`), that what it owns is in
SQLite as in memory (`OwnedIsDurable`), which states a position allows
(`PositionFitsState`), that a good exit's files are not rewritten before they are
published (`FilesWhole`), that the semaphore equals the number of its holders
(`WorkersCounted`, where the cardinality of a set that gains or loses one job is
computed), and what there is while the service is down (`Offline`) or closing
(`ShutdownOrder`). `Implements` maps each step of `Download` to a step of
`DownloadLedger` or a stutter, with `IInv` as the invariant, and the action
properties `Ready` and `Identity` follow from it and the ledger's theorems. `DownloadLedger`
has no run of its own: run `download` checks that `Download` implements it.

**Runtime.** `ServedModelExists` rests on the order of the two locks: a switch holds
`SwitchService.mu` from the resolution of the model to its return, and a deletion commits
under the same lock. `DeletionSparesLive` is proved under the hypothesis `Fresh = {}`,
that no model is still being downloaded. It is a real one: with a fresh model the code
breaks the property, as run `runtime_stale_path` shows. `PublishedAreSpared` has no
hypothesis, and says the same of the models that are not fresh, whatever else is. Both
hold beside an expired shutdown too, outside the steps between its first signal and the
SIGKILL; both are about the texts that the guard compares, not about directories.

**Gateway.** `RetainsNewest` compares the seconds of what was pruned and what was kept;
the proof needs only that the text order of two records of different seconds is the
order of their times, and counts over a finite table of any size. `ImplementsAuthentication`
and its namesake in `ManagementProofs` map the statement that commits a use to the step
that authenticates.

**Management.** The tables are finite and given in the module, so the lemmas
`RoutesFit`, `ScopesOfParents` and `NestedFits` are proved by going through them; the
rest of the proof uses only those lemmas.

**ModelDeletion.** `KeepsItsDirectoryHolds` is proved step by step from `StageSound`: the
only steps that touch the directory of a row that stays are the rename into the stage,
which comes after the manifest was written, and the renames back.

**Registry.** `ReadyHasItsFiles` and `ClaimIsHeld` hold for any nesting of directories.
`FilesGoWithTheirRow` is proved under the hypothesis that no directory contains another;
with nested ones a deletion takes the files of an inner row, which is the disagreement
`registry_nested` shows. `TopsKeepTheirFiles` has no hypothesis: it says the same of every
row whose directory is below no other, which includes every downloaded model.
`DeletionSparesDownloads` follows from what the invariant says of a snapshot that is not
old, which every transaction of a download spoils.

The assumptions, all named in the modules, and what justifies them:

- `NoModel`, `None`, `NoPath` and the like are not elements of the sets they are beside;
- the set of jobs and the set of requests are finite (`Download`, `Gateway`): a process
  accepts finitely many; capacities are positive natural numbers;
- one build is the newest of those that start (`Startup`);
- a key is created with one or more scopes (`Management`, keys.go rejects none);
- in `Registry`, `Under` maps to directories that are not downloads' own. A download's
  directory is the child of the models root that is named after its id
  (downloader.go:171), and the root itself cannot be registered (registry.go:677), so
  no registered directory contains it.

The ledger's theorems state theirs as a hypothesis, `DownloadProofs` discharges it.

Only model-checked: liveness (`CancelSettles`, `ShutdownEnds`, `AcceptedSettles`,
`NothingHangs`, `CallsReturn`), which is out of the prover's reach, and the three
violations.

## Bounds and abstractions

`Jobs`, `Models`, `Ids`, `Requests` and `Procs` bound what a run creates; `MaxTime`
bounds the clock of `Gateway`, `MaxStarts` the starts of `Startup`. Time is otherwise absent: a timer may fire whenever it is
set. Names, repositories, logs and responses are left out. Download jobs of
unregistered repositories (the direct Start), log limits, progress and the times
of restored rows are not modelled. Directories of different models are disjoint in `ModelDeletion`, and related by `Under` in
`Registry`. Symbolic links below the models root, and model files that an operator
changes by hand, are not modelled. In `Management` a key is created with one of
`KeyScopes`, and the decoding of arguments may always fail.
The clock of `Gateway` does not go back. Process numbers and threads are not
modelled. Handlers after the shutdown's deadline are modelled in `Runtime` and, up
to their records, in `Gateway`; what they do to a closed database is not.

## Not modelled

vLLM arguments, the output of nvidia-smi, names, repositories and paths as text, schemas
and JSON are pure functions on strings that tests enumerate. The browser client and the
documentation tools have no behaviour of the service. Process numbers and the threads
that Pdeathsig is tied to are the operating system's. A clock that goes back makes rows
that restore and Verify refuse (downloader.go:862, keys.go:206): no document promises
otherwise, and no module has such a clock.

## Plan

Done: every module of the table above, and its proofs. Next, in this order:

1. A start beside a live service: `Startup` with the reconciliation and the restore
   of `Download`, which come before the port. Settings and runtime configurations.
2. The start and shutdown of the whole service, composing the modules.

`Registry` does not implement `DownloadLedger`, and is not meant to: it forgets the history
of attempts, and settles at a start all of those that were active at once. Nor is
`ModelDeletion` an implementation of `Registry`, which has no manifest that can be torn.
