# Verification of authsock-filter

`authsock-filter` is a proxy for SSH agents. It binds one or more Unix sockets, passes
what its clients send to an upstream agent, shows each client only the keys that the
filters of its socket admit, and refuses to let any other key sign. This directory holds
TLA+ models of it, the TLC configurations that check them, and proofs for TLAPS.
Paths below are relative to the crate (`src/` in the repository) unless they name a file
such as `README.md`; `PROJECT.json` maps every definition to the lines it stands for.

## 1. The system

| component | code | state | operations |
|---|---|---|---|
| Filter rules | `filter/*.rs` | groups (OR) of rules (AND), the keys loaded from files and GitHub | parse, ensure loaded, reload, match an identity |
| Proxy of one socket | `agent/proxy.rs` | `allowed_keys_cache` behind an async `RwLock`, one task per client | list identities, sign, pass through |
| Upstream connections | `agent/upstream.rs` | one connection per message | connect, send and receive, two timeouts |
| Messages and framing | `protocol/*.rs` | none | read, write, parse and rebuild identities |
| Supervisor | `cli/commands/run.rs`, `utils/socket.rs` | listeners, `socket_paths` with inodes, the socket files themselves | start each socket, serve, watch inodes, SIGINT, clean up |
| Command line and file | `cli/args.rs`, `cli/commands/{run,config}.rs`, `config/mod.rs` | the table of sockets | parse, merge, `--print-config`, `config command` |
| Configuration discovery | `config/file.rs` | none | search order, load TOML |
| GitHub keys | `filter/github.rs` | matchers and cache time, each behind a lock of its own, fetching flag | fetch, ensure loaded, match |
| Server API | `agent/server.rs` | listener, receiver of the shutdown channel | bind, accept, run until shutdown, clean up on drop (not used by `run`) |
| Service registration | `cli/commands/service.rs`, `utils/version_manager.rs` | unit file, systemd or launchd | register, unregister, reload, status |
| Entry point | `main.rs`, `cli/exit_code.rs` | none | dispatch, exit codes |
| Log viewer, completion, version | `cli/commands/*.rs` | none | start other programs, print text |

How they interact. `main` calls `run::execute`, which loads the configuration (command
line, or else the file) and then starts every socket on its own: parse the filters, load
their keys, remove what is left at the path, bind, set permissions, record the inode, spawn
the accept loop. Every accepted connection becomes a task that calls
`Proxy::handle_client`; the tasks of one socket share its `Proxy`, hence its cache and
its lock, and open a new connection to the upstream agent for every message. The inode
monitor is one more task; what it shares with the rest is the file system. Several
instances of the program, an old one and a new one after an upgrade for example, share the file
system as well.

What is hard here:

* *Two listings at once.* The cache is rebuilt after an `await` on the upstream agent, so
  the rebuilds of two connections overlap with each other, with sign requests, and with
  changes of the agent.
* *A sign request without its comment.* The protocol does not send the comment with a sign
  request; the code relies on the cache, and asks the filter with an empty comment otherwise.
* *A path is not a file.* Every step of start, monitoring and cleanup names the socket by its
  path, and another instance, a user or a crash can change what is there between any two
  steps. Inode numbers are used again.
* *Ends of all kinds.* SIGINT, a lost file, SIGTERM, SIGKILL, an agent that never answers, clients
  that leave in the middle of a request or never read their reply, steps of a start that fail half-way.
* *Commands that call commands.* `service register` is a series of file operations and calls of
  `systemctl` or `launchctl` whose failures are mostly ignored; it can be interrupted behind each of them,
  and the service manager starts the program again meanwhile.
* *Downloads that overlap.* Clones of an evaluator share their lists of keys. A download is guarded by a flag,
  stores its result under two locks one after the other, and can fail, time out or be dropped at each `await`.
* *Bytes from a peer.* Counts and lengths may lie, a connection may end inside a message, and the list
  that is sent on is written anew.
* *A channel as a signal.* The shutdown channel of a `Server` competes with clients in `select!`, and its sender
  may be dropped.
* *Configuration by merging.* Several `--socket` arguments make one socket; file and command line
  are converted into each other.

`PROJECT.json` lists these as hazards, line by line, with the properties that cover them.

What makes each part correct: no key signs that was never admitted; the cache is always one
listing; no refusal comes from a rebuild that is merely in progress; every request is decided; a
clean stop leaves no socket behind that it served; leftovers of a crash prevent no start; an instance that
clients cannot reach ends; the table of sockets is what the arguments say; conversions keep
the meaning; a command that reports success has replaced, restarted or removed the service; a list of keys
that counts as valid is no older than its cache time allows, and never goes back in time; a stream
is cut into the messages that were written, and a rebuilt answer reads as what was kept of it.

## 2. The modules

| module | what it is |
|---|---|
| `Filter` | matching of rules, groups and negation; constants only |
| `AgentMessages` | the kinds of requests and answers |
| `FilteredAgent` | abstract specification of one filtered socket |
| `Proxy` | `agent/proxy.rs` and `agent/upstream.rs` in detail, with its properties and the refinement mapping to `FilteredAgent` |
| `ProxyProofs` | theorems about `Proxy`, and that it implements `FilteredAgent` |
| `Supervisor` | `run::execute` and `utils/socket.rs`, for several instances |
| `SupervisorProofs` | theorems about `Supervisor` |
| `CommandLine` | arguments, merging, file, and the conversions, with what a command line means when it is read as a whole |
| `CommandLineProofs` | theorems about `CommandLine` |
| `Service` | `service register`, `unregister` and `reload` against systemd and launchd |
| `ServiceProofs` | theorems about `Service` |
| `RuleLoading` | `filter/{evaluator,github,keyfile}.rs`: loading the keys behind the rules, by tasks that overlap |
| `RuleLoadingProofs` | theorems about `RuleLoading` |
| `Wire` | the bytes of `protocol/message.rs`; constants only |
| `Framing` | `protocol/codec.rs`, one stream read piece by piece, with the properties of `Wire` |
| `FramingProofs` | theorems about `Wire` (what is written is read, and what is read was written) and `Framing` |
| `DataLemmas` | induction over the numbers, largest and least numbers, functions built step by step, division, and sequences put together, for the proofs |
| `ServerApi` | `agent/server.rs` and the cleanup on drop |
| `ServerApiProofs` | theorems about `ServerApi` |
| `MCProxy`, `MCSupervisor`, `MCCommandLine`, `MCService`, `MCRuleLoading`, `MCFraming`, `MCServerApi` | values of the constants for TLC |

Operators marked "Mutant" in a comment belong to no specification. Each is the definition
below it with one plausible mistake, and `PROJECT.json` says which property has to notice it.

### Filter, AgentMessages

A public key blob is an element of `Keys`. A pattern, a key file or a GitHub list matters by
the set of keys, algorithms or comments it selects, the `arg` of a rule. `Algo` gives the key
type of a blob; `NoAlgo` stands for a blob that does not decode, for which fingerprint and type
rules never match. `DirectMatch(k)` is the check of `handle_sign_request` with the empty comment.
The groups are constant because `run` loads key files and GitHub lists before it binds the socket
and never again: `cache_ttl` has no effect on a program that runs. How they are loaded is in `RuleLoading`.

### Proxy

One *connection* is one task. `pc` follows it through `handle_client_inner`:

    closed -> idle -> connect -> wait -> answered -> lock -> fill -> reply -> idle   (listing)
              idle -> check -> connect -> wait -> answered -> reply -> idle          (signing)
              idle -> connect -> wait -> answered -> reply -> idle                   (others)

Steps are split where the code awaits or where another task can look: before and after each use
of the upstream connection (`Connect`, `UpstreamAnswers`, `Receive...`), at the write lock
(`ClearCache`), between two inserts (`InsertKey`), at the release (`Unlock`). A lookup takes and
drops the read guard without awaiting in between, so it is one step that waits for `writer = Nobody`.
The filter is asked after the guard is dropped; it is constant, so the model asks it in the same step.
Every `?` on the way closes the connection (`CloseConn`). `Restart` ends the process at any point.

`published` and `recent` are history variables: the key sets the filter admitted of every answer, and
what each client was last shown and is still true. They occur in no guard.

A reply is written when its client reads it (`WriteReply`), which it need not do: `write_all` to a client has no timeout,
unlike everything about the agent, so `reply` may be where a task stays.

External parts: the agent answers with what it holds, with an answer that does not parse, with a
failure, or not at all; its keys come, go, and change their comments at any time (`AgentChanges`).

`FilteredAgent` has no lock, no upstream connection and no half-built cache: one set `allowed`,
replaced in one step by what the filter admits of one look at the agent. `Proxy` implements it under

    allowed <- cache \cup Pending      (a rebuild takes effect where it begins)
    phase   <- AbstractPhase        (connect and wait are hidden)
    reply   <- AbstractReply        (filtered as soon as the agent has answered)

### Supervisor

`fs` says what is at each path: nothing, a symbolic link, or an inode. `sock` is the inode each open
listener is bound to, so "clients reach this instance" is `fs[path] = sock[p][n]`. An instance
goes through `pick`, `stat`, `unlink`, `bind`, `chmod`, `record` for each socket, in any order since
`config.sockets` is a `HashMap`; one system call is one step. `started` and `watched` are the
`socket_paths` vector. An inode number is free again when no path and no listener holds it, so the reuse of
numbers is part of the model. `Crash` and `Terminate` end the process anywhere; SIGINT is handled only
in `run`, where `ctrl_c()` is awaited. A step of the start fails for what it finds at the path (`StartFails`), or for a reason of
its own such as permissions, a directory that cannot be made or a full disk (`StepFails`); either way the socket is skipped
(`AbandonEntry`), its listener dropped, and a file that `bind` has made stays, unknown to monitor and cleanup.
`alone` is a history variable for `StartRecovers`, and `own` tells which files at the paths an instance has made itself.

Left out: what directories hold, a `metadata` that fails behind a `chmod` of the same path that did not, removals
that the system refuses in the cleanup (the file stays, and a line in the log says so), and the contents of connections (`Proxy`).

### CommandLine

One action per branch of the loop over the arguments, one per socket that `load_configuration` takes.
An argument comes with its value. `round` 1 reads what a user types, or a file; `PrintConfig` writes
the result and reads it back through `serialize_filters` and `deserialize_filters`; `ConfigCommand`
prints a command line; `round` 2 reads that. A name is a sequence, a stem with numbers appended, so
that the file `work-2.sock` can collide with the name made up for a second `work.sock`. Quoting, and the
expansion of `~` and variables, are left out: a path stands for its expansion.

`ConfigIsAsDeclared` compares the table with what the arguments say when they are read as a whole and not one by one.
`Declared` lists the `--socket` arguments that have an upstream, which is the last one named before each
(`UpstreamFor`) or `SSH_AUTH_SOCK`, with the words up to the next socket or upstream (`FiltersFor`); `Wanted` is what
such a list asks for at one path, from every upstream that the path is named under. Where the documentation and the code read
a line differently the property is silent (`Unambiguous`): a path under two upstreams, of which the code serves the first
(`SocketKeepsUpstream` is refuted), and `-v` behind a socket, which the code takes for a filter.
`ConversionKeepsMeaning` compares the configuration of round 2 with that of round 1
by `Meaning`, which leaves names and the default upstream out. It asks for a `Printable` configuration: a file that is edited by hand can
hold two entries with one path, or an empty group, and a command line can say neither.

### Service

`os` is the platform the program was built for; it selects `SystemdSteps` or `LaunchdSteps`, the calls
and file operations of each command in their order. `todo` holds what a command has still to do, and
every element of it is one step: `Look` (does the file exist?), `Remove`, `Write`, and `ManagerCall`, which
works, or `ManagerFails`, which changes nothing and ends the command only where the code looks at
the status. `Abort` ends a command anywhere. `BeginRegister` has all that comes before the first change:
`Executable` is `resolve_service_executable`, and a register that it refuses, or whose
configuration does not load or has no socket, has no action since it changes nothing. A definition
is the executable it runs; its `--config` is one absolute path. An executable path is `Stable`, which stays, or belongs to
one version, which installs and removals let come and go: of those `detect_version_manager` recognises `Versions`, by a fixed list of
patterns, and not `Unlisted`, as of aqua.

`unit` is the file, `known` what the manager has in memory of it, `enabled` whether a login starts it, and
`daemon` the process. systemd reads the file at `daemon-reload` (with which `enable` and `disable` end) and
keeps a unit in memory while it is enabled or active; `start` of an active unit does nothing and
succeeds; `Type=simple` means that a start succeeds whatever the program does then. launchd reads the plist
at `load`, which does nothing for a job that is loaded. `Ended` has the restart policies of the unit
(`on-failure`) and the plist (`KeepAlive`).

History variables: `calm` (commands that overlapped with no other, and that no failing call and no
editor disturbed), `old` (commands that began before the process that runs now), `sound` (plans, and the file,
whose executable was found by register itself and whose configuration is as validated) and `gone`.
A command is calm only if at its beginning no process runs without its file: when `stop` fails during an
unregister, the file is removed and the process stays, and a later register, which finds no file,
neither stops it nor replaces it, and still reports success.

### RuleLoading

The tasks are callers of one evaluator: `parse`, which makes it, and then any mixture of `ensure_loaded`
and `reload`. A call goes through the rules of all groups in their order (`at`), of which those in `GitHub`
are `github=` and the rest `keyfile=`; other rules have nothing to load. `pc` follows a download:

    rule -> claim -> download -> list -> stamp -> release -> rule     (github)
    rule -> store -> rule                                             (keyfile)

`claim` is between `is_cache_valid` and the `compare_exchange`, `list` and `stamp` are before the two
write locks. Nobody holds one of these across an `await`, so in the model waiting for them takes no time. Any error ends the call (`Fail`); a future that is dropped ends it at an `await` (`Cancel`).
In either case the scope guard clears the flag. A list is represented by the time at which its
source had it: a file when it is read, GitHub some time between request and answer. Only downloads and pauses
between calls take time (`Tick`), and a download not more than `RequestTimeout`.

History variables: `began`, and `alone` for the calls that no other has overlapped. `CallTakesEffect` is
about those only: an `ensure_loaded` that meets the flag of another task returns `Ok` at once,
with no keys loaded. `ListNeverAges` is about GitHub only: the
reload of a key file has no flag, and two of them that overlap can store their reads in the other
order. Neither happens in `run`, which makes one call per evaluator, from one task.

### Wire, Framing

A byte is below `Base`, a number has `Width` bytes where the code has a `u32`, and the limits are constants; the
assumption keeps every limit below the range of a number, and four times the largest message, as the constants of
the code are below 4 GB. `Field` and `Value` are `put_u32` and `get_u32`. Each parser is an operator with `Error` for its errors, in the order
of the checks in the code. `Lossy` is `from_utf8_lossy` with one byte that is not UTF-8: it becomes three,
so that a rebuilt answer can be longer than what was read, even longer than readers accept.

In `Framing` a peer writes bodies of any content (`Bodies` lists the choices for each message) and
closes the connection with any number of bytes lost. `Receive` takes one byte, so `read_exact` is cut
everywhere. An end in the length, also in the middle of it, is a clean end for the code; `DeliveredAsSent`
says so. Any other error of a read, a connection that is reset for example, is an error anywhere (`ReadFails`, `broken`).

### ServerApi

Several servers share one path and one `watch` channel. Sockets are numbered as they are bound, with `made` telling
by whom. `select` is a server at the `select!` of `run`, `borrow` between a `changed()` that has returned and the look at the
value. A receiver subscribed behind a signal has seen it and waits on (`CallRun`); `changed()` without a
sender fails at once, each time, and the loop goes round without end. An error of `accept` is logged and takes the
connection with it in the model. The drop removes whatever is at the path by then, which may be the socket
of another server, or the link that `prepare_socket_path` refused to touch: `cleanup` asks only whether
something is there. `SocketCleanupGuard` has the same drop.

## 3. The runs

| run | properties | bounds |
|---|---|---|
| `proxy` | `TypeOK`, `CacheIsOneListing`, `SignNeedsAdmission`, `RefusalHasCause`, `Implements`, `RequestIsDecided` | 2 connections, 3 keys, 3 holdings |
| `proxy_stale` | `ListedKeyIsUsable` **violated** | as `proxy` |
| `supervisor` | `TypeOK`, `ReachableWatchesOwn`, `CleanStopLeavesNoSocket`, `StartRecovers`, `ComesToRest` | 2 instances, 2 paths, 4 inodes |
| `supervisor_replaced` | `ReplacedInstanceExits` **violated** | 2 instances, 1 path, 3 inodes |
| `command_line` | `TypeOK`, `ConfigIsAsDeclared`, `ConversionKeepsMeaning` | 5 arguments, 3 paths, 2 upstreams, files of up to 2 sockets |
| `command_line_upstreams` | `SocketKeepsUpstream` **violated** | as above |
| `service` | `TypeOK`, `RegisteredServiceRuns`, `TakesEffect`, `GoneForGood` | 2 shells, 1 stable path, 1 version, both platforms |
| `service_unlisted` | `RegisteredSurvivesUpgrade` **violated** | 1 shell, an unlisted version besides |
| `loading` | `TypeOK`, `FlagHasOneOwner`, `ValidIsFresh`, `CallTakesEffect`, `ListNeverAges` | 2 tasks, 2 users and a key file between them, time up to 4, cache 2, timeout 1 |
| `framing` | `TypeOK`, `DeliveredAsSent`, `RebuiltReadsBack`, `ParsedIsInAnswer`, `SignNamesListedKey` | 2 messages, bytes below 8, numbers of 2 bytes, messages of up to 15 bytes, 2 identities |
| `framing_unknown` | `PassedOnUnchanged` **violated** | as above |
| `server` | `TypeOK`, `DroppedLeavesNoSocket`, `SignalEndsRun`, `ClientIsAccepted` | 2 servers, 2 sockets, 2 signals, 1 client waiting at each socket |

Why these bounds. *Proxy:* the cache is shared by all tasks and a rebuild conflicts with one other
task at a time, so two connections show every conflict; the three keys are one admitted by its comment,
one admitted by its blob and one excluded by a negated rule, and the agent relabels the first. Of its three holdings the filter
admits the first key, both of the first two, and the second: a cache mixed from answers with one key each is no answer
unless one with both was given.
*Supervisor:* a path is contended by two instances; one of them has a second path, so that an error of
one socket and the order of two matter. When a socket is bound, at most the other two listeners and the file at
the other path hold a number: with four a bind never lacks one, and freed numbers are used again. *CommandLine:* five arguments hold
two sockets with a filter each behind an upstream, and three paths whose names collide.
The run stops when a command line is read, hence no deadlock check there.
*Service:* two shells are the least that overlap, and the old definition and the new one are told apart by
the two paths. What is unlisted is for the proof and for `service_unlisted`: one more path makes the run of two shells
many times as large. A register over a service takes eight steps, and an unregister or a login may come between any two.
*RuleLoading:* the flag and the locks are of one user and contended by two tasks; with a file between two users
every kind of rule comes before and behind every other that matters, and errors leave rules behind undone. Four units of time are
enough for a list to be stored one request late, to expire, and to be loaded again.
*Framing:* the second message has every list and sign request that the parsers tell apart (counts and lengths right,
off by one, above the limit; bodies cut short or with bytes behind; a comment that is not UTF-8 and whose replacement is
longer than a comment may be), and bodies of every size around the limit;
the first is a plain message or a list that the sign request behind it names or misses. The run stops at the end
of the stream.
*ServerApi:* two servers compete for the path; two values are the least that can signal and
withdraw. A dropped server is at rest, hence no deadlock check there.

What the violated properties show. Each counterexample is a finding in `PROJECT.json`.

1. `ListedKeyIsUsable` (`proxy_stale`): an older listing that is processed late overwrites the cache, and a client is
   refused a key it was just shown, contrary to the note in `handle_sign_request`.
2. `ReplacedInstanceExits` (`supervisor_replaced`): the inode is read from the path after the bind; when another start comes in
   between, the instance watches nothing, or the inode of the other one, and serves unreachable for ever.
3. `PassedOnUnchanged` (`framing_unknown`): a message whose type the table does not have, such as the answer to an extension, is passed on
   with type 0, contrary to the comment in `Proxy::process_request`.
4. `SocketKeepsUpstream` (`command_line_upstreams`): a path under two upstreams is one socket of the first, with the
   filters of both, although the sockets behind an `--upstream` belong to it.
5. `RegisteredSurvivesUpgrade` (`service_unlisted`): aqua, which `docs/service.md` names, is not in the list of version managers; its
   executables are registered as if they were stable.

Known, and not stated as a property. The code does each of the following, and so do the models; the documentation
says otherwise, or nothing. The properties say what holds beside them.

* A sign request is checked with an empty comment, for which `not-comment=...` holds (`DirectMatch`): a key that every listing
  hides may be signed with, although "Exclude keys with `not-` prefix" is all that the `README.md` of the crate says.
* SIGTERM has no handler and leaves the sockets behind (`Terminate`), although line 249 of that file names it beside SIGINT.
* A socket that fails behind its bind, at `chmod` for example (`StepFails`), leaves its file, which no cleanup removes.
* The cleanup of an instance that ends because it was replaced removes the file of the one that replaced it (`RemoveFile`).
* A replaced file whose new inode has the recorded number goes unnoticed (`FreeInodes`).
* `-v` behind a `--socket` becomes a filter of it (`TakeWord`), although the options between filters are to be skipped
  (`args.rs`, line 188).
* When `systemctl stop` fails, `register` goes on (`ManagerFails`), and reports success while the process of the old definition runs.
* Of two `ensure_loaded` that overlap, one returns `Ok` while there are no keys (`SkipClaimed`). `run` does not overlap them.

Fairness. `proxy` asks weak fairness of every step a task takes without its client (`Unaided`: tokio runs
a task that can run, and both timeouts of `agent/upstream.rs` fire), and strong fairness of steps under
the lock, since tokio's `RwLock` queues its waiters in order. Nothing is asked of the
agent, nor of clients, hence not of the write of a reply; so `RequestIsDecided` says that the reply is ready, or the connection
closed, even while other clients leave theirs unread. `supervisor` asks weak fairness of the steps of a process that runs; crashes, signals and
starts are up to the environment. `server` asks weak fairness of what a server does about the channel (tokio polls
a task that is woken) and strong fairness of `Accept`: `select!` tries its branches in random order, so a client that waits
in every round is not passed over for ever, even while the loop spins on a channel without sender.
Binding, calling `run` and dropping are the caller's.

## 4. The proofs

The theorems hold for every number of connections, keys and rules (`ProxyProofs`), of instances, sockets, paths and inodes
(`SupervisorProofs`), of shells and versions (`ServiceProofs`), of tasks, users and key files (`RuleLoadingProofs`), of servers,
signals and clients (`ServerApiProofs`), of arguments, paths, upstreams and file stems (`CommandLineProofs`), and for every base, width, limit
and content of messages (`FramingProofs`). They use the `ASSUME`s of the modules and no others. Every invariant and action property
that a passing run checks is proved, and the refinement; liveness is not.

*Proxy.* `CacheIsOneListing` is not inductive: while the lock is free nothing in the cache tells where it
came from. `IInv` adds `LockInv` (a writer is in `fill`, and only it is), `ListingInv` (what a connection
that has an answer holds is a set of admitted identities that is published), `TargetInv` (with a writer at
work, the cache and every `todo` together are the keys of its listing), and `SignNeedsAdmission`. From these:

* `CacheCorrect`: `Spec => []CacheIsOneListing`
* `SignCorrect`: `Spec => []SignNeedsAdmission`
* `DirectMatchIsListed`: for which filters the guess in `handle_sign_request` is safe. If every comment rule rejects the
  empty comment, which a `not-comment` rule never does, then a key that passes the direct check passes with any comment.
* `RefusalsHaveCause`: `Spec => RefusalHasCause`
* `Refinement`: `Spec => Implements`, the refinement of `FilteredAgent`. One lemma per action says which step of the abstract
  agent it is. `Connect`, the two ends of a wait, `InsertKey` and `Unlock` are hidden: what a rebuild has still to insert counts as inserted
  from `ClearCache` on, which is right because `Pending` is empty while the lock is free and because a lookup waits for
  the lock. Phases and replies depend on one connection only, so a step of a task leaves those of the others
  alone. `KindInv` is needed besides `IInv`: where a task stands tells what it was asked.
* `TypeCorrect`

*Supervisor.* `ReachableWatchesOwn` depends on a freed number never being that of an open listener. `IInv`
adds `EntryInv` (a socket is dealt with once, and is configured), `SockInv` (an inode has one listener, a
listener belongs to a socket that is started or being started), `OwnInv` (an own file is at its path, unless the
cleanup has passed that socket) and `AloneInv` (an instance that is alone finds its paths as it left them). Three frame lemmas
carry the argument: only a bind makes a listener or a file (`OnlyBindCreates`), with a fresh number
(`BindIsFresh`), and only `Record` adds to `started` (`OnlyRecordStarts`). `OwnFrame` is the same of `own`: only a bind adds to it, only a removal takes away. From these:

* `WatchesOwn`: `Spec => []ReachableWatchesOwn`
* `CleanStops`: `Spec => CleanStopLeavesNoSocket`
* `StartsRecover`: `Spec => StartRecovers`
* `TypeCorrect`

*Service.* `RegisteredServiceRuns` says nothing of plans that are not written yet. `IInv` adds `SoundInv`: while
anything is sound the configuration is in order, since every edit ends soundness; and a sound plan, hence a
sound file, is the stable path or an unlisted one, by `FoundIsUnversioned`. The property leaves the unlisted out. `TakesEffect` and `GoneForGood` speak of the end of a command
only. `CalmInv` says that a calm command is the only one, so the rest of its plan is what `SystemdSteps` or `LaunchdSteps` gave
it, and what it has achieved at each stage of this plan, on either platform: behind which of its steps the process is down, the file
is the new one, the manager knows it. `DaemonKeepsStage` is that the daemon, which starts, fails and ends meanwhile,
undoes none of it. `GoneInv` says that whatever is gone is known to nobody: no file, nothing in the manager's
memory, no process, no command on its way. From these:

* `RegisteredRuns`: `Spec => []RegisteredServiceRuns`
* `CommandsTakeEffect`: `Spec => []TakesEffect`
* `UnregisteredIsGone`: `Spec => []GoneForGood`
* `TypeCorrect`

*RuleLoading.* None of the properties about ages is inductive, as they say nothing of what tasks hold. `IInv` adds
`BuiltInv` (parse downloads nothing; a stamp stands for a list), `TimeInv` (nothing is known of the future), `FetchInv` (what a
download has brought is from behind its request, the request from behind the list it replaces, and no
older than the timeout), `StampInv` (a list is stored no later than one request behind its time) and `AloneInv` (what a call
by itself has done for the rules it has passed). `FetchInv` rests on `FlagHasOneOwner`: nobody else writes the
list between the request and the answer. One lemma per part, one step per action. From these:

* `OneDownloadAtATime`: `Spec => []FlagHasOneOwner`
* `CacheIsFresh`: `Spec => []ValidIsFresh`, for every `cache_ttl` and timeout
* `GitHubListNeverAges`: `Spec => ListNeverAges`
* `LoneCallTakesEffect`: `Spec => []CallTakesEffect`, for every number of rules
* `TypeCorrect`

*ServerApi.* `DroppedLeavesNoSocket` is inductive beside `TypeOK`, whose part about listeners it needs: nothing is made for a server that
is dropped, and the last step of its drop has either removed what was at the path or found nothing. So:

* `DropCleansUp`: `Spec => []DroppedLeavesNoSocket`
* `TypeCorrect`

*Data.* The provers have no induction over a property, but over a set: `SetInduction` says that a set which holds 0 and with each
number the next one holds them all, since of the numbers outside of it there would be a least. `BoundedInduction` is the same up to a
number, and `StepsExist` follows from it: a function on `0..n` that begins with a given value and goes on by given steps exists. With these each recursive
function of `Wire`, `Framing` and `CommandLine` is shown to exist, and `FlattenSeq` to be what its definition says; all else about
sequences of any length rests on these. `HasMaximum` and `HasMinimum` give the first and the last of a set of positions. `ValueOfField` and
`FieldOfValue` are `put_u32` and `get_u32` as inverses of each other;
`BlobIsPrefix` says that a buffer yields a blob exactly if it begins with its length and its bytes.

*Wire.* `Read` is the invariant of the loop of `parse_identities`: the identities read so far, written again, and what is left
are no more than what there was, counting three bytes for one, and are exactly what there was if all of it is UTF-8. `ReadRound` is one round
of the loop, `ParsedList` its end. The other way, `BuildIsParsed` goes from identity to identity through what `Build` has written.

*Framing.* `DeliveredAsSent` is not inductive: it does not say what is on the wire. `PlaceInv` adds that the reader stands in one
message (what it has read is the beginning of its length or its body, and what it waits for is what was written there) and
that every byte on the wire is the byte of the message it belongs to, as far as none are lost. The ends of the messages
ascend, so a position belongs to one message. From these:

* `Delivered`: `Spec => []DeliveredAsSent`, for every stream and every place it may be cut; errors of the connection itself (`broken`)
  may come anywhere, and lose no message that was read
* `SignRequestsNameKeys`: `Spec => []SignNamesListedKey`, by `BlobIsPrefix`
* `ListsAreInAnswers`: `Spec => []ParsedIsInAnswer`, by `ParsedList`
* `RebuiltAnswersReadBack`: `Spec => []RebuiltReadsBack`, by `ParsedList`, `BuildIsParsed`, and `KeptIsPart`: what the filter keeps is
  no longer than what there was. The proof showed that the property has to except comments that grow beyond the limit of a blob; TLC
  has such an answer since.
* `TypeCorrect`

*CommandLine.* `ConfigIsAsDeclared` speaks of `loaded` only. `ReadInv` says of every argument read that the finished groups and the current one
are what the arguments so far declare, except for a socket whose line is still open (`IsBeingRead`): of this one the sockets before it
are declared, and its filters so far are the words behind it. An argument more changes none of what the earlier ones declare once their
line is closed (`FinishedAreDeclared`), and whether a line is open is read off the arguments alone. `LoadInv` says that the table serves at each path what the
sockets taken so far ask for, with those pending the whole of `Declared`, and that it has one entry at a path; without the latter
`MergeSpec` could extend the wrong one of two. What they ask for is here `Merged`, as the code has it, with the first upstream;
`MergedIsWanted` shows that below one upstream this is `Wanted`. `OneMoreTaken` is one round of the loop, for `AddSpec` with `FreshNameIsFree`:
of the numbers from 2 on as many as there are names cannot all be taken, hence the loop over `i` ends and no entry is displaced.
`RoundInv` adds that round 2 reads a line that was printed for `before`. A printed line declares one socket more (`LineDeclares`), the lines of one entry what it serves
(`SocketCovers`), those of one upstream its entries (`UpstreamCovers`), and all of them the whole configuration (`PrintedCovers`),
whatever order the upstreams and sockets are printed in. With `ConfigIsAsDeclared` for round 2 this is the conversion. So:

* `ConfigDeclared`: `Spec => []ConfigIsAsDeclared`, for every number of arguments and every file stem, at each path that is unambiguous
* `ConversionFaithful`: `Spec => []ConversionKeepsMeaning`
* `TypeCorrect`

The proof of `LoadInv` found a mistake in an earlier `EndOfArgs`: written as one conjunction before the implication, its guard let the step
happen outside of `parse`, which changed nothing that TLC compared. It also showed which part of the types is needed: past the arguments there is always
a default upstream.

Only model-checked are `RequestIsDecided`, `ComesToRest`, `SignalEndsRun` and `ClientIsAccepted`: liveness depends on fairness
and `ENABLED`, which are out of the prover's reach. The violated properties are refuted by TLC's counterexamples.

## 5. Plan

Done: the modules of section 2 and the proofs of section 4. Next, in this order:

1. Action properties of components that have invariants only: what a step of the supervisor or of a service command may never do, each
   checked by a run before it is proved.
2. `Service`: relative paths for `--config`, which the service reads in another working directory; composed with
   the exits of the supervisor: after which ends does anybody serve the sockets again?

Not modelled: configuration discovery (the first regular file of a list of paths, then the TOML library: no
state, and a model would be the code again), the log viewer, completion and version text (they start other programs or
print), durations (arithmetic on one string that no other part reads back), the parsing of filter strings and of
the lines of a key file.
