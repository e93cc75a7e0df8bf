# RDK Logger: a TLA+ model, its checks and its proofs

`librdkloggers` is the logging library of the RDK middleware.  Every component of
a set-top box links it, from any number of threads; it wraps log4c, reads its
levels from `debug.ini`, and can be told by another program, `rdklogctrl`, to
change a level while it runs.  It has no thread of its own: everything happens in
the calls of its clients, under three mutexes.

This directory holds TLA+ modules that model the library, the configurations
under which TLC checks them, and proofs that TLAPS checks.  Paths below are
relative to the repository.

## 1. Inventory

| component | state it keeps | operations | where |
|---|---|---|---|
| Initialisation and configuration | `isLogInited`, `gInitMutex`; `isInited`; `gRootCat`, `gRootPriority`; the position in `debug.ini` | `rdk_logger_init`, `rdk_logger_deinit`, `rdk_dbg_priv_init`, `rdk_dbg_priv_config`, `rdk_logger_parse_config` | `src/rdk_logger_init.c`, `src/rdk_debug_priv.c:197-398` |
| Extended initialisation | an appender per module; additivity | `rdk_logger_ext_init`, `rdk_dbg_priv_ext_init` | `src/rdk_logger_init.c:90`, `src/rdk_debug_priv.c:400-574` |
| Log levels | the priority of every category, `gLoggingMutex` | `rdk_logger_set_logLevel`, `..._get_logLevel`, `..._enable_logLevel`, `..._is_logLevel_enabled`, the translations | `src/rdk_debug.c`, `src/rdk_debug_priv.c:134-164, 598-726` |
| Logging a message | none of its own | `rdk_dbg_priv_log` and its four entry points | `src/rdk_debug.c`, `src/rdk_debug_priv.c:629-674` |
| Control socket | `g_dl_socket`, `g_dl_socket_pid`, `g_dl_request_mutex`; the datagrams in the socket; the name in `/tmp` | `rdk_dyn_log_init`, `rdk_dyn_log_deinit`, `rdk_dyn_log_process_pending_request` | `src/rdk_dynamic_logger.c` |
| rdklogctrl | none | look a process up, send one datagram | `utils/rdklogctrl.c` |
| log4c (external) | categories, appenders, buffers of events | chained priority, additivity, opening and appending | used by `src/rdk_debug_priv.c` |
| Layouts | a buffer per event | `rdk_format_log` and the six layouts | `src/rdk_debug_priv.c:728-903` |
| Appenders | type, user data, open files, limits | console, syslog, journal, rolling file | `src/rdk_debug_priv.c:421-506, 906-981` |
| Onboarding log | marker files, one file that grows | `rdk_logger_log_onboard` | `src/rdk_logger_onboard.c` |
| Milestones | one file that grows | `logMilestone` | `src/rdk_logger_milestone.c` |
| Unit tests | none | the suites of one test program | `unittests/` |
| CPU test | none | measures the library | `test/rdk_logger_cpu_test.c` |

How they interact.  `rdk_logger_init` holds `gInitMutex` while it has log4c read
`log4crc`, reads `debug.ini` into the categories of log4c, and opens the control
socket under `g_dl_request_mutex`.  `rdk_dbg_priv_log` first drains the control
socket (`pthread_mutex_trylock`: somebody else at it is enough), applies every
request with `rdk_dbg_priv_set_level` under `gLoggingMutex`, and then, under
`gLoggingMutex`, looks at the category, gives it the default if it has no
priority, and prints or drops the message.  `rdk_logger_ext_init` calls
`rdk_logger_init` and takes `gInitMutex` a second time, then `gLoggingMutex`.
A forked child shares the parent's socket until it first logs.

A message that is let through goes to the appender of its category, still under
`gLoggingMutex`: its layout renders it into the buffer of the event, and the
appender writes that to the console, the syslog, the journal or a file.
`rdk_logger_ext_init` closes and reconfigures appenders that are in use.  The
onboarding log and the milestones are apart from all this: every thread appends
lines to two files, and nothing is locked.

What is hard about it: three mutexes taken by nested calls; the parser writes the
categories under another mutex than their readers; the default is copied into a
module at its first message and stays; priorities are ordered downwards and have
two values beyond the levels; an initialisation that fails half-way can be
called again; requests are drained by whichever thread logs; sockets, names and
descriptors outlive processes across `fork`, `exec`, crashes and pids used again; an
appender changes its type while it is open and its user data is freed and made
anew; a line may be longer than the buffer it is read into or rendered in.

What makes each component correct:

* initialisation: `debug.ini` is read once and the socket opened once, whoever
  calls first and how often (`ConfiguredOnce`, `NoSocketLeaked`, `ClosedForGood`);
* levels: the level last given to a module is the one it has, one nobody gave is
  the default, and the answers of the level functions agree with what is printed
  (`LastLevelWins`, `InheritsDefault`, `GetTellsWhatIsPrinted`);
* logging: a message is printed exactly when the level of its module lets it
  through (`LogFollowsLevel`), and by exactly one appender (`OneReceiver`);
* control: requests take effect in order and once, are not left behind while
  somebody logs, and reach the process they are for (`RequestsInOrder`,
  `RequestsDrained`, `OnlyAddressee`, `NameLeadsHome`);
* rdklogctrl: what it sends is what was asked for and is accepted, and what it
  returns is true (`SentIsApplied`, `ResultTrue`, `NoneRefused`);
* outputs: a message goes where its module was configured to last, whole, and
  files and memory are neither lost nor used after they were freed (`Delivered`,
  `Rendered`, `GrowsOnce`, `UdataTracked`, `StreamsOwned`, `LimitsPositive`);
* configuration files: what is read is what the lines say, however long they
  are (`LinesRead`, `SettingsBare`);
* appended logs: a call is one line, the onboarding log ends
  with its marker (`OneLinePerCall`, `LateOnce`, `MilestonesInOrder`);
* all of it: no thread waits for ever, and a call takes a bounded number of steps
  (`LockOrder`, `CallsBounded`, `CallsReturn`), in a forked process too unless the fork lost a mutex (`OnlyForkStrands`).

The hazards in `PROJECT.json` name each of these at its line of the code.

## 2. Modules

| module | models |
|---|---|
| `LogLevels` | `enum rdk_LogLevel`, the log4c priorities, `rdk_logLevel_to_log4c_priority`, `log4c_priority_to_rdk_logLevel`, the value of a line of `debug.ini` |
| `Log4cCategories` | the tree of categories of log4c as the code uses it: chained priority, additivity |
| `LoggerCore` | one process, any number of threads: initialisation, configuration, extended initialisation, logging, level functions, the control socket as its own process sees it |
| `LoggerProperties` | the properties of `LoggerCore`, the refinement mapping and the pieces of the inductive invariant |
| `LevelRegister` | the abstract specification of `LoggerCore`: levels and messages, nothing else |
| `Mailboxes` | the abstract specification of `ControlChannel`: a mailbox for every pid |
| `ControlChannel` | several processes of one program: control sockets, names in `/tmp`, descriptors, fork, exec, crash, `rdklogctrl` |
| `ChannelProperties` | the properties of `ControlChannel`, the refinement mapping and the pieces of the inductive invariants |
| `Layouts` | `rdk_format_log`, `getModuleName`, the six layouts |
| `Outputs` | the appenders that `rdk_dbg_priv_ext_init` configures, and the way of a message through a layout to an output (extends `Layouts`) |
| `ConfigFile` | how `rdk_logger_parse_config` cuts a file into names and values |
| `LogCtrl` | one run of `rdklogctrl`, among processes that come, go and change names |
| `AppendedLogs` | the onboarding log and the milestones in several threads, of one process or several |
| `UnitTests` | the test program as a client of `LoggerCore`, with what it expects |
| `LoggerProofs`, `LockProofs`, `LevelProofs`, `RegisterProofs` | theorems about `LoggerCore`: types, order of initialisation and appenders; mutexes and requests; levels; the refinement |
| `ChannelProofs` | theorems about `ControlChannel`; the last one is the refinement |
| `OutputProofs` | theorems about `Layouts` and `Outputs` |
| `PartsProofs` | theorems about `ConfigFile`, `LogCtrl` and `AppendedLogs` |
| `SequenceLemmas` | what the proofs need to know of `Min`, `Max`, parts of sequences and remainders |
| `MCLogger`, `MCChannel`, `MCOutputs`, `MCParts`, `MCTests` | values of the constants for TLC; `MCParts` puts three components beside each other |

`LoggerCore` and `ControlChannel` look at the same functions from two sides.
`LoggerCore` has what a request does to the levels of the process that opened the
socket, so it needs no pid; `ControlChannel` has which process a request reaches,
so it needs no level.  In `LoggerCore` the action `LogTryLock` goes straight to the
draining, for a process that was not forked after its initialisation; the branch
for an inherited socket (`rdk_dynamic_logger.c:101-107`) is `CloseInherited` in
`ControlChannel`.

### State and steps of LoggerCore

The variables carry the names of the code: `gInitMutex`, `g_dl_request_mutex` and
`gLoggingMutex` are the threads that hold them, `isLogInited`, `isInited` and
`gRootPriority` are the globals.  `priority`, `appender` and `additive` are the
fields of log4c's categories, `line` the position in `debug.ini`, `socket` whether
`g_dl_socket` is bound, `queue` what waits in it, `message` the datagram a thread has
received.  `pc`, `call` and `failed` are a thread's place, arguments and `ret`.
`wanted`, `applied`, `outcome` and `promise` are history that no step reads.

A thread takes one step for every statement another thread can notice: taking a
mutex, or touching a shared variable.  Inside a section that is protected against
all its readers, statements are one step; where the code does *not* protect
them, as in `rdk_logger_parse_config` (which holds `gInitMutex`, not
`gLoggingMutex`), each write is a step of its own.  Releasing a mutex is part of the
step before it.

Abstracted: the text of messages, names and paths; how a line of `debug.ini` is
cut into a name and a value (`Files` has the lines that are not skipped; `ConfigFile`
has the rest), and which of `/opt`, `/nvram` and `/etc` the macro `RDK_LOGGER_INIT` finds
a `debug.ini` in (`LoggerInitFile`: it is what `rdk_logger_ext_init` reads, and in general
another file than the `debug.ini` in the working directory that `rdk_logger_init(NULL)` reads);
the fields of an appender (they are in `Outputs`); the checks of a datagram (`valid`;
they are in `LogCtrl`).  `log4c_category_get`
creates a category that behaves like one nobody asked for, so every category
exists from the start.  The NULL checks of the entry points return at once and are
no steps.

### State and steps of ControlChannel

One copy of `isLogInited`, `g_dl_socket`, `g_dl_socket_pid` and of two mutexes per
process; `descriptors`, `file` and `queue` are the kernel's.  A fork copies memory and
descriptors; a mutex another thread holds is `Lost` in the child.  An exit closes
everything, at any point of any thread, so it is also a crash.  A name stays when
its socket is gone (`Dead`), because no statement of the code unlinks it, and `bind`
fails on it.  All processes run one program, so that names differ in the pid only
and the comparison with `__progname` does not help.  `rdklogctrl` may be delayed
between looking a process up and sending for as long as it takes the process to
end, so `SendTo` asks only that the name exists.  `history` is what no step reads:
`kept`, and `images`, the bound.

### The abstract specifications

`LevelRegister` is what a client may rely on that logs after a successful
`rdk_logger_init`: a priority per module, a default, and messages of which each is
judged in one instant by the priority its module has in that instant.  It has no
mutex, no copy of the default in a module, no socket and no file.
`ImplementsRegister` says that `LoggerCore` implements it, with

* `given <- wanted`: the level last given by `debug.ini`, a call or a request;
* `default <- gRootPriority`, `ready <- isLogInited`;
* `decided <- Decided`: a thread has decided on a message from the step that reads
  the chained priority until it releases `gLoggingMutex`.

What could break it: a message judged by a level that was changed before or after,
two halves of a decision that see different levels, an inherited default
that is later taken for a level somebody gave, a default changed when messages are
already judged by it.

`Mailboxes` is what `rdklogctrl` may rely on: a mailbox for every pid, opened at most
once, into which only requests for this pid are put, which only the process with
this pid empties, one request after the other, and which loses nothing before it closes for
good.  A mailbox does not close while somebody is emptying it.  There are no sockets,
no descriptors handed on by `fork` or `exec`, no threads and no mutexes.
`ImplementsMailboxes` says that `ControlChannel` implements it, with

* `state <- MailboxState`: new if the name is not in `/tmp`, open if it leads to a
  socket, gone if that socket is closed;
* `waiting <- MailWaiting`: how many datagrams are in the socket the name leads to;
* `looking <- LookingInto`: the pids whose names lead to the socket that a process is
  draining.  That it is a set is the point: for a child that drains the socket of its
  parent it would be the parent's pid, and `Look` has no such step.

### State and steps of the other modules

`Layouts`: `buf`, `size` and `n` are `buf_data`, `buf_size` and what `snprintf`
returned; `PrintLine`, `Grow` and `Finish` are the call, the branch that makes the
buffer larger and calls again, and the end of `rdk_format_log`.  A line is a
sequence of characters in which a field of fixed width is one character.

`Outputs`: `type`, `isopen`, `udata` and `layout` are the fields of a log4c appender,
`heap` is the user data at each address, `streams` the open files, `limits` the
policy.  `ExtInitPrint` and `ExtInitFile` are the two branches of
`rdk_dbg_priv_ext_init`; `Log`, `Rendering` and `Write` are the way of a message.  Since
`gLoggingMutex` is held over each of them (`LoggerCore`), one message or one
configuration is under way at a time.  Memory may be used up at any step, and a
block that was freed may come back at the same address.

`ConfigFile`: `ReadPiece` is `fgets`, `ParsePiece` what is done with a piece.  The
properties compare with a definition that looks at the whole file at once.  Where the
copies of name and value end in memory is left out: of a piece that fills the buffer and
begins with the equals sign, `value[length]` is one past the array
(`rdk_debug_priv.c:271-273`).

`LogCtrl`: `Check`, `Resolve` and `Send` are the three parts of `main`; `Replace` and
`Rename` are other processes, at any time between them.  A name is its length and a
tag; a level is the word its text begins with and whether more follows, which matters to
TRACE alone (`rdklogctrl.c:82`).  `received` is what arrives, judged by the checks of
`src/rdk_dynamic_logger.c`.

`AppendedLogs`: `Processes` are the threads that call, of one process or of several, for
the code makes no difference between them; `at` is where each is in its call; each marker is looked for in a
step of its own, and a line is formatted in one step and written in another.  Lines
are shorter than the buffer of a `FILE`, so that `fclose` writes them in one piece.  That
the threads of one process share the buffer of `localtime` (`rdk_logger_onboard.c:72`) is
left out.

`UnitTests`: `todo` is the list of calls of each thread of the running test, as they
stand in `unittests/`, with the result each must have; the steps between are those of
`LoggerCore`.

## 3. Runs

| run | constants | shows |
|---|---|---|
| `levels` | 2 threads; init, log, set, get, enabled, ext_init usable and rejected, with a file of its own; 1 request; log4c_init and fopen may fail | `TypeOK`, `LastLevelWins`, `InheritsDefault`, `LogFollowsLevel`, `GetTellsWhatIsPrinted`, `OneReceiver`, `ConfiguredOnce`, and that the abstract register is implemented (`ImplementsRegister`), for clients that log after the initialisation |
| `progress` | 2 threads, fair; init, deinit, ext_init usable, rejected and NULL, log, set; 2 requests, queue of 2 | `RequestsInOrder`, `NoSocketLeaked`, `LockOrder`, `ClosedForGood`, `CallsBounded`, `CallsReturn`, `RequestsDrained` |
| `channel` | 2 pids of 2 threads, 3 starts, forks or execs in all, queue of 1 | `TypeOK`, `OnlyAddressee`, `NameLeadsHome`, `NoDescriptorLeak`, `OnlyForkStrands`, `ClosedUnlessRebinding`, and that the mailboxes are implemented (`ImplementsMailboxes`) |
| `rebinding` | 2 pids of 2 threads, fair, 2 starts or forks | `ChildRebinds`: a child that logs gets a socket of its own, unless its name is taken |
| `outputs` | 2 modules, 4 configurations, 3 messages, a first buffer of 5, 2 addresses | `TypeOK`, `Rendered`, `GrowsOnce`, `UdataTracked`, `StreamsOwned`, `LimitsPositive`, `Delivered` |
| `parts` | every file of up to 6 characters; rdklogctrl with every level and its longer form, usable arguments and each spoilt in every way, 2 pids, names of 1, 64 and 65; 2 threads of 2 calls | the properties of `ConfigFile`, `LogCtrl` and `AppendedLogs` |

The remaining runs end in a counterexample (section 5).

**Bounds.**  Three categories (`LOG.RDK`, a module, a submodule of it) have every
relation the code distinguishes: the root, a child of the root, and one with a
parent that can have a priority or an appender of its own.  `debug.ini` has two lines,
one for `LOG.RDK.DEFAULT` and one for a module, in both orders, with a good
level, NONE and a misspelt one; in `levels` the file that `rdk_logger_ext_init` reads is
another than that of `rdk_logger_init(NULL)`, in `progress` it is the same.  Two threads are enough for a race on a pair of
mutexes.  A queue of two and two requests let one request be held and one be
queued at a time.  Two pids and three process images make: a parent and a child; a
parent that ends and whose pid comes back while the child still holds its socket; a
child that forks a process with its parent's pid; a process that execs.  A name can
be bound only once, so two sockets are all that two pids can ever bind.  `images`
bounds the run only: `CHECK_DEADLOCK FALSE` is there because all processes may have
ended.  In `rebinding` the queue has length 0, since what waits plays no part in it,
and the client does not deinitialise; `channel` has both.  Symmetry is used where
every property is an invariant or an action property, never for liveness.

In `outputs` the first buffer has 5 characters: shorter lines, lines of exactly its
length and longer ones occur, with the empty message, with one newline at the end
and with two.  Two modules and two addresses let one module free what the other
gets, and memory be used up.  The largest long is 7 there.  In `parts` the buffer for
lines has 4 characters, so that a file of 6 has lines that fill it, exceed it and
are cut before or behind an equals sign, a hash or a newline; the buffers of names
are as large as in the code (64 and 108), and the messages longer than the buffer of
the onboarding log.  The three components share no state: a behaviour is one of one
of them.  They stop, hence `CHECK_DEADLOCK FALSE`.

The theorems of section 4 hold without these bounds.

**Fairness.**  `FairSpec` lets every thread inside the library run (weak fairness
of its steps: the scheduler) and lets a thread that finds a mutex free again and
again take it at last (strong fairness of its `Lock` steps: what POSIX mutexes do
in practice under a scheduler that does not starve a thread; a thread waiting for
ever while others pass is not what these properties are about).  Clients and
senders owe nothing: no `Enter`, `Send`, `Start` or `Exit` is fair.
`RequestsDrained` assumes in its premise that the client goes on logging.

## 4. Proofs

Every safety property that a passing run checks is a theorem, for all values of the constants: any number of threads, processes and sockets, any tree of
categories, any `debug.ini`, any calls, any queue, any modules, configurations and
sizes of buffers, any arguments, names and messages.  A few are proved and in no run:
`SomebodyGoesOn` and `NoneTwoWays` (in the runs, `CallsReturn` and `LogFollowsLevel` ask
for more), and `ConfigFileTypeOK`.  The assumptions are
`LoggerAssumption`, `PathAssumption`, `ChannelAssumption`, `LayoutAssumption`,
`OutputAssumption`, `ConfigFileAssumption`, `LogCtrlAssumption` and
`AppendedLogsAssumption`, which say what kind of value each constant has, and three
that theorems name themselves:

* `LogAfterInit`, the client logs only when `rdk_logger_init` has succeeded.
  The theorems about levels need it; section 5 shows that they fail without;
* `BelowRoot`, every module is below `LOG.RDK`.  `OneReceiver` needs it, since
  only `LOG.RDK` is sure to have an appender;
* `PathsFit`, the path of a socket is not cut.  The theorems about `LogCtrl` need it;
  names of 64 characters and pids of ten digits fit into the 108 bytes of
  `sun_path` (12 + 1 + 64 + 1 + 10 + 1).

The argument for `LoggerCore`, from the bottom:

1. `TypeCorrect` (`LoggerProofs`).
2. `MutualExclusionHolds` (`LockProofs`): a thread holds a mutex exactly when its
   `pc` is in the section of that mutex.  This is inductive by itself, and gives
   `LockOrderHolds`: the mutex a thread waits for has a higher rank than those
   it holds, so there is no circle of waiting.  `SomebodyGoesOnHolds` says what this
   is for: the holder of the latest of the mutexes that are held waits for none
   (`LoggingHolderGoesOn`, `RequestHolderGoesOn`, `InitHolderGoesOn`), so that among the
   threads in the library one can always go on.
3. `InitOrderHolds`: a thread in the configuring part of `rdk_logger_init` means
   that `isLogInited` is false, and an open socket that it is true or about to be.
   Inductive only with 2, because the flag is set by the one thread in the
   section.  It gives `ConfiguredOnceHolds`, `ClosedForGoodHolds` and
   `NoSocketLeakedHolds`.
4. `LogStepsHold` (`LevelProofs`): what `rdk_dbg_priv_log` has read of a category is
   still so when it uses it.  Every writer of a priority holds `gLoggingMutex`,
   except the parser, and by 3 and `LogAfterInit` no parser runs while somebody
   logs.  This is the step that fails in the code without the assumption.
5. `LastLevelWinsHolds` and `InheritedPriorityHolds`, each inductive with 4: the
   only write that is nobody's wish finds a category without a priority, and
   writes a default that changes no more.
6. `LogFollowsLevelHolds`, `GetTellsWhatIsPrintedHolds`: by 5 the chained priority
   that log4c looks up is the module's own (`MeantIsUsed`), a priority that reads back as
   NONE lets through all or nothing (`AllOrNothing`), and between the
   decision and the release of the mutex nothing changes (`UndisturbedStep`).
7. `RequestsInOrderHolds` (`LockProofs`): with the numbers of requests bounded
   by `sent` (`RequestNumbers`) and at most one thread holding a request.
8. `OneReceiverHolds` (`LoggerProofs`): `Routed` says that a category other than
   `LOG.RDK` has an appender exactly if it is not additive, so that looking up from a
   category the first appender ends the search; under `BelowRoot` there is one.

9. `RegisterImplemented` (`RegisterProofs`), under `LogAfterInit`: the refinement.
   Writers of levels map to `Give` and the parser's default to `SetDefault`
   (`RegisterInputStep`).  The rest is where the decision is made.  `CheckDecides`:
   the step that asks log4c for the chained priority maps to `Decide`, because by 5
   and 6 what log4c finds there is `Meant` of the module (`RegisterMeant`), although by
   then the module may hold a copy of the default.  `UnlockForgets`: releasing
   `gLoggingMutex` maps to `Forget`.  `DecisionsStep`: every other step, of this
   thread or another, leaves `Decided` alone.
10. `CallsBoundedHolds` (`LockProofs`): `StepsLeft` of a thread is a number
   (`StepsFromType`) that each of its steps lowers (`OwnStepCosts`), because each is a
   move to a label nearer to the end, reads a line, takes a request out or
   returns (`StepMoves`).  Steps of others do not raise it (`OtherStepsCostNothing`):
   only `ConfigEnd` sets the line back, and by 2 nobody else is at the file then.
   A request raises it by three (`RequestsCostThree`).  With `SomebodyGoesOnHolds` this
   is why `CallsReturn` holds for more threads than TLC tries: as long as no request
   arrives, a thread that runs and gets its mutexes has no steps left in the end.
11. `NoneTwoWaysHolds` (`LevelProofs`), from 6: a module that `debug.ini` gave the word
   NONE prints nothing, one that a call or a request gave the level NONE prints
   everything.  It is exactly what the run `nonelevel` finds.

The argument for `ControlChannel` (`ChannelProofs`):

1. `ChannelTypeCorrect`, which includes that `g_dl_socket` is never a closed descriptor.
2. `NothingLeftHolds`: a pid nobody has has no descriptors and no threads, so a fork
   copies into nothing.
3. `SectionsHold`: mutual exclusion in every process.  A child starts with threads
   outside every section and with mutexes that are free or `Lost`.  From it
   `OnlyForkStrandsHolds`: whoever holds `g_dl_request_mutex` waits for nothing, whoever
   holds `gInitMutex` for that one at most.  A log call looks at `g_dl_request_mutex`
   without waiting; the one place where it waits is the rebinding, and there the thread
   has just had the mutex, so it is not `Lost` (`RebindsWithMutexHolds`).
4. `BoundByPidHolds`: the socket of a process is the one that the name with
   `g_dl_socket_pid` leads to.  The pid is copied by a fork together with the
   descriptor, and a name is never bound again; so the comparison of
   `rdk_dynamic_logger.c:101` tells an inherited socket from an own one.  It gives
   `NameLeadsHomeHolds`.
5. `NamesHold`: no two names lead to the same socket, and what waits in a socket was
   sent to its name.  `DrainsOwnHolds`: a thread drains only after it has found
   the socket to be its own, and 3 keeps the others from replacing it meanwhile.  With 4
   they give `OnlyAddresseeHolds`.
6. `OneOpenerHolds`: a socket is opened by one thread at a time and when there is none.
   This is the delicate one, for there are two ways to open a socket, one under
   `gInitMutex` and one not, and between two sections of `g_dl_request_mutex` a
   rebinding thread holds nothing.  They exclude each other because a socket to
   inherit exists only in a process that is initialised, or that was forked
   between the opening and `isLogInited = 1` and therefore has lost `gInitMutex`.
   It gives `NoDescriptorLeakHolds` and `ClosedUnlessRebindingHolds`.
7. `MailboxesImplemented`: the refinement.  `LooksHomeHolds` puts 4 and 5 into the terms
   of the mapping: a process that drains looks into the mailbox of its own pid and
   into no other.  Then step by step: `DynInit` maps to `Open` (`MailOpens`: the new
   socket has nothing in it, for what waits in a socket was sent to a name that leads to
   it, and a name leads to open sockets only), `Checked` to `Look`, `Receive` to `Take`,
   `SendTo` to `Post` (`OneMailbox`: no two names lead to the queue that changes), and every
   step that closes descriptors or stops draining to `TurnAway` (`MailClosed`: the
   mailboxes that close are those whose sockets nobody has open, so nobody drains
   them).  While a thread opens or closes a socket, no other of its process
   drains (3, `StillNobodyDrains`).  The rest is nothing to the mailboxes (`MailElsewhere`).

The argument for `Layouts` and `Outputs` (`OutputProofs`):

1. `LayoutInv`: the buffer has the size log4c gives it, or exactly the size that the line
   of the event under way needs; and after printing, `n` is the length of the line and the
   buffer holds its beginning (`Printed`).  That the buffer grows at most once
   follows, and so does `RenderedHolds`: what a short buffer cuts is the end.
   `LineShape` has what is true of a line in each of the six layouts.
2. `OutputInv` is inductive and has what ties the appenders to the memory.  `KindsApart`:
   a module's appender for files is never given another kind of output, and the other
   one none of the allocated user data; without it memory could belong to an
   appender that the next part says nothing of.  `UdataOwned`: each address belongs to one appender and
   is in use exactly if it belongs to one.  `AsConfigured`: the appender is what the last
   configuration made of it, and its user data names the file that was asked for.
   `OpenHasStream` and `StreamsOwned`: an open appender has its file open, and no file is
   open for an address that was freed or has come back for another file.  `OnItsWay`: the
   appender of the message under way is open and its layout is that of the event;
   it is kept because a configuration cannot come between (`logging`).
3. From it `UdataTrackedHolds`, `StreamsOwnedHolds`, `LimitsPositiveHolds` and, step by step,
   `DeliveredHolds`: `Write` is the only step that writes, and by `AsConfigured` and
   `OnItsWay` it writes where and how the last configuration says.
   `LimitsPositive` speaks of sizes up to LONG_MAX, as the property itself says.

The argument for `ConfigFile` (`PartsProofs`): the reference looks at the whole file.  A
piece starts where the distance from the beginning of its line is a multiple of
what the buffer holds (`PieceStarts`), and ends before the next one starts.  `ConfigInv` says
that the file has been read up to the end of a piece, that the buffer holds the piece that
ends there, if one is to be dealt with, and that the settings are those of the pieces
dealt with, each at the place its rank gives it.  `PieceCut` is the step that connects the
two: where `fgets` stops, at a newline, with a full buffer or at the end of the file, is
where the next piece starts; it needs that between two multiples of a number there is none
(`NextMultiple`).  `InOrderExtended` adds a setting: the new piece starts behind all
the others, so its rank is their number.  `TrimBare` is why names and values are bare.

The argument for `LogCtrl` (`PartsProofs`): `LogCtrlInv` says what has been checked
when `main` is at each of its steps, and that the name read is the name the process
listens under as long as nothing got in the way.  `MessageWhole` then gives the
datagram field by field: nothing is cut, since the lengths have been checked, and the
code of the level has the name that was given (`CodesAndNames`, `EveryNameHasCode`).  For
`SentIsAppliedHolds` it is not enough that the name was right when it was read:
`sendto` finds a socket of that name or none.

The argument for `AppendedLogs` (`PartsProofs`): `LogsInv` has five parts.  Lines in
the onboarding log come from calls of their threads that have ended, and a line
about to be written from the one that has not (`LinesOfCalls`, `LinesUnderway`), so
no call has two.  `SanitizeBare` and `CutShort` make a line printable whatever it was.
A thread that has written late is never past both tests again (`LateSteps`): a marker
exists and stays, and if it passes the first test it is the other one that exists.  A milestone's time is read when
everything it must not precede is in the file (`MilestoneTimes`), and the file never
shrinks.

Model-checked only: `CallsReturn`, `RequestsDrained` and `ChildRebinds`, which are
liveness properties under fairness and out of the prover's reach.  In `progress`
the number of requests is bounded; a sender that keeps the socket filled can keep a
thread in the draining loop for ever (`rdk_debug_priv.c:634` says that the call
returns immediately).

## 5. Where documents and code disagree

| run | the documents | the code |
|---|---|---|
| `nonelevel` | `RDK_LOG_NONE` disables a module (`docs/API_DOCUMENTATION.md:372`) | the API and a request store priority UNKNOWN, the largest: everything is printed.  Only the word NONE in `debug.ini` silences |
| `enabledanswer` | `rdk_logger_is_logLevel_enabled` says whether a level is enabled (`rdk_debug_priv.c:591`) | for a module without a level it asks the parents, while the message that follows gets the default |
| `configrace` | mutexes make concurrent use safe (`docs/README.md:39`) | the parser and the logger take different mutexes: a level from `debug.ini` is overwritten for good |
| `earlyoutput` | messages before a successful initialisation are suppressed (`docs/README.md:196`) | after a failed one, the appender of `log4crc` prints them |
| `stalename` | every initialised process has a control socket (`docs/README.md:54`) | the name is never unlinked; a process with a pid used before cannot bind and is told RDK_SUCCESS |
| `tests` | `rdk_logger_deinit` resets the state of the logger between tests (`unittests/rdkLoggerConfigTest.cpp:66`), and each test finds the levels of its own file | `isLogInited` stays set: the first test of a process that initialises reads its file, no later one does |

`tests` runs the suites with their loops run once, beginning with any test
(`--gtest_filter`), in a process that has the test files but neither a `debug.ini` in its
working directory nor one in `/opt`, `/nvram` or `/etc`.  `TestsPass` therefore excepts the
tests that read one of those, and nothing else: the first of `rdkloggerInit.cpp`, which
expects to fail, `NullConfigFile`, and the performance test of `rdk_logger_ext_init`.
The counterexample begins with `EmptyConfigFile`; `MalformedConfigFile`, the next, does
not find its level.  A comment in another suite, `unittests/rdkloggerInit.cpp:28`, knows
that the logger cannot be initialised twice.  When the program is run as a
whole, from its first test, the tests that fail in the model are ten of the twelve of
`rdkLoggerConfigTest.cpp`, all but `EmptyConfigFile` and `NullConfigFile`, since the file
of `rdkloggerInit.cpp` is the one the process has read; all other tests modelled meet their
expectations.  `main.cpp` returns 0 whatever fails.

Without a run:

* `docs/README.md` speaks of two mutexes where there are three, and of
  `rdklogctrl` broadcasting where it sends to one process.
* Modules without an entry inherit the default (`docs/README.md:32`); one that logged
  before the initialisation keeps WARN.  It is the race of `configrace` without
  the race.
* `docs/API_DOCUMENTATION.md:414` shows `rdklogctrl ... ~ERROR`, which
  `validate_loglevel` refuses.  Of the words it takes, all may be followed by more
  (`WARNING`) but TRACE, which is compared with its end.

More things the models show and no document denies.  `rdk_logger_deinit` between
the two halves of a rebinding (`rdk_dynamic_logger.c:104`) leaves a socket that is
opened after it; `ClosedUnlessRebinding` excepts exactly this.  A fork while another
thread drains leaves the child with a mutex that stays locked: it keeps the inherited
socket and never drains, and waits for ever when it initialises or deinitialises;
`ChildRebinds` and `OnlyForkStrands` except it, and `ChildRebinds` the child whose name is
taken.  A line of `debug.ini` that is too
long for the buffer counts as several, so that the end of a long comment can be a
setting (`PieceStarts` in `ConfigFile`).  A program whose name has 65 characters or
more binds a socket, but `rdklogctrl` refuses to address it.  The user data that log4c
makes for a policy (`sizewin`) is not freed when `rdk_dbg_priv_ext_init` replaces it.

## 6. Not modelled, and the plan

Not modelled:

* how log4c rolls files (their numbers, their sizes, `reinit`): it is in the library,
  and `Outputs` stops at the limits it is given.  With it are left out the unit test
  suites ExtInit and Rotation, which fork a child that takes log4c down and up again
  and then look at the files;
* the unit test suite Utility, which only calls the onboarding log and the milestones
  with one process (`AppendedLogs` has several), and the CPU test, which measures;
* `openlog`, which sets an option of syslog, and the wording of lines.

The plan, most important first; all of it is done.

1. `LogLevels`, `Log4cCategories`, `LoggerCore` with runs.
2. `ControlChannel` with runs.
3. The proofs of every safety property of both.
4. An abstract specification, the level register, that `LoggerCore` implements
   under `LogAfterInit`: checked in `levels`, then proved.
5. The appenders of `rdk_dbg_priv_ext_init`: types, user data freed and made anew, a
   change of type of an open appender.
6. Layouts: the buffer that grows, the newline that is removed, against a reference
   definition.
7. The lines of `debug.ini`: pieces of long lines, trimming, what is skipped.
8. The onboarding log and the milestones: marker files and concurrent appends.
9. The arguments of `rdklogctrl` and the lookup in `/proc`.
10. The proofs for 5 to 7: `UdataTracked` and `StreamsOwned` from an invariant that ties
    each address to one appender; `Rendered` and `GrowsOnce` from `n = Len(Line(event))`
    after printing; `LinesRead` from where the pieces start.
11. Mailboxes as an abstract specification of `ControlChannel`, checked as a PROPERTY of
    `channel`, then proved from the same invariants as `OnlyAddressee`.
12. What `CallsReturn` rests on besides fairness, for any number of threads: somebody can
    go on, and a call has a bounded number of steps.  The same for forked processes.
