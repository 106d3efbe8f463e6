# A TLA+ verification project for Neutralinojs

Neutralinojs is a desktop application framework: a native process serves an
HTML application to a browser control (or a browser), answers *native method*
calls over one WebSocket per client, runs *extensions* as child processes that
connect to the same WebSocket server, and pushes *events* to all of them. This
directory holds TLA+ models of the parts of that process in which state is
shared between threads, clients and calls, the TLC configurations that check
them, and TLAPS proofs of their most important invariants.

Line numbers refer to the sources in this repository. `PROJECT.json` maps every
definition to the lines it models.

## 1. The system

### Threads

| Thread | Started by | What it does |
|---|---|---|
| main | the OS | `main.cpp`: settings, server start, `extensions::init`, UI loop |
| server | `neuserver.cpp` | the asio loop: HTTP requests, WebSocket handlers, **every native method** |
| process thread, one per child | `os::spawnProcess` | waits for the child, dispatches `exit`, forgets and deletes it |
| reader thread, one per child | tinyprocess | forwards what the child writes as events |
| exit check, one per app client that left | `neuserver.cpp` | sleeps, exits the process if no app client is connected |
| watcher thread | efsw | reads inotify, dispatches `watchFile` events |

Native methods follow each other on the server thread. What makes the system
hard is the rest: other threads touch the same tables while a method runs or
between two methods; sends throw at connections that are on their way out; and
long sequences of legal calls meet ids that are given again.

### Components

| Component | State | Operations | Made correct by |
|---|---|---|---|
| Child processes (`api/os/os.cpp`, `lib/tinyprocess`) | id table, id counter, lock, `Process` objects | `spawnProcess`, `updateSpawnedProcess`, `getSpawnedProcesses`, process and reader threads | no deleted object in reach, children found under their id, `exit` is the last event, calls return |
| WebSocket server and events (`server/neuserver.cpp`, `api/events`, `api/extensions`) | connections, app register, extension register, message modes, exit checks | validate, connect, disconnect, message, broadcasts, dispatch | registers agree with the connections, success means delivery, the process ends when idle and does not abort |
| Extension loader (`extensions_loader.cpp`) | loaded extensions | `init`, `loadOne` | pages are told the truth about extensions |
| Application start and exit (`api/app/app.cpp`, `main.cpp`) | listening, process state | `main`, `app.exit`, `app.killProcess`, `app.broadcast`, exit checks | permissions before the first call, one stop of the server |
| File streams (`api/fs/fs.cpp`) | id table, `ifstream` objects, read in progress | `openFile`, `updateOpenedFile`, `getOpenedFileInfo` | a client gets the bytes of the file in order, reads end, streams are reachable |
| File watchers (`api/fs/fs.cpp`, `lib/efsw`) | id table, listeners, efsw's watch tables, inotify | `createWatcher`, `removeWatcher`, event handling | one id per path, no deleted listener in use |
| Request router (`server/router.cpp`) | mounts | permission and token checks, native method table, assets | only permitted methods run, every request gets one answer |
| Permissions and tokens (`auth/`) | access token, one-time flag | `hasMethodAccess`, `hasAPIAccess`, `hasCommandExecutionAccess`, `hasFileSystemPathAccess`, `init`, `getToken`, `verifyToken`, `verifyConnectToken` | a token is handed out as the security model says and reaches the page of the program; lists mean what they say |
| Settings (`settings.cpp`) | merged configuration | `init`, `setGlobalArgs`, `applyConfigOverride`, `getOptionForCurrentMode`, `setPort` | precedence of the sources |
| Storage (`api/storage/storage.cpp`) | one file per key | `setData`, `getData`, `getKeys`, `removeData`, `clear` | a key-value map, also over restarts and between the windows of an application |
| Resources (`resources.cpp`, `api/res`) | resource file tree | lookup, extraction | a bundle answers like the directory it was made from |
| Mounts (`api/server`) | mount table | `mount`, `unmount`, `getMounts` | the files of a mount are served, and nothing else is hidden |
| Window (`api/window`, `lib/webview`) | window, saved state | create, close, `setSize`, exit | a window comes back as it was left, closing ends the process |
| Tray (`api/os`, `lib/tray`) | array of menu items, widgets | `setTray`, clicks | the menu shown is the one asked for, a click is reported as what was clicked |
| Stateless methods (`api/net`, `api/clipboard`, `api/computer`, `api/debug`), Chrome launcher, vendored libraries | none of their own | one system call each | - |

Components meet in two places. Every thread that has something to tell calls
`events::dispatch`, which walks the registers of the server; and every table of
native objects (children, streams, watchers) is reached through an integer id
that a client keeps across calls.

## 2. Modules

| Module | Models | Runs |
|---|---|---|
| `SpawnedProcesses` | child processes and their threads | `MCSpawnedProcesses` |
| `SpawnedProcessesProofs` | proofs about it | - |
| `NeuServer` | connections, registers, events, extension start, exit | `MCNeuServer`, `MCNeuServerReconnect` |
| `NeuServerProofs` | proofs about it | - |
| `OpenedFiles` | file streams | `MCOpenedFiles`, `MCOpenedFilesReuse` |
| `OpenedFilesProofs` | proofs about it | - |
| `Watchers` | file watchers and efsw's inotify backend | `MCWatchers`, `MCWatchersRetry`, `MCWatchersRemove` |
| `WatchersProofs` | proofs about it | - |
| `SafeStore` | what storage promises: a map of safe registers | - |
| `Storage` | storage, at the grain of system calls; implements `SafeStore` | `MCStorage` |
| `StorageProofs` | proofs about it, the refinement included | - |
| `Settings` | options, command line, precedence (operators only) | see `Application` |
| `Permission` | lists, scopes, commands (operators only); extends `Settings` | see `Application` |
| `Startup` | `main()`, tokens, extensions, injections, pages; extends `Permission` | see `Application` |
| `Router` | mounts, assets, ranges, native calls (operators only); extends `Permission` | see `Application` |
| `Application` | `Startup` and `Router` composed | `MCApplication`, `MCApplicationInject` |
| `ConfigurationProofs` | what the loops of `Settings`, `Startup`, `Permission` and `Router` compute | - |
| `ApplicationProofs` | proofs about `Application` | - |
| `Tray` | the tray menu | see `Desktop` |
| `Desktop` | window, saved state and exit over several starts; extends `Tray` | `MCDesktop` |
| `DesktopProofs` | proofs about it | - |

The `MC...` modules only name model values and small sets. Names of the form
`Operator_Something` next to an operator are *mutants*: the operator with a
plausible programming error. For every property of every passing run,
`PROJECT.json` names at least one mutant with which that run reports the property as
violated.

### SpawnedProcesses

A caller (the server thread, or the main thread in `extensions::init`) takes
`spawnedProcessesLock`, modelled by its owner. A spawn is cut in three steps:
the object is constructed and an id taken (`SpawnBegin`, `fork` may fail), it is
entered and its thread starts (`SpawnRegister`), the pid is read from it and the
lock released (`SpawnReturn`). Between the last two the child can end and its
thread can be on its way to delete the object. A write to standard input
(`UpdateStdIn`, `WriteReturn`) keeps the lock while the pipe is full. `ThreadReap`
to `ThreadErase` are the steps of the process thread in the order of
`get_exit_status` and of the lambda in `spawnProcess`. The child runs under
`/bin/sh -c`, so it and its descendants are the environment: descendants may hold
either pipe after the child has ended. A write that blocks ends when there is room
or when the last holder of the other end is gone, not with the child.
`extensions::init` spawns without handlers for output (`Quiet`).

- `NoUseAfterFree`: no caller and no table entry points to a deleted object.
- `ListedUntilWrap`: until the id counter wraps, a live child is listed under
  its own id.
- `ExitIsLast`: with the `exit` event, all output has been dispatched and none
  can follow.
- `NoSignalAfterExitEvent`: no update after the `exit` event signals a process,
  although the entry is still there.
- `ExitedIsForgotten`, `CallsReturn`: an ended child is forgotten and calls
  return, with the exceptions the code has: a child or descendant that keeps the
  output open for ever, and one that holds the input for ever and does not read
  while a caller writes to it (`AwaitsReader`). The latter stops every process call
  of the application, also after the end of the child itself.

Bounds: two callers and two children for the races over one object, three calls
(two spawns and an update, or one and two), a pipe that holds one write, so that
the second blocks, and two ids. With two children the id counter comes to its
limit but an id never meets a live child again: what happens after the wrap is
covered by the theorems of section 5, which hold for every number of children,
callers, calls and ids.

### NeuServer

A handler of the server thread is one step, but for `app.exit`. A connection goes from free to open
(or refused), to *closing* (it lost its socket or got a close frame; sends
throw from here on) and to *gone* when its close handler has run. The registers
are a set of app connections and a map from extension ids. A loop of sends
reaches some of the members if one of them is closing (`Reached`);
`executeNativeMethod` turns the exception into an error reply, while in a
handler or in another thread (`AfterDispatch`) it terminates the process. Each
leaving app client starts an exit check (browser and chrome modes); the ten
seconds of sleep are not modelled, so a check can wake at any time.
`neuserver::stop` is cut in two: `stop_listening` looks whether the server listens
(`ExitMessage`, `TimerLooks`), and closes the acceptor and notes it (`ServerStops`,
`TimerStops`); the exit is a third step. Nothing locks them, so exit checks and
`app.exit` can meet there (`Stoppers`): a thread that looks too late throws, and one
of two that close at once may.

- `RegisteredAreEstablished`: the registers hold no connection whose close
  handler has run, although an extension is removed by id. Otherwise every
  later event would terminate the process.
- `ExtensionsExact`: an extension that never had two connections at a time is
  registered exactly while it is connected.
- `SuccessMeansDelivered`: a broadcast or dispatch that succeeds was sent to every
  connected client it is for, and to no other. The clients are those of the
  connections, not those of the registers, so the property also says that the
  registers miss nobody. The exception is an extension that had two connections at
  a time (the violation of section 4).
- `AbortNeedsLeaver`: an uncaught exception needs a registered client that is on
  its way out, or a second stop of the server, after the first or at the same time.
  (All of this can happen: the property says that no connect, disconnect or event
  aborts the process otherwise. What the HTTP handler itself can throw, such as
  `stoll` on a number that is too large, is outside this model.)
- `IdleEnds`: when app clients have left and none is connected, the process ends
  unless one connects again.
- `NotConnectedIsTrue` (violated, see section 4).

The process that ends in `IdleEnds` may end by an abort, when two checks meet.

Bounds: three connections: one that leaves, one that comes again, one that
observes; one extension; each of the four modes, of which the window mode covers
the closing of the window (`MainReturns`) and browser and chrome mode the exit
checks.

### OpenedFiles

A stream is an `ifstream`: position, eofbit, and the error bits; `Peeked`,
`ReadBytes`, `Sought` and `Told` are `peek`, `read`, `clear` with `seekg`, and
`tellg`. A byte is its position, so that "what the client received" is a
position as well (`expects`). A read is split at each turn of its loop because
other programs extend the file meanwhile (`Append`). A dispatch inside a read
can throw, which ends the call with an error (`ReadThrows`). A file is regular, a
directory, a pipe or terminal, or a device without an end. A pipe that is empty
while it has writers keeps a peek or read waiting (`WaitsForWriter`), with
`openedFilesLock` held, until a writer writes or the last one closes it
(`WritersLeave`). The `Binary` forms
of the read events differ in encoding only and are not told apart.

- `TableIsSound`: the table holds no deleted stream and none twice.
- `ListedUntilClosed`: before the first close, ids count up and every open
  stream is listed.
- `NoSilentGap`: the stream stands where the client believes it to be, unless a
  call reported an error or the stream is in an error state.
- `EndIsTrue`: a stream comes to its end only when the client has all the bytes
  the file had.
- `ReadIsAnswered`: a read that succeeds sends an event, unless the stream is in
  an error state before its end (a directory; a pipe after a seek, whose
  failure `SeekFile` does not report).
- `ReadsEnd`: a read ends, or waits for ever for a pipe whose writers neither write
  nor close it. The other exceptions are a `readAll` with a buffer of size 0 and
  one of a device without an end: the server thread stays in it.
- `OpenIsReachable` (violated, see section 4).

Bounds: two streams on files of up to one byte, with buffers of 0, 1 and 2 bytes,
give exact, short and empty reads of a file that grows between two turns of a
read. The theorems of section 5 hold for every number of streams, length and
buffer. `MCOpenedFilesReuse` has three streams, on files without data.

### Watchers

`createWatcher` and `removeWatcher` run on the server thread under locks that
keep efsw's thread out, so each is one step. `AddTree` is the recursive
`addWatch`, a walk over the directories in preorder with one turn (`AddStep`) for
each, written as a recursive function so that it can be proved about; a watch of a
directory below has the id of the first and knows the watches above it (`chain`).
A path is a directory, one of the ways to write it and whether it ends with a slash:
`createWatcher` compares the whole text, efsw (`pathInWatches`) the text with the
slash added, and only inotify knows the directory. inotify answers the descriptor a directory has
already. efsw's thread looks a watch up under the lock (`FindWatch`), releases
it and handles the event (`handleAction`, or `HandleDeleted` when the watch or
listener has been deleted meanwhile, of which nothing more is said).

- `OnePathOneId`: a path has at most one entry.
- `WatchersKept`: no call replaces the entry of a successful watcher, except one for
  the same directory written in another way (`/tmp/x`, then `/tmp/./x`): neither
  comparison of texts finds it, it gets the same descriptor and takes the entry.
- `ErrorIsTrue`, `RemovedIsSilent` (violated, see section 4).

Bounds: a directory and one in it, four paths (the inner one with and without a
slash, and written in another way), three calls that allocate a listener,
four watch descriptors (then the limit of the system is hit) and one unread
event.

### Storage and SafeStore

A window made by `window.create` is a process of its own, and all of them share
one storage directory without a lock. `Storage` therefore cuts a call at each
system call the others can see: `setData` makes the directory, opens and empties
the file (`writeFileOpen`), writes it block by block and closes it; `getData`
takes the size and then reads that many blocks; `clear` reads the names, removes
them one by one and then the directory. A name refers to an inode that a process
may still hold when the name is gone. A process can end at every step (`Ends`)
and a write can fail, which `setData` does not look at.

`SafeStore` is what can still be promised: each key is a *safe register* in the
sense of Lamport. A `getData` answers a value the key had while it was under way;
if a set overlapped it, or the last set was disturbed or cut short, it may answer
anything (`Unknown`). A set that no other instance disturbs gives the key its
value. `clear` succeeds only if no key is left; `getKeys` answers the keys that
are there; a call that fails changes nothing.

- `ImplementsSafeStore`: `Storage` implements `SafeStore`. The value of a key is
  the content of its file if that is `clean`, a history variable: the file holds
  all the data of a set that nothing disturbed. `alone` and `seen` in the call of
  an instance are history too: no other instance has touched the key since the
  set began; the values the key had since the get began.
- `LoneWriterExact`: the file of a set that nothing disturbed holds exactly what
  was written so far, and nobody writes to a clean file.

Bounds: two instances, since a disturbance takes two; two keys, so that `clear`
can be half-way; one key has values of one and of two blocks, so that a set can
leave the end of an older value and a get can find the file shorter or longer than
its size. Four inodes are enough for two keys and two files held open. The listing
of `getKeys` is one step, which is exact as long as the names fit the buffer of one
`getdents` call; the directory iterator makes several for more names, and such a
listing can mix several moments.

The keys of the run do not contain the extension. `KeyOf` models what `getKeys`
does to one that does (`my-neustorage` is listed as `my`, since the pattern
`.neustorage` is taken out wherever it matches); that `getKeys` answers the keys
that are there does not hold for such keys. The storage survives the end of a
process, not that of the system: nothing is synced to the disk, and a power
failure is not modelled. That files can be opened for reading is assumed.

### Settings, Permission, Startup, Router, Application

`Application` follows one program from `main()` to the native calls of its pages.
Each initial state is a *setup*: a configuration file, a command line, and what
the program finds around it (a bundle, a busy port, other pages). `Settings`
turns file and command line into options: an argument is one override at the
root and, if it is in `cliMappingAliases`, one for each mode; overrides are
patched in order; a look-up asks the mode and then the root. The loops over the
arguments, over the patches and over the characters of a command (`ArgsRead`,
`ApplyOverrides`, `Tokenized`) are recursive functions of the number of turns.
A character of a command is one of six classes, named `x`, `y`, `sp`, `sq`, `dq`
and `meta` (two letters, white space, the quotes, what rejects a command).

`Startup` has one action per function of `main()`: nobody sees the main thread
before the server thread runs. From then on two threads share the token:
`getToken` looks at `tokenSent` and sets it without a lock, so it is two steps on
either thread (`InjectBegins` and `InjectEnds` for the scripts of the window,
`serveGlobals` and `answerGlobals` for a request). The pages are the environment:
they load, load again, ask for the globals and start the client library, which
takes `NL_TOKEN` if it is not empty and otherwise what it has kept in the session.

`Permission` expands constants such as `${NL_PATH}` in scopes and, as
`__isPathInScope` does, in the path of a call (`Expanded`), then resolves links
(`Canonical`); the method itself uses the path as it was written.

`Router` is what a request or call is answered with, as a function of options,
mounts and path. A path is cut into pieces, so that the text `/app` is a prefix
of `/app-res` as it is for the code. In the bundle `.` and `..` are names like
others; on a disk the system walks along them (`WalkName`, `Resolved`), also out of
the directory of the application to files that are not its own (`Outside`).
`joinAppPath` puts a text right behind the name of that directory, so one without a
leading `/` leads elsewhere. The globals that are put before the client library are
in the body of a range and not in its headers (`RangeAnswer`). The loops over a path are recursive functions
of the number of turns: `Split` cuts a text at each `/`, `NameOf` puts the names of
a file together again, `Sought` walks down the tree of the bundle as `__seekFilePos`
does. `getAsset` calls itself for the main page of
a single page application; the model unfolds two calls and says `diverges` where
the code goes on for ever. `handleMessage` of `Application` lets a page or
extension mount and unmount, through the checks of `executeNativeMethod`.

- `CliWins`: what is said last on the command line is in force, in every mode,
  for the mode itself and for every key that is copied to the modes.
- `GlobalsAreTrue`: every port that was told is the one listened on
  (`PortTruth`), and a page that is told that extensions are on finds all of them
  loaded (`ExtEnabledIsTrue`).
- `OneTimeToken`: with the one-time security the token is given out once; only if
  the two threads were inside `getToken` at the same time (`raced`), twice.
- `OwnPageHasToken`: the page of the program has the token, with the three
  exceptions that the one-time security makes: another client was first, the page
  was loaded again before its library had kept the token, or it gets its globals
  twice.
- `EffectsArePermitted`: a call takes effect only with the native API on, if the
  file allows the method and a connected client holds the token.
- `AnswersAreRight`: files of a mount and of the document root are served
  (`MountedIsServed`), bundle and directory answer alike (`ModesAgree`), a single
  page application answers every address (`SpaServesMain`), no request throws or
  runs for ever (`RequestsAreAnswered`), and a range is answered with its bytes
  and headers that say which (`RangeIsExact`); each with the exceptions its comment
  names. The larger ones: `ModesAgree` is about paths that mean the same to the
  bundle and to the system (a leading `/`, no `.` or `..`, nothing beyond a file),
  and no header counts the globals before a range of the client library. Four of these
  exceptions were found by the attempt to prove the property for every tree of
  files and every configuration: a `url` that goes on below a file, a directory
  whose name holds a `.`, a mount over the path of an index page (the run has cases
  of these three since), and a directory that is called like an index page.
- `ListsHold`: a method touches a path only in a scope of the permission it
  needs, links resolved (`ScopesHold`; the exception is a path with a constant in
  it, where the path that is judged is not the one that is used), and a quoted
  program is judged by its name (`CommandsByName`).
- `InjectedCanCall` (violated, see section 4).

Bounds: 23 setups, each for a case of the code: the four modes, ports that are
absent, 0, given per mode, busy or not a number, a file that is missing or does
not parse, extensions with and without a process and an id, document roots with
and without a leading and a final slash, allow, block, command and scope lists. Two pages, one
extension, two mounts at a time over five mount paths (the empty one, mounted at
`/`, is a prefix of all that begin with a `/`, and `/app` of `/app-res/`); 24
requests, some with `.` and `..`; ten paths with a link and a constant; all words
of up to two characters for commands;
a `long long` of four bits, so that `last - first + 1` wraps.

### Tray and Desktop

`Desktop` runs a window again and again over one file of saved state. `app::exit`
is cut into its steps: look whether the server listens (`exitBegins`), stop it
(`exitStops`), clean up the tray, open and empty the file, write it, close the
window (which queues a delete-event), destroy it. It can run on the server thread
(`appExit`) and on the main thread (`windowStateChange`) at once; what keeps them
apart is only that the second `neuserver::stop` throws, and that is a look, a close
and a set without a lock, which both can pass (`raced`; closing the acceptor from
two threads may also throw or crash). On the server thread the router catches the
exception, on the main thread the process is aborted. A process can be killed at
every step.

`Tray` fills the fixed array of menu items on the server thread, item by item,
while the main thread handles clicks on widgets that point into it. A full array
has no end mark: what is read behind it is `Garbage`, or ends the process. A call
that fails after the array was filled, for an icon that cannot be read or a tray
that cannot be made, leaves the array filled and the old menu shown.

- `ReopensAsLeft`: a window opens as configured, or exactly where and as large as
  an earlier one was saved, except for a size that is no whole number of logical
  pixels, which is cut once.
- `StateIsWhole`: a process that exits by itself leaves the whole geometry that
  the exiting thread took, whatever the other thread did, unless both were inside
  `stop_listening` at once: then the file holds what one of them took, or nothing
  that can be read.
- `CloseEnds`: closing the window ends the process if configured, or if the
  application could not do it.
- `ShownIsRequested`: after a successful `setTray` the user sees the items of that
  call and no others, whatever longer menus and failed calls went before.
- `ClickIsShown`: a click reports the item the user sees, unless a `setTray` is
  under way or has failed half-way.

Bounds: four configurations, a display of scale 2 with a window of 5 pixels (so
that a conversion loses something), an array of two items with menus that fit,
fail half-way, are too long or absent. Starts are not bounded.

## 3. Fairness

Safety runs assume none. The liveness runs assume what the operating system's
scheduler gives to the threads of the process, and nothing about others:

- `SpawnedProcesses`: a caller that has begun a call, a reader thread and a
  process thread take their next step when they can. Children need not read,
  write or end; clients need not call.
- `NeuServer`: an exit check wakes and runs to its end (`sleep_for` returns),
  the server thread goes on with an `app.exit` it has begun, and a close handler
  follows every lost connection (asio reports it). Clients
  need neither leave nor come back.
- `OpenedFiles`: the server thread goes on with the read it has begun. Files
  grow up to the bound, so a file that grows for ever as fast as it is read is
  not considered. The writers of a pipe need neither write nor close it.
- `Desktop`: the main loop handles a delete-event that is in its queue, and a
  thread goes on with an exit or a `setTray` it has begun. Users and clients need
  not do anything.

Deadlock is checked in `MCDesktop`, where a program can always be started again.
Elsewhere it is not: the bounded number of calls, connections and mounts ends
every behaviour of these models, and a process that has exited does nothing.

## 4. What the checks found

Five runs expect a violation of something a document of the repository says:

- `MCNeuServerReconnect` (`NotConnectedIsTrue`): an extension that reconnects
  before its old connection is closed loses its registration to the close
  handler of the old one, which erases by id. From then on `extensions.dispatch`
  answers `NE_EX_EXTNOTC` to an extension that is connected.
- `MCOpenedFilesReuse` (`OpenIsReachable`): the id of a stream is the number of
  open streams. Open, open, close the first, open: the second stream is replaced
  in the table, leaked and out of reach.
- `MCWatchersRetry` (`ErrorIsTrue`): the error of a failed `addWatch` is stored
  as an entry for the path; the next `createWatcher` of that path answers it
  although the directory exists by now.
- `MCWatchersRemove` (`RemovedIsSilent`): `removeWatcher` between the lookup and
  the handling of an event deletes the watch and the listener that efsw's thread
  is about to use.
- `MCApplicationInject` (`InjectedCanCall`): with `injectGlobals` and
  `injectClientLibrary` both set, `__createWindow` asks for the globals twice; with
  the default one-time security the second, whose script runs last, has an empty
  token. Native calls of the page are refused on every load.

Other limits the models make visible, and that the properties state as
exceptions: the id counter of child processes may meet live children after
`INT_MAX` spawns; a broadcast to a register with a closing connection reaches
only some of the others and reports an error; an extension that connects between
the start of its process and `loadOne` is refused; a watcher entry outlives its
directory; a watcher below a watched directory shares the outer one's watch;
`setData` answers success when the disk is full and the value was cut short; a set
that is interrupted leaves neither the old value nor the new one.

Found while modelling, and kept as exceptions of the properties or outside the
bounds (some disagree with a document, which is quoted):

- *Tokens.* `CHANGELOG.md:779` says the token is exposed "only once"; the race in
  `getToken` can give it to the window and to one request (`OneTimeToken`).
- *Child processes.* A write to a child whose descendants hold the pipe blocks all
  process calls, also when the child has ended.
- *Streams.* A read of a pipe or terminal whose writer is idle blocks the server
  thread, and with it every native call, as does a `readAll` of a device without an
  end; `CHANGELOG.md:649` names device files.
- *Watchers.* A watched directory written in another way takes the entry of its
  watcher, which can then be removed by nobody under its first path.
- *Ports.* Without a server and without a port in the configuration, exporting the
  authentication file, starting an extension or injecting globals throws on the
  main thread and ends the program.
- *Command line.* `--data-location` and `--storage-location` are not copied to the
  modes, so a value for the mode in the file beats them. `--neu-dev-extension`
  works only behind the argument that chooses the directory mode.
- *Mounts.* A mount whose path is a prefix of another one hides it; `/app` takes
  the requests of `/app-res` too; a path without a leading `/` never serves.
- *Single page serving.* With a `documentRoot` that lacks its final `/` the main
  page is looked for at `/resourcesindex.html`. Without a `documentRoot` and with
  a `url` that does not end in its own index page, a missing main page makes
  `getAsset` call itself for ever.
- *Bundles.* A path that goes on below a file is answered with the file. `..` in a
  request is resolved in a directory and a name in a bundle; a document root without
  a leading `/` works in the bundle only.
- *Ranges.* A range of the client library has the wrong `Content-Length`, since
  the globals are put in front afterwards, and an answer with status 416 has them as
  a body of length 0; `stoll` throws on a number that is too
  large.
- *Lists.* `filesystemScopes: {}` denies everything, where `CHANGELOG.md:26` speaks
  of no restriction; the scope `/` opens only the root directory itself; constants
  are expanded in the path that is judged, not in the one that is used; `move` asks
  for no read permission of its source; a line end separates the words of a command,
  where `CHANGELOG.md:12` says that it rejects the command.
- *Exit.* `app.exit` and the close button can both pass `stop_listening`, and one
  may end the process while the other has emptied the file of the window state.
  `app.exit` queues a delete-event that the main loop may handle before the
  window is destroyed: it stops the server a second time and the process aborts.
- *Tray.* A menu that fills the array has no end mark; a `setTray` that fails
  half-way leaves the shown menu pointing at other items; a click on an item whose
  slot has become the end mark calls a null pointer.

## 5. What is proved

For every value of the constants (TLAPS, Z3 and Zenon for the steps, LS4 for the
temporal conclusions):

| Module | Theorem | Statement |
|---|---|---|
| `SpawnedProcessesProofs` | `TypeCorrect` | `Spec => []TypeOK` |
| | `MemorySafety` | `Spec => []NoUseAfterFree` |
| | `LiveChildrenListed` | `Spec => []ListedUntilWrap` |
| | `ExitEventLast` | `Spec => []ExitIsLast` |
| | `NoLateSignal` | `Spec => NoSignalAfterExitEvent` |
| `NeuServerProofs` | `TypeCorrect` | `Spec => []TypeOK` |
| | `RegistersSound` | `Spec => []RegisteredAreEstablished` |
| | `AbortsExplained` | `Spec => AbortNeedsLeaver` |
| | `ExtensionsExactHolds` | `Spec => []ExtensionsExact` |
| | `SuccessIsDelivery` | `Spec => SuccessMeansDelivered` |
| `OpenedFilesProofs` | `TypeCorrect` | `Spec => []TypeOK` |
| | `TableSound` | `Spec => []TableIsSound` |
| | `NothingReplaced` | `Spec => []ListedUntilClosed` |
| | `BytesInOrder` | `Spec => []NoSilentGap` |
| | `EndAfterBytes` | `Spec => EndIsTrue` |
| | `ReadsAnswered` | `Spec => ReadIsAnswered` |
| `WatchersProofs` | `TypeCorrect` | `Spec => []TypeOK` |
| | `OnePathOneIdHolds` | `Spec => []OnePathOneId` |
| | `WatchersKeptHolds` | `Spec => WatchersKept` |
| `StorageProofs` | `TypeCorrect` | `Spec => []TypeOK` |
| | `LoneWriterCorrect` | `Spec => []LoneWriterExact` |
| | `Refinement` | `KeysComeBack` implies `Spec => ImplementsSafeStore` |
| `DesktopProofs` | `TypeCorrect` | `Spec => []TypeOK` |
| | `ShownCorrect` | `Spec => []ShownIsRequested` |
| | `ClickCorrect` | `Spec => ClickIsShown` |
| | `ReopensCorrect` | `Spec => ReopensAsLeft` |
| | `StateWhole` | `Spec => StateIsWhole` |
| `ApplicationProofs` | `TypeOKHolds` | `AppSpec => []TypeOK` |
| | `CliWinsHolds` | `AppSpec => []CliWins` |
| | `GlobalsAreTrueHolds` | `AppSpec => []GlobalsAreTrue` |
| | `OneTimeTokenHolds` | `AppSpec => []OneTimeToken` |
| | `OwnPageHasTokenHolds` | `AppSpec => []OwnPageHasToken` |
| | `EffectsArePermittedHolds` | `AppSpec => EffectsArePermitted` |
| | `ListsHoldHolds` | `AppSpec => []ListsHold` |
| | `RangesExact` | `AppSpec => []RangeIsExact` |
| | `AnswersAreRightHolds` | `AppSpec => []AnswersAreRight` |

### Assumptions

They are the `ASSUME`s of the modules, which TLC evaluates on every run. Markers
such as `None`, `Null` and `Unknown` are not members of the sets they stand beside
(in the code they are null pointers, `json` null, the absence of an entry), and
bounds are natural numbers. Beyond that:

- processes: the pipe holds at least one write;
- server: `App` is not an extension id, `Modes` holds only the four modes;
- streams: their set is finite, the default buffer is not empty;
- watchers: `Preorder` lists a directory after its parent (`TreeAssumption`);
- storage: there is an inode for every key and every open file
  (`InodesAssumption`), and a value does not contain the byte that stands for a
  part that was never written (`ValuesAssumption`);
- tray: a request is a sequence of items or has none; window: sizes are at least
  one logical pixel, and the configured size is a number;
- application: a configuration has the shape of options, its lists of extensions
  and methods are such lists, its document root and url are texts, what stands on
  a command line is not absent (`SetupsAssumption`); words between double quotes contain none and are not
  empty (`WordsAssumption`); the canonical form of a path has a length
  (`PathsAssumption`); sizes of files and the numbers of a Range header, which are
  digits that `stoll` accepts, are numbers of a long long (`RangesAssumption`);
- files: no file is a directory too, a name is a text without a `/`; files outside
  the application are reached through `..`; `index.html` and `..` have a `.`
  before their last character, `.` only as its last one, `/` has none
  (`FilesAssumption`); requests begin with a `/`, paths
  of mounts are texts (`RequestsAssumption`). `LiteralsAssumption` says that the
  literals of `Router` are strings, which is true and which the provers do not know.

`Refinement` has one hypothesis of its own, `KeysComeBack`: the name of a file
gives back the key it was made from. It holds for keys that do not contain the
extension (section 2, Storage); for others `getKeys` answers a different key and
the statement is false. All other facts about storage need no hypothesis.

### The arguments

**SpawnedProcesses.** `NoUseAfterFree` is not inductive: that a thread does not
delete the object a caller holds depends on the lock, and that no entry of a
deleted object remains depends on ids. The inductive invariant `IInv` adds:
`CallerInv` (a caller inside a call owns the lock and holds a live object, whose
thread has not been started yet if it is being spawned), `ObjectInv` (a thread
exists only while its object does; an entry points to a live object *that was
given this id*, which is why the erase by id never leaves an entry to the
deleted object, even after the wrap), `IdInv` (until the wrap ids are given in
increasing order, hence once) and `OutputInv` (what each stage of the process
thread and of the reader has established: the thread goes past the join only
after the reader has seen the hang-up and read everything, and sets `closed`
before). Each action is shown to preserve each part; the five theorems follow.

**NeuServer.** `IInv` is `TypeOK`, `RegisteredAreEstablished` and `TimersOfGone`
(only connections whose close handler has run have an exit check, which the
type invariant needs when a connection is given its kind). The interesting steps
are `handleConnect` and `handleDisconnect`: the entry erased by id is at worst
that of another connection of the same extension, which leaves a connection out
of the register but never a gone one in it. `AbortsExplained` follows from
`IInv` at every step that can set the status to aborted. `ExtensionsExact` is
inductive together with `IInv`: without an overlap the entry that the close
handler erases by id is that of the connection that leaves, and none is left.
`SuccessIsDelivery` joins three things: a loop over connections that are all open
reaches all of them, and only then is success reported; the register of apps is the
set of app connections (`RegisteredAreEstablished`); and that of the extensions holds
the connection of every extension without an overlap (`ExtensionsExact`). Together,
in `RegistersComplete`, they say that what a loop walks through is who is connected.

**OpenedFiles.** `IInv` is `TypeOK`, `TableIsSound` and `NeverAhead` (the client
never believes a stream that has not failed to be further than it is), without
which a seek or an end could hide a gap in the other direction. `TableIsSound`
needs the type invariant only: an id that is given again replaces its entry, and
a close deletes the stream together with the one entry that holds it. `NoSilentGap`
and `ListedUntilClosed` are proved on top of `IInv`, each as an invariant of its
own with one lemma per action; the four operations of an `ifstream` come first, as
lemmas about the operators. `EndAfterBytes` is the same argument at the turn of
the loop that sends `end`. `ReadsAnswered` needs one more fact (`TailKnown`): a read
whose loop is over without having sent anything stands on a stream that is at its
end or has failed, which an append by another program does not change.

**Watchers.** Why does no `createWatcher` take the id of a working watcher, when
the id is a descriptor that inotify answers again for a directory it knows?
Because a directory whose descriptor is the id of an entry is among the watches
asked for by path (`EntriesAreReal`), written there as in the entry
(`EntriesAreWritten`), and `addWatch` refuses those; what is left is the same
directory written in another way. The invariant
adds that every entry has its own listener (`OwnListeners`) and that descriptors
are issued in increasing order and never shared by two directories (`Issued`).
That the recursive walk of `addWatch` exists for any tree, and which tables it
can change, is shown turn by turn.

**Storage.** The inductive invariant `Good` says of the files that names are
distinct and exist only in a directory that does (`NamesOK`), that an open file
has, if any, the name it was opened by (`HeldByKey`), that a set nothing disturbed
is the only one of its key (`AloneIsOnly`), that a clean file holds a value
(`CleanIsValue`), and of a get that it knows every value the key has had since it
began, and whether the file it holds can still change (`ReadersKnow`). Each system
call is shown to keep it and, under the mapping `StoreNow`, `SetsNow`, `GetsNow`,
to be a step of `SafeStore` or a stutter: opening a file begins a set, closing it
ends one, the last read of a get answers it. That there is a free inode for a new
file is a counting argument over the open files (`InodesAssumption`).

**Desktop.** For the exit, `OneExits`: unless both threads were inside
`stop_listening` at once, at most one is in `app::exit`, so nobody empties the file
while another writes it; then `SaveExact`, what is being saved is the window that
was taken, and what the file holds is the geometry of the window last left; when
both did pass, `FromOne`: the file holds what one of them took, or cannot be read.
`QueueBounded` counts the delete-events of two exits and a user.
For the tray, `FillProgress` (how far a `setTray` has come with
the array) and `MenusAgree` (the array, the menu shown and the last menu asked for
agree as long as the array was not written to since); the loop of `tray_update`
that reads up to the end mark is described by its least index without a text.

**Application.** `AppInv` has six parts. `ConfigInv`: once they are loaded, the
options are those of the file for the keys the command line does not set, and what
the command line said last for the others; the permissions are those of the
options; the port in the options is the one listened on and the only one told.
`LoadingInv`: while extensions are loaded, those that are not yet are still to be
done. `ScriptsInv`: the window has one script per injection behind the main
thread. `TokenInv`: who was given the token, and that an empty token means it was
given before. `PagesInv`: what each
page knows, at each point of a load. `TypesInv` is the rest. Steps fall in four
groups (before the server, the main thread after it, the server thread and pages,
native calls), and each group keeps each part. `CliWins` needs in addition that
there is a last argument for a key; `EffectsArePermitted` what the registered
lists are for the file's; `OwnPageHasToken` a count of the page's sources.
`OneTimeToken` needs `RaceInv`: as long as the threads have not met in `getToken`,
one that is inside comes before everybody who is given the token, and alone.
`ScopesHold` follows because a path without constants is judged as it is used.
`RangesExact` is arithmetic: the only length that wraps around is that of the
range from byte 0 to the largest number, and a negative length is read as "to the
end", which is what that range means for every file there can be. The statement
holds with and without the globals in front.

`AnswersAreRight` is proved conjunct by conjunct. It needs of the state only that
the document root and the url in force are texts (`ServesTexts`, from `ConfigInv`)
and that what is mounted are targets at paths that are texts (`MountsInv`). The rest
is about paths. `MountedServes`: the mount the loop of `getAsset` stops at is the
shortest prefix (`MountForIs`); what is left of the request behind it is read back
as the names of the file (`BelowIsFile`), and below the document root the prefix
that `handleHTTP` adds is the one that `getAsset` takes off (`RequestIs`, `RootIs`).
`BothAnswer`: a path without `.` and `..` is left alone by the walk of the system
(`PlainStays`), and for one that does not go beyond a file the walk down the tree of
the bundle finds the file exactly if the directory has it (`FilesAgree`,
`DiskAnswers`). `MainServes` and
`AllAnswered` follow the two calls of `getAsset`: the second is for the main page,
and if that is found, or its absence is no cause for a third, the answer is a file
or nothing.

The loops come first, in `ConfigurationProofs`. A data induction is not available,
so each loop is shown to exist, and to keep what it keeps, with the least turn at
which it would not (`LeastNatural`, from the well-foundedness of the naturals;
`EveryTurn`). Five results matter: `ArgsApplied` and `OptionsRead` (after any
command line the options are as `ConfigInv` says), `QuotedCommand` (a command of
two quoted words is read as exactly these, whatever characters they contain),
`MetaCommand` (a character of the shell outside quotes leaves no tokens),
`NameIsFile` (the path of a file is cut into the names it was put together from,
by way of `SplitBoth`: a text cut in two at a `/` is cut like its halves) and
`SeekFinds` (the walk down the tree ends at the file, at the first file on the way,
or at nothing).

### Only model-checked

- The liveness properties `ExitedIsForgotten`, `CallsReturn`, `IdleEnds`,
  `ReadsEnd` and `CloseEnds`: fairness is out of the prover's reach.

Every safety invariant and every action property of the passing runs is stated by a
theorem.

## 6. What is not modelled

- Data races on the server's registers, which other threads read without a lock
  while the server thread changes them: a dispatch is one step.
- The ten seconds of the exit check.
- URL decoding, query parameters, MIME types, configured headers and the check of
  the host in `handleValidate`; regular expressions of the command list other than
  names and `*`.
- Keys of the configuration that no other module uses (logging, environment,
  window decoration, Chrome arguments).
- The parsing of the bundle and of embedded resources; `resources.extractFile`.
- The data race of two threads on the options, whose look-ups insert keys.
- Links that change between a permission check and the use of the path; links and
  files outside the application that a `..` of a request leads to, but for one set
  of them (`Outside`).
- Listings of the storage directory that take several `getdents` calls.
- Window methods other than size, close and creation; GTK calls from two threads,
  which are taken one at a time (its own state is not protected by a lock either);
  fractional scales (Windows), with which a saved
  window can shrink at every start.
- Two programs that share one file of saved window state.
- Truncation of an opened file by another program; permissions that change.
- Renames, symbolic links and unreadable directories under a watch; the other
  backends of efsw.
- The Windows and macOS variants of child processes, watchers, window and tray.
- Exceptions of a dispatch in the threads of `SpawnedProcesses` and `Watchers`:
  they terminate the process, which `NeuServer` models (`ForeignDispatch`).
- Native dialogs, the clipboard and the other methods that are one call of a
  system library and keep no state.
- Vendored libraries. Of the roughly 527 000 lines of C and C++ in this tree, the
  framework itself is a few thousand (`main.cpp`, `settings.cpp`, `resources.cpp`,
  `server/`, `auth/`, `api/`); the rest is mbedtls, json, httplib, asio,
  websocketpp, WebView2 headers and the like. They have no logic of this program,
  so the share of the whole tree that the models cover stays small by necessity.
  tinyprocess, efsw, tray and webview are modelled where they hold the state of a
  component.

## 7. Plan

Done: child processes, server, file streams, watchers, storage with its abstract
specification, start-up, tokens, settings, permissions, router, mounts, window
state, exit and tray, each with its runs and its proofs; every safety property that
is checked is proved.

What could follow: an abstract life cycle of a child (started, output, exit,
forgotten) that `SpawnedProcesses` implements; keys that contain the storage
extension.
