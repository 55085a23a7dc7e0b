# Verification of server-people-counter

TLA+ models of the people counter service, the TLC runs that check them, and theorems that TLAPS
proves about them. Source references are relative to the root of the repository; `BlackfinServer.cpp`
is `server/src/BlackfinServer.cpp`, `MovilgateServerApp.cpp` is `server/src/MovilgateServerApp.cpp`,
`json.hpp` and `easylogging++.h` are those of `server/include`, which are compiled into the daemon.

## 1. The system

People counters (Irisys "Blackfin" units) open TCP connections to a daemon. The daemon polls each
unit every thirty seconds and saves a JSON document in memcached, under the unit's address. A Perl
client, run from time to time, reads the documents and reports one UDP datagram per configured unit
to a collector. An operator's script asks for the counts to be reset, by a key in memcached. An init
script and a monitor that cron runs every minute keep the daemon alive.

| component | state | operations | hard because | modules |
|---|---|---|---|---|
| `BlackfinServer` (`BlackfinServer.cpp/.h`) | unit list, `m_lock`, three thread flags, Blackfin objects, sockets | `StartServer`, `HandleIncomingConnections`, `run`, `RemoveConnection`, `BlackfinError`, `ShutdownServer`, destructor | main thread, polling thread, one library thread per unit, a signal handler; one lock, many unprotected flags | `BlackfinServer`, `ConnectionRegistry`, `BlackfinServerProperties`, `BlackfinServerProofs` |
| Blackfin library (`BlackfinAPI`, binary) | endpoints, reader threads, sockets, errors | add, remove, shut down, read, report | closed; calls back on its own threads | external part of `BlackfinServer` |
| counter documents and resets (`RetrieveCounterData`, `Save`, `HasResetCurrentCount`, `resetCurrentCount.pl`) | counts and identifiers in the units, documents and the reset key in memcached | retrieve, save, look for a request, delete it, reset | get, delete and reset are three steps; the cache expires, fails, restarts | `Telemetry`, `TelemetryProofs` |
| one document (`RetrieveCounterData`, `Save`, `client.pl`) | registers and identifier of a unit, the document under construction, the cached one | sixteen calls in a row, filing, taking | any call may fail; labels and counts come by different calls and meet by index | `CounterReport`, `CounterReportProofs` |
| start and life of the daemon (`MovilgateServerApp.cpp`, `StartServer`) | descriptors, `std::cout`, pidfile, handler | two forks, logger, configuration, bind, accept, close, exit | descriptors 0 to 2 are closed and given out again; numbers are closed twice; each step may fail | `DaemonStart`, `DaemonStartProofs` |
| logging (`easylogging++.h`) | configuration by level, counters of unflushed lines | parse a file, complete it, build the map; log, flush, configure anew | values for all levels and for one overwrite each other by order; lines are kept back | `LogConfiguration`, `Logger`, `DaemonStartProofs` |
| JSON library (`json.hpp`) | scanner and its buffer, parser, values | parse, access, change, erase, iterate, dump | a generated automaton over a buffer that moves; values own what they point to | `JsonLexer`, `JsonReader`, `JsonValue`, `JsonContainer`, `JsonDump`, `JsonProgram`, `JsonOrder`, `JsonTree`, `JsonText`, `JsonProofs`, `JsonTextProofs` |
| daemons and scripts (`MovilgateServerApp.cpp`, `INSTALL/templates/admin-server.sh`, `monitor.sh`) | processes, port, pidfile, step of each script | start, stop, restart, status, monitor | cron and an administrator at once; stop does not wait; the pidfile is truncated by one process and written by another | `ServiceControl`, `ServiceControlProofs` |
| UDP client (`client/client.pl`) | loop, socket, datagram | fetch, send, receive, close | UDP, a cache that changes under it, one socket for all units | `UDPClient`, `UDPClientProofs` |
| sensors of a message (`client.pl:49-106`) | counts, subtotals, ten sensors | one line, one total, padding | ten is a boundary; totals are rewritten in place | `SensorLine`, `CounterReportProofs` |

Not modelled: see section 8.

How the components meet:

* **unit list**: main appends (`:613`), the polling thread erases (`:220-228`), reader threads mark
  (`:547`), the status line reads without the lock (`:238`).
* **memcached**: key = address of the unit, value = document filed under the unit's device
  identifier (server writes, client reads); key `ResetCurrentCount` (script writes, server deletes).
* **pidfile and port**: main truncates the pidfile before it forks, its second parent writes the
  pid, the scripts read, remove and touch it; the port decides which of two daemons lives.
* **descriptors**: the log, the configuration, the listening socket, units and memcached get the
  lowest number that is free; `std::cout` writes to number 1 whatever it is.
* **configuration**: `conf/servicioConteoPersonas.conf` gives the server its address and port, and
  the client each unit's address and identifier. The server reads it after the pidfile is written;
  when it is missing or no JSON, `json::parse` throws, nobody catches, and the daemon aborts.

What makes each component correct:

* *server*: a listed unit is alive, no callback outlives its object, nobody changes the list during
  a pass, nothing leaks, the engine goes down alone, units are listed and polled, a signal ends the
  process; as a whole, the list behaves as a registry from which only condemned units are dropped.
* *telemetry*: a document never runs ahead of its unit or backwards in time, counts arrive, a
  request is used up once and not more often, documents are filed under the unit's own identifier.
* *one document*: what the client takes for a label's count is what the label has counted.
* *daemon*: text goes where it should, the port stays open, descriptors come back.
* *logging*: a level is configured as the file says; a daemon that gives up has its reason in the
  file, as long as the file takes lines.
* *JSON*: reading undoes writing, nothing is read outside the buffer, nothing is lost or freed twice.
* *service*: the pidfile names the daemon that serves, the monitor kills no healthy daemon and
  gets a dead one up again, unless a hanging one keeps the port or a stale pid is taken for it.
* *client*: a run ends, every unit is reported, a message has its ten sensors and each says what its
  label counts.

`PROJECT.json` lists the hazards line by line, with the properties that watch over each.

## 2. What is assumed of other people's code

`libBlackfinAPI*.a` is a binary. What `BlackfinServer` assumes of it comes from its headers, from how
the server uses it and from the symbols and calls in the x64 archive:

* `AddBlackfinEndPoint` registers the unit and starts a reader thread before it does the discovery;
  when that fails it withdraws the endpoint, waits for the reader and closes the socket, before the
  server closes it once more (`:617-622`);
* a reader reads, and calls `BlackfinError` on its own thread when a read fails; it looks at its stop
  flag between two reads;
* `RemoveBlackfinEndPoint` sets the stop flag, waits for the reader and closes the socket
  (`BlackfinEngine.h:72-79`);
* `ShutdownEngine` does the same for every endpoint and deletes the Blackfin object itself;
* at an orderly close by the peer the library closes its handle at once.

The engine's internal lock is not modelled. All of this is in definitions marked external in
`PROJECT.json`. So are the kernel's rule for descriptors
(the lowest free number), the state of `std::cout` after a failed write, SIGPIPE at a write to a
listening socket, memcached, and the collector.

`json.hpp` and `easylogging++.h` are third-party headers, but they run inside the daemon and decide
whether it starts, what it saves and where it writes. They are modelled from their code. The model of
the scanner and parser was compared with the compiled header on 11 472 generated texts: both accept
and refuse the same ones.

## 3. The modules and the code

### BlackfinServer

One action per step between two points where another thread can intervene: a lock, an unlock, a
callback, an assignment to an unprotected flag, a wait.

| code | actions |
|---|---|
| `StartServer`, accept loop (`:90-175, 558-627`) | `StartServer`, `StartServerFails`, `Accept`, `AddSucceeds`, `AddFails`, `AddUndone`, `RejectUnit`, `LockToAdd`, `PushBack` |
| `signalHandler`, `ShutdownServer`, `~BlackfinServer` | `Signal`, `ServerIsDone`, `StopEndPoint`, `DeleteEndPoint`, `EngineIsDown`, `LockToDrain`, `DrainNothing`, `DrainUnit`, `Exit` |
| `threadStart`, `run` (`:55-66, 206-281`) | `SetRunning`, `ClearDone`, `EnterLoop`, `LockToClean`, `RemoveEndPoint`, `JoinReader`, `DiscardUnit`, `UnlockClean`, `StatusLine`, `LockToPoll`, `PollUnit`, `UnlockPoll`, `LeaveLoop`, `Detach` |
| the reader of unit `u`, `BlackfinError` (`:534-553`) | `StopReader`, `BeginRead`, `ReadSucceeds`, `PeerCloses`, `ReadFails`, `BlackfinError` |
| thirty seconds are over (`:249`) | `Elapse` |

The vector is a set (`m_blackfinList`): who is in it matters to every property, the visiting order to
none. A unit is the address of its object; addresses and descriptors are reused. `owner` says for
whom a descriptor number was last given out, so that the code's second `close` of a number may hit
another unit: the reader of that unit may then fail (`CanFail`). The signal arrives on the main
thread, once, at any point of the accept loop, with whatever lock that thread holds. After undefined
behaviour (`DrainUnit`: a pass over deleted objects) the model stops: no property is claimed of it.

`polled` is a history variable. `ConnectionRegistry` is the abstract specification: units are listed,
served, condemned, dropped; `Registry!RegistrySpec` is checked as a property and proved.

### Telemetry

`Retrieve`, `Save`, `ResetAsked`/`NoResetAsked`, `DeleteFlag`, `ResetUnit` are the body of the poll
pass (`:249-266`), split at every call that leaves the process. A `memcached_delete` that fails is a
branch of `DeleteFlag`: the request stays, and the unit is reset all the same. A `ResetCurrentCount`
that fails is a branch of `ResetUnit`: the request is gone, and no unit is reset. `PersonPasses`,
`RequestReset`, `Expire` and `CacheRestarts` happen at any moment. Which unit is polled next is left
open: `BlackfinServer` decides it. A document is its identifier and one count; a call on an
`Unreliable` unit may fail, and then the document says so (`NoId`, `None`). History is what was
`asked` (requests, and deletes that left one there), the `calls` of `ResetCurrentCount` and those
among them that did it (`resets`), `restarts`, and the units not reset since their document was saved
(`fresh`).

### CounterReport

What `Telemetry` does in one step, for one unit: `RetrieveCounterData` (`:289-510`) call by call, in
the order of the code (`Calls`), into a JSON value that grows by `operator[]`, so that a member of a
null value makes it an object. `Get` is a call whose answer goes into the document as it is; those
that matter to a property have actions of their own. `Fails` is any call that fails: its members stay
out, and so does the call nested in its branch. Labels and count lines come from two calls and meet by
index (`Labelled`); `Change` gives the unit other lines between two calls. A read past the labels sets
`overrun`, and the model stops. `GetUnitTimeZone` uses the unit's answer as an index that nobody
checks (`:330`): one that is no time zone sets `stray`, and the model stops there, too. `Save` files
the document, `Take` is the client, which goes on with `SensorLine`: the module extends it. `poll` and
`filed` are history: what the unit had as a poll began and which calls of it failed.

### DaemonStart, Logger, LogConfiguration

`DaemonStart` is `main` from its arguments to its exit, `initLogger`, `StartServer` and what becomes of
descriptors afterwards. One action per step that may fail; `Log` is a step with a log statement: the
line goes to the file first and then to `std::cout`, which may kill the process (`Alive`). `fds` says
what each number is. In the order of the code the configuration gets number 0, the listening socket
number 1, and the first unit number 0 once `StartServer` has closed the configuration. A number is
closed twice in two places: `RemoveUnit` and `CloseAgain` for a unit that is removed, `AddFails` and
`Reject` for one whose discovery fails, where the library closes it first. Memcached may open its
connection between the two closes of a rejected unit (and then loses it to the second one); no unit
connects and none breaks between them here (that is section 6's and `BlackfinServer`'s matter). A
signal is met between two log statements, not in one.

`Logger` is the default logger, which is there before `main` with a default file. It `EXTENDS`
`LogConfiguration`: a list in order of registration (`since`) with one value per level, parsed line by
line (`ReadLevel`, `ReadConfig`), completed (`SetRemaining`), and set again, entry by entry and in
that order, in the list that the logger has of its own (`Merge`, which is `setFromBase`: a value for
Global is set for every level there). From the logger's list, which is in the order of the levels'
numbers, a map is built that leaves out what equals the value of Global (`Build`). One type of
configuration stands for all of those that have one default for all levels. Two facts of the code that
are easily overlooked: `ENABLED` does not count with `HierarchicalLogging`, where the level is
compared with `m_loggingLevel`, which is never initialized (`loggingLevel` is any of a few values);
and `ELPP_NO_DEFAULT_LOG_FILE` and `ELPP_THREAD_SAFE` are defined after the header is included, so
that the default file is opened and every lock of the library is empty. A stream that fails to write
or to flush (`failed`) takes no line any more, and those it gets are lost uncounted (`WriteFile`).
With the polling thread a second one logs, without a lock (`Race`): from then on the counts say
nothing, and no property claims anything of the file.

### The JSON modules

`JsonLexer` is the scanner: one state per group of labels of the code that re2c generated, one step
per character, `marker` and `cursor` as in the code, and `Refill` as yyfill: the buffer grows by one
line of a stream. What a stream read and a string read have in common is one automaton; `whole` tells
them apart. `JsonReader` is the recursive descent with an explicit `stack`; `Printed` is the
conversion of a number from its digits in a text to those that dump writes of it. `JsonValue` has the
values and their constructors and conversions (`GetString` takes a `\u` code, or two that are the
halves of one character, for that character, and throws at a half without the other one: `Unpaired`),
`JsonContainer` access, modifiers and iterators as operators on a value (an iterator is the number of
its member; `Thrown` is an exception), `JsonDump` escaping and one level of dump (`DumpBy`). The keys
of an object come in the order of their characters, whose places (`Place`) differ. `JsonProgram`
composes them: a text is read, a program makes some changes with any of the operations (`Put`,
`EraseSome`, `Build`, `Transfer`), keeping count of the blocks that the values own (`live`), then
walks the result, erasing some members on the way, and walks back. `Values` are the values that the
program puts in and goes on with, and those in them: each is made of the others (`ProgramAssumption`).
`JsonOrder` compares two values, by operators that are given for what is in them. What needs a value
with all that is in it is recursive and stays out of the modules with proofs: `JsonTree` ties these
knots (`IsLess`, `IsEqual`, `Dump`) and has the memory of a value; the run hands `IsLess`, `IsEqual`
and `OwnedBlocks` to the other modules as `Less`, `Equal` and `Blocks`. `JsonText` says what a text
says: the tokens that dump writes of a value, or the first of them (`Says`), with blanks between them,
and cut into lines where no token is (`Spell`). `Amount` is the place of a number among all numbers:
the integers that are parsed are doubles as well, and `approx` (`json.hpp:2298`) is equality.

### ServiceControl

Processes are `starting`, `serving`, `quitting` or not there. A script of each caller (administrator,
cron) is a sequence `kill`, `remove`, `run`, `touch`. `writing` tells a launch that has the current
pidfile open from one whose file has been removed. Tests of the scripts that only set `EXIT_CODE`,
which a later command overwrites (`admin-server.sh:40-47, 58-61`), leave no trace: this is why `start`
goes on when the daemon is running. `careful` is history: did every script so far begin with nothing
else going on, and `start` only while no daemon served?

### UDPClient and SensorLine

`UDPClient` has one datagram under way at most, as the client waits for each. A document is `own`
(filed under the identifier the configuration gives), `foreign` or `invalid`. A `send` on the closed
socket fails or dies, which depends on the version of `IO::Socket` and on whether a peer was ever set.
`SensorLine` is the loop over the labels of one document. `Value` is the reference definition: it
looks at the fetched document only, while the loop updates counts and subtotals in place.

## 4. The runs

| run | expects | question |
|---|---|---|
| `server_safety` | pass | two units connect, fail discovery, break, are removed and come back, with a signal at any moment: lists, objects, threads, registry |
| `server_live` | pass | the build as shipped, without `DISCONNECT_MODE`: accepted units get listed and due ones polled, every time they are due; a signal that finds nothing listed ends the process |
| `removal_stuck` | violation | is a unit that reported an error removed? |
| `engine_shutdown` | violation | are the objects destroyed before the engine goes down? |
| `telemetry` | pass | one unit that fails and one that does not, a memcached that misses calls and restarts, requests at any moment, deletes and resets that fail: order of documents, resets, and what gets through in the end |
| `device_id` | violation | are documents filed under the configured identifier? |
| `service` | pass | two commands and a crash at any moment, scripts that overlap, daemons that hang, a pid that `status` may take for a running one |
| `client` | pass | three units, a cache that changes, datagrams lost or refused |
| `client_reports` | violation | does a run report every unit whose document it read? |
| `report` | pass | from the registers of a unit through its document to the sensors of its message, with failures and changes during the poll |
| `json` | pass | texts laid out in every way, whole and line by line, cut and wrong, characters by their codes and numbers as dump does not write them, then changes, a walk with erasures and a walk back |
| `daemon` | pass | every way to start or fail, every short log configuration, a log file that takes no more, then units, memcached, signals and kills |

What the properties say:

* `ListedUnitsAlive`, `ReadersHaveObjects`, `EngineDownAlone`, `NothingLeaked`, `CleanExit`: no use
  after delete, the handshake of the flags is sound, no path leaks, the process ends clean.
* `PassesUndisturbed`: inside a pass only the polling thread's own erase changes the list, so that
  its iterators stay valid.
* `ImplementsRegistry`: refinement; a mark set while its unit is being polled is not lost, an unmarked
  unit is not dropped.
* `EmptyShutdownEnds`, `AttachedGetsListed`, `DueGetsPolled`: as named; a due unit is polled while it is
  still listed, and not got rid of. The last two are claimed as long as no connection breaks and no
  signal comes (`Disturbed`): a break may end in the deadlock of `removal_stuck`, and a removal closes a
  number that may be somebody else's by then.
* `OneResetPerRequest`, `CachedNotAhead`, `CountsOnlyGrow`: the calls of `ResetCurrentCount` do not
  outnumber the requests and the deletes that failed; the cache trails the unit and does not go back.
* `RequestGetsReset`, `CountsArrive`: liveness of the two keys. A request comes to nothing only if the
  one call that it is used up on fails, or memcached restarts.
* `LabelsSuffice`, `CountsArriveLabelled`: labels are read out of bounds only if the unit's lines
  changed during the poll; what the client takes is what the lines counted, label by label, whichever
  other calls failed. Of two lines with one label the later one counts.
* `SensorsAreValues`, `AllSensorsSent`: the sensors.
* `ConfiguredAsWritten`: each level gets what the last line about it says, but for a level that the file
  has a value for before the first one of Global (`Overruled`), which gets Global's last. The shipped
  file begins with Global.
* `NoTextIntoSockets`: as long as INFO is printed, the version line fails on the closed descriptor 1
  before the listening socket takes it, and silences `std::cout` for good. Without it the daemon would
  write to its listening socket and die of SIGPIPE.
* `PortStaysOpen`, `NothingLeaks`, `LinesSurvive`, `ServerGetsNamed`: number closed twice, descriptors
  given back, the pidfile; of the log, a start that fails loses no line, and one that is killed only a
  few, while `main` is the only thread and the stream takes what it gets (`LinesSurvive`).
* `ReadsWithinBuffer`, `ReadsWhatWasWritten`, `WalksMeetAll`, `NothingLeaks`, `Ordered`, `ProgramEnds`:
  the scanner and its buffer; reading undoes writing and refuses the rest; a walk that erases misses
  nobody; blocks; comparison; termination.
* `PidfileNamesServer`, `MonitorSparesServer`: while `careful` holds, the pidfile names the daemon that
  serves and only the administrator's stop makes it quit.
* `ServiceHeals`: a service that is down comes up again, whatever the administrator did before, unless a
  daemon that was told to quit never does and keeps the port (`PortIsHeld`), or the stale pid in the
  pidfile is found in some other line of `ps` (`PidIsMistaken`).
* `RunEnds`: a run ends unless a datagram is lost.

Each property of a passing run has a mutant in `PROJECT.json`: a plausible error in a definition
(operators marked "Mutant:") that makes TLC find the property violated. `TypeOK` is in the runs of the
server and of telemetry; the type invariants of the other modules with proofs are proved only
(section 7).

### Bounds

* *Units, Fds = 2*: two units suffice for one to be removed, or to fail, while another is being added,
  and for a descriptor number to pass from one to the other. Addresses and numbers are reused, so
  two serve any number of connections one after the other. `server_safety` treats units and
  descriptors as symmetric; the run with liveness does not.
* *Breakable*: both units in `server_safety`, none in `server_live` (see `Disturbed` above),
  where units that fail their discovery still give their numbers back.
* *MaxPeople = 1, MaxRequests = 2, MaxRestarts = 1*, one of two units unreliable: a zero and a nonzero
  count, which resets alternate; a request that arrives while another is being used up; a restart that
  forgets both keys. `MaxRequests` bounds requests and deletes that fail together.
* *MaxCommands = 2, MaxCrashes = 1, four processes*: an administrator's script and the monitor's with
  a daemon serving, one shutting down and one launch each; a crash between any two steps. `Lookalikes`
  has one process: a pid that is mistaken and pids that are not.
* *Three devices*: one after the socket was closed by another that was reported, and one after one
  that was skipped.
* *report*: `MaxSensors = 4` stands for ten: with seven labels documents have fewer lines than sensors,
  as many and more. Counts 1 and 3 let a subtraction exceed its additions; two labels that differ in
  case only share a place in the order. Every unit with up to seven lines is polled untroubled; four
  have one failing call and one change of lines, one of them a label twice. Two polls: the second may
  fail to be filed.
* *json*: five values laid out with none, a space or a line break before every token, which covers
  every place where the scanner refills; others, with every pair of kinds of characters in a string
  and every form of a number, with none and with a tab and a space; all of them cut short; characters
  by one and by two codes, numbers that are written back in other digits; twenty wrong texts, unpaired
  halves of characters among them. `MaxEdits = 2`: an operation on the result of any other. Eight of
  the values go on to be changed and walked.
* *daemon*: files of up to three lines over Global, three levels and an unknown one, and files of three
  values, each below a line of its own level (Global or one of two): a value before, after, between and
  instead of Global's, and one equal to Global's.
  `loggingLevel` below, at and above INFO. Eight descriptors, two more than are ever open. A threshold
  of two stands for five: the first line of a level waits, the next one flushes.

## 5. Fairness

* *BlackfinServer*: every thread that can take a step eventually does (weak fairness per thread).
  Waiting for `m_lock` has strong fairness: the polling thread unlocks and sleeps 10 ms (`:277`) in each
  pass and nobody else keeps the lock, so a waiter finds it free again and again. Nobody has to
  connect, break or signal; a discovery ends, one way or the other. Thirty seconds (`Elapse`) have no
  fairness: nothing claims that a unit is due.
* *Telemetry*: the poll goes on (weak), and comes round to each unit (strong per unit on `Retrieve`),
  since each pass visits every listed unit (`:248-275`). A memcached that is asked again and again
  answers some time (strong on `Save` of a unit and on `ResetAsked`): the poll repeats both for ever.
  People, requests, expirations and restarts have none; restarts are bounded, and `RequestGetsReset`
  excuses a request that a restart forgets.
* *ServiceControl*: cron runs the monitor again and again (strong, for it needs a moment at which no
  launch is under way); scripts and launches go on, and so does a daemon told to quit that does not have
  the port. One that has it may hang for ever: `BlackfinServer` shows how (section 6).
* *UDPClient*: the client goes on, the collector answers what it gets.
* *JsonProgram*: a sequential program goes on.
* *DaemonStart*: `main` goes on through its start (weak), and so does the parent that writes the
  pidfile (weak). Units and signals have none.

## 6. Where code and documents disagree

Kept as violation runs, with the quotation in `PROJECT.json`:

1. *removal_stuck*: `RemoveConnection` waits for the reader with `m_lock` held; the reader may be in
   `BlackfinError`, waiting for `m_lock`. Both, and with them main's next `push_back`, stop for good.
2. *engine_shutdown*: `ShutdownServer` takes the engine down first and then removes and deletes
   objects the engine has deleted; its loop (`:193-194`) does not advance.
3. *device_id*: `RetrieveCounterData` writes one identifier into every unit (`:453-462`), so that the
   second unit's documents are filed under the first one's, and the client finds no counts.
4. *client_reports*: `$socket->close()` is inside the loop over the units (`client.pl:121`).

Modelling brought out others, which no run checks:

* the second close of a descriptor (`:524`, `:620`), which may hit a connection accepted in between;
* a signal before the polling thread's first assignment, which skips `ShutdownServer` and leaves the
  destructor waiting for ever (`MovilgateServerApp.cpp:233`);
* the status line's walk over the list during a `push_back` (`:237`);
* a failing `memcached_delete` (its expiration is uninitialized, `:692-702`), after which the request
  resets unit after unit; what `memcached_get` returns is never freed;
* a `ResetCurrentCount` that fails, which is only logged (`:260-262`): the request has been deleted, and
  no unit is reset;
* the unit's time zone, with which an array is indexed unchecked (`:330`);
* `start` while the daemon runs, which leaves the pid of a dead process in the pidfile
  (`admin-server.sh:40`); `stop`, which says "stopped" before the daemon is gone (`:63-66`); `status`,
  which finds a dead pid's digits in another line of `ps` (`:75`), so that the monitor leaves the
  service down;
* Easylogging's locks are empty although three kinds of threads log; lines not yet flushed are lost when
  the daemon aborts; and once a write to the log file fails, nobody clears the stream, which loses all
  lines after that one (`easylogging++.h:4183`);
* a log configuration that has a value for a level before Global's loses all it says of that level, also
  what it says after Global's (`:2501-2509`), and one without a value for Global loses all;
* the parser accepts a comma before the first member (`[,1]`), and reads only one line of a stream
  when it runs short, so that empty lines in a row between two tokens make it refuse a text
  (`NoEmptyLine`; the daemon reads its configuration as a string, where they do no harm);
* a unit whose lines change between two calls makes the server read beyond the labels (`:375`), and
  when a unit's getters fail the client reports ten zeros, as for a unit that counted nobody.

## 7. What is proved

For every value of the constants (any number of units, descriptors, processes, people, commands,
labels, lines), from the named assumptions of the modules:

* **BlackfinServerProofs**: `TypeOK`, `ListedUnitsAlive`, `ReadersHaveObjects`, `EngineDownAlone`,
  `NothingLeaked`, `CleanExit`, `PassesUndisturbed`, `ImplementsRegistry`, and, of the
  `DISCONNECT_MODE` build, `OneReadingPerConnection`. None is inductive alone. `IInv` adds `LockInv`
  (who holds the lock is where), `PhaseInv` (what flags and engine say in each phase of the shutdown:
  the polling thread that has left its loop does not come back), `ListInv` (listed units have
  endpoints and objects, marks only on listed units), `ObjectInv` (the one unit in main's hands is not
  listed; a reader's object exists until its reader has stopped), `EndInv` (what is left once the
  engine is down) and `PolledInv` (in `DISCONNECT_MODE` a polled unit is marked, and no marked unit is
  left to poll). One lemma per thread shows that its steps keep `IInv`; the refinement maps every
  action to an action of the registry or a stutter.
* **TelemetryProofs**: `TypeOK`, `CachedNotAhead`, `CountsOnlyGrow` whatever fails, from "cached <= in
  hand <= counted" for every unit not reset since (`Trail`); `OneResetPerRequest`, whatever fails,
  from calls made, the call in hand and the request in the cache together not exceeding what was
  asked.
* **ServiceControlProofs**: `TypeOK`, `PidfileNamesServer`, `MonitorSparesServer`. As long as
  `careful` holds at most one script runs (`OneScript`), at most one process is launched and not
  stopped (`OneCurrent`), the pidfile is that one's (`Named`), and a script finds at each step what it
  found at its start (`ScriptInv`). Once it does not hold, only the types are left.
* **UDPClientProofs**: `TypeOK`, and that a site with a single device reports it in every run that loses
  no datagram (`OnlyDeviceReported`): the violation of `client_reports` needs a second device.
* **CounterReportProofs**: of the loop over the labels of a document, `SensorsAreValues`,
  `AllSensorsSent`, for any labels, totals and order, in whatever behaviour takes its steps; the sum
  over the labels of a total stays unexpanded: what matters is that it depends on counts of labels
  that are no totals, which the loop never changes. Of the polls, `LabelsSuffice` and
  `CountsArriveLabelled`, for any units, lines and changes. `ReportInv`: the labels and lines in hand
  are those of the unit unless it has changed since (`ReadInv`); the document under construction has
  what the calls so far have put in, a label per count at its index, or lacks what failed
  (`DocumentInv`); the document filed is the one of the poll that `filed` remembers (`FiledInv`).
* **DaemonStartProofs**: `TypeOK`, `NoTextIntoSockets`, `PortStaysOpen`, `NothingLeaks`,
  `LinesSurvive`, for any number of descriptors, threshold and log configuration. The invariant says
  which steps of `main` come with which descriptors (`PhaseInv`), that enough numbers are free for the
  lowest to be known where it matters (`RoomInv`), that each number has one owner (`OwnerInv`), so
  that the second close hits what is free or the same unit's, that `std::cout` is silent before number
  1 is the listening socket (`SilenceInv`), and that the lines pending are at most the sum of the
  counters (`CountInv`). "The lowest free number" is well defined by a lemma from well-founded
  induction. `ConfiguredAsWritten`, for any file (`ConfigInv`). `ReadInv`: what has been parsed gives
  each level its last line so far, and the first value of a level says when it was registered;
  `MergeInv`: the logger's list has, of the levels done so far, what they say or Global's, if that was
  set later; `BuildInv`: the map built so far, with Global for what is missing, agrees with the
  logger's list, in which Global is first.
* **JsonProofs**: `ReadsWithinBuffer` and `TypeOK` of the reader, for any texts, any cut into lines
  and any places of the parser. `LexInv`: the automaton moves on only from a character that is there,
  since the terminator is none of those it moves on from; a literal is, as far as read, what its first
  letter says. `WalksMeetAll`, for any values, keys and number of changes. Values are nested, but a
  walk looks at one level: `ProgramInv` says that there is some set of values, each made of values of
  the set, which holds all the program has in hand (every operation makes a value of such a set or one
  that can be added to it), and that what has been visited, followed by the members from the iterator
  on, is what there was to walk, and what was kept is what is before the iterator. An erase keeps that
  because the keys are a linear order, proved from the order of the characters: the rank of a key is
  the number of keys before it, each rank occurs once, and without the n-th key the ranks behind it go
  down by one. `NothingLeaks`, if the blocks of a value add up (`BlocksAdd`): in any set of values
  made of its own members, a value takes its own block and what its members take. That is the
  definition of `OwnedBlocks`, which the run gives `Blocks` as; for the values a program begins with
  it is `ProgramAssumption`, which the run evaluates, and nothing else is used of the recursion. The
  total of a sequence is then that of what is cut out of it and of what is left, and members of an
  object are put in, replaced and taken out one key at a time (`TotalCut`, `TotalChanged`,
  `KeyTaken`); so each operation changes the blocks of its value by what it is charged, and the ledger
  agrees at each step (`LedgerInv`, with `ProgramInv`). `Ordered`, if values are compared by what is
  in them (`ComparesByContents`: the equations that define `IsLess` and `IsEqual`, evaluated for
  `Values` as `OrderAssumption`) and blocks add up. Lists of things that are ordered are ordered,
  since the first place where two differ decides; an array is a list of its elements, an object one of
  its pairs; different types go by rank. What is ordered at one level is so at the next: induction
  over the number of blocks, of which a member has fewer than what it is in (`TotalCovers`,
  `AllSorted`).
* **JsonTextProofs**: `ReadsWhatWasWritten`, for any values and any text that says one of them, whole
  or cut short after any token (`Says`), where `of` is what dump writes of each value, given by one
  level from what it writes of the members (`Writes`). `WrittenInv` has two halves. The scanner's
  (`ScannerAt`): tokens, blanks and lines have places in the whole text; the buffer is the lines read
  so far, the scanner is at a token or between two, and as far into it as its state says, so that what
  it returns is the next token (`ScannerReads`; a string, a number, a literal each by the characters
  it has met). A refill may come at any character and changes no place, because no token goes on in
  another line; without `NoEmptyLine` it could bring nothing, and does (section 6). The parser's
  (`ParserAt`): the tokens returned are those of the beginning of the value, and the stack is the way
  down to the place where the next one belongs, with what has been read of each value on it
  (`LevelsAt`); each token then has one kind, which is the one that the parser's place expects
  (`ParseReads`). Strings and keys come back as they were, since each escape sequence is read as the
  character it was made from and none is half of one (`QuotedReadsBack`, `FacingPaired`); numbers,
  since `Writes` says that dump writes those digits which are printed as they are. How deep a value is
  makes no difference: a member's tokens are a stretch of its parent's.

Only model-checked:

* all liveness (`DueGetsPolled`, `AttachedGetsListed`, `EmptyShutdownEnds`, `RequestGetsReset`,
  `CountsArrive`, `ServiceHeals`, `RunEnds`, `ProgramEnds`, `ServerGetsNamed`), which is out of the
  prover's reach;
* of `ReadsWhatWasWritten`, the texts that are the beginning of no dump (`[01]`, `[1,]`, and those cut
  inside a token): that they are refused is checked for the twenty of the run, and that those
  which spell a value in other ways than dump does are read as that value, for ten others;
* that the recursive `OwnedBlocks`, `IsLess`, `IsEqual` and `Dump` satisfy the equations that define
  them, which are the hypotheses `BlocksAdd`, `ComparesByContents` and `Writes`: no prover here
  unfolds a RECURSIVE operator. TLC evaluates the equations for the values of the run, and that its
  texts are spelled as the theorem asks (`ProgramAssumption`, `OrderAssumption`, `TextAssumption`).

Every invariant of a passing run is stated by a theorem.

## 8. What is abstracted or left out

Abstracted: time (thirty seconds, 800 seconds, sleeps) is order only; `BlackfinServer` has the
descriptors of units only, `DaemonStart` all of them but one unit at a time; a second signal or one on
another thread is not modelled; reads of the unprotected flags are sequentially consistent; in
`Telemetry` a document is an identifier and a count; the answers of the units' other calls are
distinct values; a pid is not given out again while the pidfile names it; a launch is over before
cron's next minute; the text of a message is left out. A log statement is one step as long as `main` is
alone; what two threads do to the logger's counts and stream is a hazard without a property.

In the JSON library: letters that mean the same in both cases are one; a number is the digits that dump
writes of it, and its conversion (`Printed`) and its amount are tables, so that integer and float are
one type; one character stands for all that are not ASCII, however many codes it is made from.

Not modelled:

* *JSON library*: `operator+=`, `<` of iterators, `key()` of iterators, reverse iterators (whose
  `key()` and `value()` look at the base, one place too far; nobody here uses them), indentation, the
  callbacks of the parser. The server uses none.
* *Easylogging++*: formats, colours, rolling, other loggers, verbose modules, hit counters, crash
  handler, container and performance logging. The shipped configuration uses formats only.
* *Perl classes* (`client/lib`): thin; `client.pl` uses only `ConfigLoader`. Planned (section 9).
* *Installer* (`INSTALL/INSTALL.sh`, `include`): dialogs. Its one stateful part, the backup of the
  interfaces file, is planned.
* *`MemcachedDriver.cpp`*: compiled into nothing that runs.
* *The protocol between engine and units*: in the binary.
* *Generated files*: `json.sh`, `Doxyfile`, coverage data, HTML documentation; the `_WIN32` branches.

## 9. Plan

Done: the server's threads, telemetry, service, client, sensors, documents, the daemon's start,
logging, the JSON library. Next:

1. `Reporting`: `Telemetry` and `UDPClient` composed over one cache; end to end, what the collector
   hears of a unit never exceeds what it counted and goes back only at a reset.
2. `BlackfinServer` with `ServiceControl`: when does a daemon that was told to quit keep the port, and
   for how long (`PortIsHeld`)?
3. `ListStorage`: the vector's storage and iterators, for the status line's unlocked walk.
4. `ClientLib`: `PDUDataBuilder` (its limit of sensors, its delimiters), `MemcachedDriver.pm`,
   `ConfigLoader`; `Installer`: the interfaces file and its backup.
5. Signals on any thread and more than one; a unit whose error comes before it is listed (`:544`).
