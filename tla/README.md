# CCLog in TLA+

CCLog is a C logging library: an application initialises a logger, logs through levels that
may have callbacks, saves and loads its configuration as JSON, and may fork an HTTP server
that shows the configuration and the log. This directory holds TLA+ modules translated
from its source, the TLC configurations that check them, and proofs for TLAPS.

## The system

| Component | State | Operations | Hard behaviour |
|---|---|---|---|
| API and log calls (`logger.c`, `cclog.h`) | list of levels, static message buffer | `cclog`, recall, add and reset levels, format, verbosity | a callback may call any function again while its log call is suspended |
| Initialisation (`logger_init.c`) | - | init, uninit | failed and repeated init |
| Options (`logger_options.c`) | twelve static variables | get, set, cleanup | every set publishes the configuration |
| Log file | `FILE *`, its buffer | open, write, flush, close | the buffer is copied by fork |
| Linked list (`utils/llist.c`) | nodes | init, add, get, foreach, clean | nodes freed while a log call points to one |
| Message format (`logger.c`) | static buffers | parse, expand | parser and expansion disagree; buffer index |
| JSON builder (`json.c`) | shared buffer, its length, indentation, array flag | start, add, end | commas are written early and taken back |
| JSON reader (`json.c`) | file buffer | read, search of keys, objects, arrays | brackets in strings, ends of buffers |
| Load (`logger.c`) | heap strings | load | a failure half way |
| Server process (`server.c`) | flag of the loop, dispositions, descriptors | setup, accept loop, fork per client | signals, children, silent clients, failures |
| Server pages (`server.c`) | response | `/`, `/config`, `/log` | reads shared memory without a lock |
| Utilities, macros, C++ wrapper | - | - | - |

The application and the server process share one thing that changes: the memory of
`json_buffer`, mapped by `cclogger_init`. Everything else the server process has is a copy
from the time of the fork. The application acts on the server by `kill(pid, SIGINT)` only.

What makes each part correct: the server can be stopped as long as it is enabled and ends
when it is; the shared buffer holds the current configuration; every line reaches the file
once and in order, before its callback runs; levels keep their index; descriptors, ports and
processes are given back; a text that is built is well formed, and read back as it was; a
format is expanded as it was accepted; a page shows what the log has.

## Modules

| Module | Models | Correspondence |
|---|---|---|
| `Logger` | the library as the application sees it | one variable per static variable, one action per public function |
| `ServerLifecycle` | abstract: what a server process promises | phases of the process and of its clients |
| `ServerProcess` | `server.c`, fork to exit | one action per system call of the process and of its children |
| `SafeRegister` | abstract: what the shared memory promises | one writer, several readers |
| `JsonBuilder` | the functions of `json.c` that build a text | one action per function, the text as a sequence of lines |
| `SharedConfig` | publication against the page `/config` | builder calls of `cclog_json_load_current_config`, steps of `server_mapping_config` |
| `MessageFormat` | `message_format_parse` and `create_msg_buffer` | one action per symbol or variable |
| `LevelList` | abstract: what the list of levels promises | a sequence that grows at its end |
| `LinkedList` | `llist.c` and the list of levels of `logger.c` | a heap of nodes |
| `JsonReader` | the functions of `json.c` that read a text | operators on sequences of symbols |
| `ConfigLoad` | export and load of a configuration file | one action per step of `cclogger_load_config_json` |
| `ServerPages` | the index, a log and the list of logs | one action per `read` or `readdir` |
| `LoggerProofs`, `ServerProcessProofs`, `ServerPagesProofs`, `MessageFormatProofs`, `SharedConfigProofs` | theorems about the module each is named for | |
| `ConfigLoadProofs`, `RoundTripProofs` | theorems about `ConfigLoad`: types, memory and the list; what a load gives back | |
| `SetInduction` | induction, recursion and loops, for the proofs | |
| `MCLogger`, `MCServerProcess`, `MCSharedConfig`, `MCMessageFormat`, `MCConfigLoad`, `MCServerPages` | values for TLC | |

**Logger.** The library is not thread safe and one thread calls it, so a function is one
step, except that a call which runs a callback is two: the call up to the callback, and what
follows its return. `calls` is the stack of suspended calls; between the two steps any other
action may come. `Refresh` is the end of `cclog_set_opt`: if the server is enabled, the
configuration is published. `json_buffers` has one entry per `cclogger_init`, because each
maps new memory and only the last is written. A server process keeps the entry, the path and
the stream it had at the fork. The field `event` of a frame is what the caller knows, kept to
compare with what the file holds. A file given to `cclogger_load_config_json` is what the
JSON reader finds in it: each parameter may be missing, a level or the port malformed;
`ConfigLoad` says what it finds in an exported file. An export empties the file it is given,
which may be a log (`Truncated`), and publishes the configuration; what an export writes into
a log is no line of it. A server never gives back its port: the application keeps the
descriptor of the socket, so `StopServer` frees nothing.

**ServerProcess.** Signals, clients and children may come between any two system calls.
`listening` and `fds` say who has which descriptor open, copies made by fork included.
Clients may connect and send nothing. The disposition of SIGINT is at first whatever the
application has set.

**SharedConfig.** The application makes the builder calls one by one; a reader measures the
buffer, then copies it line by line. `Document` is the text of a configuration by
definition: a comma after an entry iff another member of the same container follows. The
parameters of a level have one key, since only their number tells texts apart. A value that is
longer than its line (`Loss`, by value) is cut: by one character it loses its newline, by two its comma, by more
the end of the value. The length that the builder keeps is then more than that of the text
(`excess`), and `buffer_remove_last_coma` looks at another place: where only the last newline of a container is
lost, it makes the comma the newline and all is well again; elsewhere the
commas of what follows stay. `Document` says both, and the property that commas are right up to the first cut.
A value that overruns the buffer it is formatted in (`Overlong`) ends what is modelled.

**MessageFormat.** A text is a sequence of symbols, indices are those of the code. Parser and
expansion walk the same format by different rules, and the expansion runs whatever the parser
said. `Meaning` says from the brackets alone what a format stands for. The bytes after an overrun are not modelled: the
expansion stops there.

**JsonReader, LinkedList, ConfigLoad.** A file is a sequence of symbols: a key, a number and a
boolean are one symbol, quotes, brackets, commas and letters one each. The reader searches and
counts as the code does: a loop over a text goes on from the state `Begin` by `After`, which
are the variables of the loop in the code. Nodes have addresses; `AddLevel` follows `next` to the last.
`ConfigLoad` exports a list that an application has built: `Exported` is the text that the builder leaves, with
the lines of strings that are too long cut (`Longest`, by key), and a string that overruns its buffer
(`Formatted`) ends the program at `overrun`. `Document` is the text with every line whole. The file
may end after any symbol (a full disk, or the end of the application), and is loaded in another process, whose static
parameter may hold anything an earlier load left. `dangling` says which string pointers of
`json_load_log_levels` point to freed memory, `allocated` which buffers are on the heap. A cut
within a number or a key is not modelled. `Logger` has the same function as one step.

**ServerPages.** The child forked for a request answers it while the application logs. The bytes of a log
are the numbers from 1, since a log only grows; `size` is what is allocated for `data`. The
options are those at the fork, which nothing changes in the server process. `EntryNames` says which log an
entry names: any, when the entry is empty, and none, when the path of the log has no directory (`Bare`).

`ServerProcess` implements `ServerLifecycle` (`ImplementsLifecycle`, with its liveness), which is
what entitles `Logger` to keep one status per server. `SharedConfig` implements
`SafeRegister` (`ImplementsRegister`): `Logger` publishes in one step, and a reader sees that
if no publication overlaps its read, and only then. `ConfigLoad` implements `LevelList`
(`ImplementsLevelList`): nodes and counter together are the sequence that `Logger` has for
`log_levels_list`.

## Runs

| Run | Bounds | Shows |
|---|---|---|
| `logger_calls` | calls nested in callbacks, two events | types; an open file is consistent; the line is in the file when the callback runs; levels keep their index |
| `logger_server` | two inits, two servers, ports -1, 3, 4 with `PortRange` 3, five kinds of file | the server can be stopped; the configuration is published; a port is never free again |
| `logger_lines` | three events, two files, one server, exports to one of the files | lines in order, none lost but to an export |
| `server_process` | two clients, backlog 2, one failure, any disposition of SIGINT | ends only when stopped; descriptors; no zombies; answers end; port freed; implements `ServerLifecycle` |
| `shared_config` | one reader, configurations with a value cut by one, by two and by more characters, last of its container and not, and one that overruns; a publication under way and one more | buffer exact between publications, commas right up to the first cut; quiet reads exact; implements `SafeRegister` |
| `message_format` | formats of up to four symbols or variables, a buffer of ten symbols, names of one | the parser accepts what is well formed; the message is what the format means; buffers are left only when something is too long |
| `config_load` | up to three levels of four kinds, three sets of options, strings that fit, are cut or overrun, any cut of the file, a reader's buffer of 76 symbols | a whole file comes back; a cut file gives the first levels; buffers are freed; no node is lost; implements `LevelList` |
| `server_pages` | three logs of up to six bytes, one without a directory, chunks of three, one other file | a page is the log at some time; only links that fill the list to its last byte overrun it |

Why the bounds are enough: two inits, two servers and two files are what it takes to have an
old and a new one; `PortRange` 3 (2^16 in the code) has one port twice and one request for any port;
two clients and a failure give one in hand or waiting and one whose fork failed; one publication that is under way and one more let
a read be overlapped by none, one or two. In `message_format` one variable is almost as long as the
buffer, so that each of the other pieces can be the one that does not fit; in `config_load`
two levels fit the reader's buffer and three do not; in `server_pages` a log may end with a
full chunk, once or twice, and the links add up to less than the list, to exactly it, and to more.
`MaxLevels`, `MaxInits`, `MaxServers`, `MaxEvents`, `MaxDepth`, `MaxFailures`,
`MaxPublications`, `MaxSize` and the number of `Addresses` are the only bounds.
Deadlock is not checked: an application may stop calling.

Fairness (`ServerProcess` only): the server process and its children run when they can, and
a pending signal is delivered; the scheduler and the kernel give both. Nothing is assumed of clients or
of the application. Failures of accept and fork are finitely many. A stop that the
handler of the application consumes never takes hold (`StopTakesHold`); `doc_stop_early` shows it.

### Known divergences

Runs named `doc_*` check what a doc or a comment says and find it violated:

| Run | What happens |
|---|---|
| `doc_last_callback` | `_cclogger_log` reads its level after the callback has freed it |
| `doc_stop_early` | a stop before the handler is installed is lost when the application handles SIGINT |
| `doc_config_page` | `/config` copied during a publication is empty or torn |
| `doc_load_frees` | a load that fails in a level after another frees the strings of the one before a second time |

Others were met while modelling, are in the actions as the code has them, and are certain
from one place of the code, so that no run repeats them: a reset of the levels is not
published (`logger.c:421`; `PublishedConfig` excepts it); a suppressed log does not record
its value (`logger.c:291`, against `cclog.h:193`); a rejected format is in use
(`logger.c:504`); a callback that logs overwrites the static buffer with its own message
(`logger.c:188`); a failed init leaves its levels, and the next one makes six
(`logger_init.c:106`, against `cclog.h:111`); an object inside an object of an array would
lose its name (`json.c:134`), which the library never builds; a load returns -1 on every
path (`logger.c:751`); a second start makes the first server unstoppable (`logger.c:846`,
against `cclog.h:252`); after an init the server shows the first file and buffer
(`logger_init.c:101`, against `cclog.h:239`); the application
never closes its listening socket, so the port stays taken (`server.c:551`, `PortsStayTaken`, against
`docs/basic_usage/README.md:39`); the server never closes the socket of a client whose fork failed
(`server.c:470`); an export to a log empties it (`logger.c:607`, `LinesKept`); a format or a name of a
callback that is longer than its line is cut in the published and the exported text, mostly with its quote
(`json.c:90`; `Document` has it, `RoundTrip` and `DamageIsLast` except it); one of more than 997 characters overruns the buffer of `sprintf`
(`logger.c:558`, `logger.c:563`, with `BUFSIZ` `logger.c:582`); an empty `?entry=` shows whatever name the buffer held
(`server.c:318`); with a path without a directory no entry is found (`server.c:310`), and a directory that
cannot be opened leaves a client without an answer (`server.c:238`); `!fd` does not see a failed `open` (`server.c:186`), so that a log
that is gone is an empty page; the Content-Length of the list is not that of the page
(`server.c:288`), nor is that of a log, which counts the log only (`server.c:222`); a list of
links of exactly `BUFSIZ` has no place for its terminator (`server.c:264`,
`OverrunOnlyByFullList`); an empty string, or one with a quote or a line end, is not read
back as it was exported (`json.c:303`, `json.c:328`; `RoundTrip` excepts it); a level that is cut after `"verbosity": ` gets its
color as verbosity, from the static parameter (`json.c:282`, `DamageIsLast`); a load that fails
loses the text of the levels or of the server (`logger.c:795`, `logger.c:805`, `BuffersFreed`); a
format with the message twice uses its arguments twice (`logger.c:98`); an empty variable is
accepted and ends the message (`logger.c:469`).

## Proofs

Every theorem holds for all values of the constants that the named assumptions of its module
allow. An invariant that is not inductive is proved from one that is; TLC checked those first.

`SetInduction` is what the others use for induction. The induction theorems of the library
take an operator as a parameter, which the provers cannot instantiate; here they are stated
with sets and functions. `NaturalInduction` and `BoundedInduction` are about a set of numbers;
`RecursionExists` says that a first value and a function from each value to the next define a
function; `LoopExists` says that a loop which counts down has a result in every state, and
`LoopInvariant` what is known of it; `CountedExists` is the same for a sequence of steps. They are
about no part of the library, and are not listed among its theorems. With them a recursive function of a model exists and is
what its equations say.

`LoggerProofs` (`ConstantsAssumption`): `TypeCorrect`; `ServerAlwaysStoppable`;
`ConfigIsPublished`; `LinesAreInOrder` and `LinesAreKept`; `OpenFileIsConsistent`;
`PortsAreNeverFreed`. Type correctness is inductive. For the published configuration the
invariant adds that a buffer exists once there are levels to publish. For the lines it adds
that no stream, here or in a server process, holds a line between two calls, and that every
line is at most `events`: without the first, a fork would copy a line and both processes would
write it. For the ports it adds that every server has a port of its own among those in use, which no step gives back. Lemmas state once what a step can do to the servers (`ServerSteps`) and to the files
(`OutputSteps`).

Of the same module, `LevelsKeepTheirIndex` and `CallbacksSeeTheirLine` are about the
calls that are suspended in a callback. A step may append a call, resume the last one or mark
calls as freed, and the levels grow at their end or are all freed; stated once (`CallsSteps`), it
leaves each call its index, and its line unless the file is exported to.

`ServerProcessProofs` (`ServerAssumption`): `ProcessTypeCorrect`, `RunsUntilStopped` (a signal is
pending, and the flag is down after the start, only once the kill was sent),
`DescriptorsAreClosed` and `ChildrenAreReaped` (a child exists only once SIGCHLD is ignored).
`LifecycleSafety` is the refinement of `ServerLifecycle` without its fairness: each system call
is a step of the abstract server or none. It needs the phase of the process at each pc (`PhaseInv`),
and that a client is in the queue, in hand or with one child (`QueueInv`).

`ServerPagesProofs` (`PagesAssumption`): `PagesTypeCorrect`, `LogPagesAreExact`
and `OverrunsAreFullLists`. The invariant says what holds between two
reads, while the application writes: the data are the first bytes of the log, the buffer has
place for a whole chunk and the terminator, and the list has distinct logs and fills at most
what is allocated.

`MessageFormatProofs` (`FormatAssumption`), for formats of any length and buffers of any size:
`FormatTypes`; `ParserAcceptsWellFormed`; `ExpansionIsExact` and `OverrunsAreLong`. For the parser
(`ParserInv`): outside a variable, every `$` so far begins a closed one; inside, the symbols since
the last `${` belong to a name. For the expansion (`ExpandInv`): the message is a faithful beginning
of what the format means up to the index, or the rest is lost at a `$` that begins no variable with
a name; the index stands between two pieces of the format, never inside a name. The meaning of a format
up to a place is a recursive function; `MeaningSteps` gives its steps, and `MessageOnce` bounds the
message by them.

`SharedConfigProofs` (`BuilderAssumption`, `ConfigsAssumption`): `ConfigTypes`,
`DocumentIsPublished`, `QuietPagesAreExact` and `PageIsRegister`. During a publication
(`PublishInv`) the buffer is the document up to the call that comes next, except that the last line still has the
comma that the next call may take back, and `excess` is the sum of what the lines have lost since the last repair: it is
zero or of the last line alone until the text is spoiled, and stays more than that from then on, so that
no comma is taken back any more; at the end the buffer is the document. A page under way (`PageInv`) has the lines it has
passed from what was published, unless a publication overlapped it.

`ConfigLoadProofs` (`ListAssumption`, `ReaderAssumption`, `SymbolAssumption`,
`SizeAssumption`, `ApplicationAssumption`). `NodesAreKept` and `ListImplementsLevels`: the nodes of the heap are one chain
(`ListInv`), which `get_node_index` follows by induction, `cclog_llist_add` makes longer by one and
`cclog_llist_clean` frees whole. `LoadFreesBuffers` follows from what is allocated at each point
(`BufferInv`). `LoadTypes`: an exported text is a sequence of symbols whatever its
lines have lost (`ExportTyped`), and so is every part of it that the reader copies (`StructureTyped`, `ObjectTyped`);
a parameter it gives is of its type, and its loops stay within the text and the buffer. `ExportWhole`: when
every string fits its line, the builder's text is the `Document`; each call writes a whole line, the length that the
builder keeps is that of the text, and the comma that is taken back is the last one (`Writes`, `MembersWritten`).

`RoundTripProofs` (the same assumptions): `DamageIsTheLast` and `LoadGivesBack`, for any number of
levels, any cut of the file, any capacity of the reader's buffer and anything in its static parameter.
Both are about plain strings (`Plain`): no longer than their lines (`ExportWhole`), no quote, which would end the string (Known divergences), no line
end, where the value of a key ends (the same), and a callback that is the first with its name, which is the one
`get_mapping_from_name` finds. Formats and names may hold any brackets. `LoadGivesBack` asks also that no
string is empty (Known divergences) and that the array fits the buffer; when it does not,
`DamageIsTheLast` says what is left. The argument has four layers.

1. *Texts.* A text is quiet if its brackets stand in strings that are closed (`Quiet`); quiet texts
   can be joined, and one between two brackets is framed (`Framed`). So are the export of each level
   and, for square brackets, the array of all. `Layout` says where each member of a structure stands.
2. *Loops.* On a framed structure the loop of the reader is in one of the states of `Walk` until the end
   symbol (`ObjectEndAt`, `CopyOfStructure`, by `LoopInvariant`): what it copies is the structure, or
   its first symbols and the end symbol when the text or the buffer ends first. From the end of one
   object the reader comes to the end of the next (`NextObject`), so that in a part of an array it finds the
   exported objects, the last of which may be cut (`CutObjects`).
3. *Members.* A key is found on its own line, and its value read, if the copy has the whole line
   (`MemberRead`). An object that is whole gives back its level (`WholeLevel`). One that is cut lacks the
   keys behind the cut, but not the first three parameters, since the load fails without the fourth (`CutLevel`);
   `StructureMember` says the same of the array and of the server, which are members themselves.
4. *Steps.* `SavedInv`: the file is a part of what was exported, and nothing is read of its array before
   `LoadArray`. `DamageInv`, inductive with it: `array` is a part of the array that was exported, with the end
   symbol; the levels that were read are the first that were saved, equal but for the last; and a level
   whose object was whole is equal too, which makes the last one right once another is read behind it. `RoundInv`: in a whole and
   readable file each option is given back once its step is done, the array is the one that was exported,
   and the loop ends when all its objects are back.

The assumptions on symbols say what a symbol stands for: no string has the text of a key in it,
quotes included (a key is one symbol); a number is no bracket, comma or boolean; strings may have the
brackets that a copy ends with; a pointer that is NULL is no text. `Capacity` is at least 6, the symbols
of a server with its port, where the code has `BUFSIZ`; what an earlier load left has a type.

Only model-checked: liveness (`AnswersEnd`, `PortFreed`, and the fairness of `ImplementsLifecycle`,
whose steps are proved by `LifecycleSafety`), since the prover does not know ENABLED.
Every other property of the runs that pass is a theorem. The runs `doc_*` are counterexamples,
and need no more than TLC.

## Not modelled

Failures of memory allocation; colours and the names of log files; what the built-in variables of a
format print; `loaded_from_json` and
`init_time`, which nothing modelled reads; SIGINT sent by a terminal; the C++ wrapper and the
macros, which call the C functions; utilities, which keep no state. In `Logger`
a call of a garbage pointer and an export before the first init (`logger.c:612`, which writes
through a NULL buffer) end the program and are no steps, and a load whose second level is
malformed goes on although it frees strings twice. The text stays below `JSON_BUFF_SIZE`, and the line of the path
of the log fits `BUFF_SIZE`; of a line that `cclog_json_add_parameter` has cut before it is indented, the
builder's length counts the indentation only, which is two or more, and more than two is the same. Indentation is left out of what is
read, but for one symbol behind a line that has lost its newline. What a program does after it has overrun a buffer
is not modelled. A log that is read by a page is not exported to meanwhile. Memory
mapped by each init is never unmapped and not bounded, and an application that ends without
uninit leaves its server, which nothing in the code promises otherwise. Texts are symbols, so
that bytes of UTF-8, numbers cut in the middle and whitespace are not told apart, and no format
holds the text of a key with its quotes. Requests that are not
well formed are in `ServerProcess` (the child ends), not in `ServerPages`.

## Plan

Every component that has state is modelled, up to two options that nothing modelled reads, and every
safety property is proved. What a next step could be: bytes for symbols in `JsonReader`, so that numbers and keys can
be cut in the middle (`MemberRead` and `CutLevel` are where the proofs would change); and a
composition of `ServerProcess` with `ServerPages`, whose children are the same processes.
