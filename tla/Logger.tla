------------------------------- MODULE Logger -------------------------------
(***************************************************************************)
(* The CCLog library as an application sees it: the public functions of    *)
(* cclog.h, the options behind them (logger_options.c), the list of log    *)
(* levels, the callbacks a log call runs, the configuration it publishes   *)
(* to the server through shared memory, and the server processes it forks. *)
(*                                                                         *)
(* One thread calls the library.  A function is one step, except that a    *)
(* call that runs a user callback is two (the call up to the callback, and *)
(* what follows its return): in between the callback may call any function *)
(* of the library again.  `calls' is the stack of callbacks that run.      *)
(* Memory allocation does not fail, nobody but the library signals the     *)
(* server processes, and formats and names of callbacks fit the buffers    *)
(* they are formatted in (SharedConfig has those that do not).             *)
(***************************************************************************)
EXTENDS Integers, Sequences, FiniteSets

CONSTANTS
  Null,             \* the NULL pointer, an absent parameter
  Garbage,          \* what a read of freed memory may give
  Malformed,        \* a JSON value that is missing or has the wrong type
  Tty,              \* standard error
  Paths,            \* names of log files
  Formats,          \* message formats
  DefaultFormat,    \* DEFAULT_MSG_FORMAT
  Callbacks,        \* callbacks of the application
  ExportPaths,      \* files cclogger_export_config_json writes, perhaps logs
  UserLevels,       \* arguments of cclogger_add_log_level
  Verbosities,      \* arguments of cclogger_set_verbosity_level
  JsonFiles,        \* contents of the files cclogger_load_config_json reads
  Ports,            \* arguments of cclogger_server_start
  PortRange,        \* 2^16: htons keeps 16 bits of the port
  CallbackReturns   \* what callbacks return

CONSTANTS MaxLevels, MaxInits, MaxServers, MaxEvents, MaxDepth   \* bounds

Methods == {"LOGGING_SINGLE_FILE", "LOGGING_MULTIPLE_FILES"}

LogLevel == [to_file: BOOLEAN, to_tty: BOOLEAN, callback: Callbacks \cup {Null},
             format: Formats \cup {Null}, verbosity: Int]

JsonFile == [format: Formats \cup {Null}, verbosity: Int \cup {Null},
             levels: Seq(LogLevel \cup {Malformed}) \cup {Null},
             port: Int \cup {Null, Malformed}]

\* What cclog_json_load_current_config builds.
ConfigRecord ==
  [path: Paths \cup {Null}, method: Methods, format: Formats \cup {Null},
   verbosity: Int, levels: Seq(LogLevel), port: Int \cup {Null}]

ASSUME ConstantsAssumption ==
  /\ Null \notin Paths /\ Null \notin Formats /\ Null \notin Callbacks
  /\ Null \notin Int /\ Tty \notin Paths \cup ExportPaths
  /\ Null \notin Seq(LogLevel \cup {Malformed}) /\ Null \notin ConfigRecord
  /\ Malformed \notin Int /\ Malformed \notin LogLevel
  /\ Garbage \notin Callbacks
  /\ DefaultFormat \in Formats
  /\ UserLevels \subseteq LogLevel
  /\ Verbosities \subseteq Int
  /\ JsonFiles \subseteq JsonFile
  /\ Ports \subseteq Int
  /\ PortRange \in Nat /\ PortRange > 1
  /\ CallbackReturns \subseteq Int

VARIABLES
  logger_initialised, log_file, log_file_path, log_method, def_msg_string,
  verbosity_level, log_ret_value, last_callback,    \* the options
  server_enabled, server_port, server_pid,
  log_levels_list,  \* NULL is the empty sequence: the list is never empty
  json_buffers,     \* the shared memory mapped by each init; the last is json_buffer
  stream,           \* lines in the stdio buffer of log_file
  output,           \* lines each file and the terminal hold
  events,           \* messages logged so far; msg_buff holds the text of the last
  calls,            \* callbacks that run, the innermost last
  sockets,          \* ports whose listening socket this process holds open
  servers           \* the server processes, by pid

optionVars == <<logger_initialised, def_msg_string, verbosity_level>>
fileVars   == <<log_file, log_file_path, log_method, stream>>
lastVars   == <<log_ret_value, last_callback>>
serverVars == <<server_enabled, server_port, server_pid, sockets, servers>>
outputVars == <<output, events>>
vars == <<optionVars, fileVars, lastVars, serverVars, outputVars,
          log_levels_list, json_buffers, calls>>

Sinks == Paths \cup {Tty}

-----------------------------------------------------------------------------
(* What is published to the server.                                        *)

Config == [path |-> log_file_path, method |-> log_method,
           format |-> def_msg_string, verbosity |-> verbosity_level,
           levels |-> log_levels_list,
           port |-> IF server_enabled THEN server_port ELSE Null]

\* cclog_json_load_current_config rewrites the mapping json_buffer points to.
Publish(buffers, config) == [buffers EXCEPT ![Len(buffers)] = config]

\* Mutant of Refresh: the configuration is published before the option is set.
RefreshTooEarly(buffers) ==
  json_buffers' = IF server_enabled' THEN Publish(buffers, Config) ELSE buffers

\* The end of every cclog_set_opt and of cclogger_add_log_level.
Refresh(buffers) ==
  json_buffers' = IF server_enabled' THEN Publish(buffers, Config') ELSE buffers

Published == json_buffers[Len(json_buffers)]

-----------------------------------------------------------------------------
(* The log file and its stdio stream.                                      *)

\* fflush and fclose write what the stream holds to the end of the file.
Flushed(file, lines) ==
  IF file = Null THEN output ELSE [output EXCEPT ![file] = @ \o lines]

\* Mutant of WriteLine: no fflush.
WriteLineUnflushed(event) == [file |-> <<>>, stream |-> Append(stream, event)]

\* fprintf to log_file, then fflush: what the file gains, what the stream keeps.
WriteLine(event) == [file |-> Append(stream, event), stream |-> <<>>]

\* Mutant of SetLogFile: fopen with "w".
SetLogFileTruncating(path, opened) ==
  /\ log_file_path' = path
  /\ log_file' = IF opened THEN path ELSE Null
  /\ output' = [Flushed(log_file, stream) EXCEPT ![path] = <<>>]
  /\ stream' = <<>>

\* set_log_file: fopen of the new path, after fclose of the old file.
SetLogFile(path, opened) ==
  /\ log_file_path' = path
  /\ log_file' = IF opened THEN path ELSE Null
  /\ output' = Flushed(log_file, stream)
  /\ stream' = <<>>

-----------------------------------------------------------------------------
(* Log levels.                                                             *)

Level(to_file, to_tty) ==
  [to_file |-> to_file, to_tty |-> to_tty, callback |-> Null,
   format |-> Null, verbosity |-> 5]

DefaultLevels == << Level(FALSE, TRUE), Level(TRUE, FALSE), Level(TRUE, TRUE) >>

\* Every log call whose callback runs still points to its level: the reset
\* of the list frees that level.
FreeLevels(frames) ==
  IF log_levels_list = <<>> THEN frames
  ELSE [i \in DOMAIN frames |-> [frames[i] EXCEPT !.freed = TRUE]]

\* Mutant of AddLevel: the list grows at its front.
AddLevelInFront(level) == << level >> \o log_levels_list

\* cclog_llist_add, cclog_llist_init.
AddLevel(level) == Append(log_levels_list, level)

cclogger_add_log_level(level) ==
  /\ Len(log_levels_list) < MaxLevels
  /\ log_levels_list' = AddLevel(level)
  /\ UNCHANGED <<optionVars, fileVars, lastVars, serverVars, outputVars, calls>>
  /\ Refresh(json_buffers)

cclogger_reset_log_levels ==
  /\ log_levels_list' = <<>>
  /\ calls' = FreeLevels(calls)
  /\ UNCHANGED <<optionVars, fileVars, lastVars, serverVars, outputVars, json_buffers>>

-----------------------------------------------------------------------------
(* Options.                                                                *)

\* set_def_msg_string comes before message_format_parse, whose verdict is only
\* the value returned: a format that is rejected is in use all the same.
cclogger_set_default_message_format(format) ==
  /\ def_msg_string' = format
  /\ UNCHANGED <<logger_initialised, verbosity_level, fileVars, lastVars, serverVars,
                 outputVars, log_levels_list, calls>>
  /\ Refresh(json_buffers)

cclogger_set_verbosity_level(verbosity) ==
  /\ verbosity_level' = verbosity
  /\ UNCHANGED <<logger_initialised, def_msg_string, fileVars, lastVars, serverVars,
                 outputVars, log_levels_list, calls>>
  /\ Refresh(json_buffers)

-----------------------------------------------------------------------------
(* Logging.                                                                *)

\* The exit label of _cclogger_log after an error: only the value is recorded.
CclogFails ==
  /\ log_ret_value' = -1
  /\ UNCHANGED <<optionVars, fileVars, last_callback, serverVars, outputVars,
                 log_levels_list, calls>>
  /\ Refresh(json_buffers)

\* The level is above the verbosity of the logger: `return 0', which is not
\* recorded in log_ret_value.
CclogSuppressed == UNCHANGED vars

\* create_msg_buffer fills the static buffer, the sinks of the level get it.
CclogWrites(level) ==
  LET event == events + 1
      line == WriteLine(event)
      written == IF level.to_file THEN Flushed(log_file, line.file) ELSE output
  IN /\ events' = event
     /\ stream' = IF level.to_file THEN line.stream ELSE stream
     /\ output' = IF level.to_tty
                  THEN [written EXCEPT ![Tty] = Append(@, event)] ELSE written

\* What follows the callback, or the output when the level has none.
CclogReturns(callback, value) ==
  /\ last_callback' = callback
  /\ log_ret_value' = value
  /\ Refresh(json_buffers)

\* What _cclogger_log keeps while the callback of its i-th level runs.
Frame(i, event) ==
  [kind |-> "cclog", index |-> i, callback |-> log_levels_list[i].callback,
   freed |-> FALSE, event |-> event,
   file |-> IF log_levels_list[i].to_file THEN log_file ELSE Null]

Suppressed(level) == level.verbosity > verbosity_level

\* cclog on the level with C index i - 1; i = 0 is a call without a message.
cclog(i) ==
  LET exists == i \in DOMAIN log_levels_list
      level == log_levels_list[i]
  IN \/ /\ ~exists
        /\ CclogFails
     \/ /\ exists /\ Suppressed(level)
        /\ CclogSuppressed
     \/ /\ exists /\ ~Suppressed(level) /\ log_file = Null
        /\ CclogFails
     \/ /\ exists /\ ~Suppressed(level) /\ log_file # Null
        /\ events < MaxEvents
        /\ CclogWrites(level)
        /\ UNCHANGED <<optionVars, log_file, log_file_path, log_method, serverVars,
                       log_levels_list>>
        /\ \/ /\ level.callback = Null
              /\ UNCHANGED calls
              /\ CclogReturns(Null, 0)
           \/ /\ level.callback # Null
              /\ Len(calls) < MaxDepth
              /\ calls' = Append(calls, Frame(i, events + 1))
              /\ UNCHANGED <<lastVars, json_buffers>>

\* Mutant of CanRecall: no test of the pointer for NULL.
CanRecallAnything == last_callback # Garbage

CanRecall == last_callback \in Callbacks

\* A call of a garbage pointer ends the program: no step of the model.
cclogger_recall_last_callback ==
  /\ \/ /\ last_callback = Null
        /\ UNCHANGED calls
     \/ /\ CanRecall
        /\ Len(calls) < MaxDepth
        /\ calls' = Append(calls, [kind |-> "recall", index |-> 0,
                                   callback |-> last_callback, freed |-> FALSE,
                                   event |-> 0, file |-> Null])
  /\ UNCHANGED <<optionVars, fileVars, lastVars, serverVars, outputVars,
                 log_levels_list, json_buffers>>

\* `log_level->callback', read again after the callback has returned.
CallbackOfLevel(frame) ==
  IF frame.freed THEN Callbacks \cup {Null, Garbage} ELSE {frame.callback}

\* The innermost callback returns to _cclogger_log or to the recall.
CallbackReturn(value) ==
  /\ calls # <<>>
  /\ calls' = SubSeq(calls, 1, Len(calls) - 1)
  /\ UNCHANGED <<optionVars, fileVars, serverVars, outputVars, log_levels_list>>
  /\ LET frame == calls[Len(calls)]
     IN \/ /\ frame.kind = "cclog"
           /\ \E callback \in CallbackOfLevel(frame): CclogReturns(callback, value)
        \/ /\ frame.kind = "recall"
           /\ UNCHANGED <<lastVars, json_buffers>>

-----------------------------------------------------------------------------
(* The server: its socket, its process.                                    *)

Live(pid) == servers[pid].status # "exited"

PortsInUse == sockets \cup {servers[pid].port : pid \in {p \in DOMAIN servers : Live(p)}}

\* What bind can give: htons keeps the low bits, port 0 asks for any port, and
\* SO_REUSEADDR does not let two sockets listen on one port.
Bindable(port) ==
  (IF port % PortRange = 0 THEN 1 .. PortRange - 1 ELSE {port % PortRange}) \ PortsInUse

\* The copy of this process that fork makes, with the descriptor of the socket.
Forked(port) ==
  [port |-> port, file |-> log_file, path |-> log_file_path, stream |-> stream,
   buffer |-> Len(json_buffers), status |-> "running"]

\* This process never closes the descriptor of the socket.
StartServer(port) ==
  /\ port >= 0
  /\ Len(servers) < MaxServers
  /\ \E bound \in Bindable(port):
       /\ sockets' = sockets \cup {bound}
       /\ servers' = Append(servers, Forked(bound))
  /\ server_enabled' = TRUE
  /\ server_pid' = Len(servers) + 1
  /\ server_port' = port

\* Nothing is left of a failed socket or bind, the socket of a failed fork.
StartServerFails(port) ==
  /\ \/ UNCHANGED sockets
     \/ /\ port >= 0
        /\ \E bound \in Bindable(port): sockets' = sockets \cup {bound}
  /\ UNCHANGED <<server_enabled, server_pid, server_port, servers>>

cclogger_server_start(port) ==
  /\ \/ /\ logger_initialised
        /\ StartServer(port)
     \/ /\ logger_initialised
        /\ StartServerFails(port)
     \/ /\ ~logger_initialised
        /\ UNCHANGED serverVars
  /\ UNCHANGED <<optionVars, fileVars, lastVars, outputVars, log_levels_list, calls>>
  /\ json_buffers' = IF servers' # servers THEN Publish(json_buffers, Config')
                     ELSE json_buffers

\* Mutant of StopServer: the option is not reset.
StopServerStaysEnabled ==
  /\ server_enabled /\ logger_initialised
  /\ servers' = [servers EXCEPT ![server_pid].status =
                   IF @ = "running" THEN "stopping" ELSE @]
  /\ UNCHANGED <<server_enabled, server_port, server_pid, sockets>>

\* Mutant of StopServer: the descriptor of the socket is closed.
StopServerCloses ==
  /\ server_enabled /\ logger_initialised
  /\ servers' = [servers EXCEPT ![server_pid].status =
                   IF @ = "running" THEN "stopping" ELSE @]
  /\ server_enabled' = FALSE
  /\ sockets' = sockets \ {servers[server_pid].port}
  /\ UNCHANGED <<server_port, server_pid>>

\* SIGINT goes to the process, which ends some time later.
StopServer ==
  /\ server_enabled /\ logger_initialised
  /\ servers' = [servers EXCEPT ![server_pid].status =
                   IF @ = "running" THEN "stopping" ELSE @]
  /\ server_enabled' = FALSE
  /\ UNCHANGED <<server_port, server_pid, sockets>>

cclogger_server_stop ==
  /\ \/ /\ StopServer
     \/ /\ ~server_enabled \/ ~logger_initialised
        /\ UNCHANGED serverVars
  /\ UNCHANGED <<optionVars, fileVars, lastVars, outputVars, log_levels_list, calls,
                 json_buffers>>

\* The end of server_process_main: cleanup_opt closes its copy of log_file,
\* which writes what was in the buffer of the stream at the fork.
ServerExits(pid) ==
  /\ servers[pid].status = "stopping"
  /\ servers' = [servers EXCEPT ![pid].status = "exited"]
  /\ output' = Flushed(servers[pid].file, servers[pid].stream)
  /\ UNCHANGED <<optionVars, fileVars, lastVars, server_enabled, server_port,
                 server_pid, sockets, events, log_levels_list,
                 json_buffers, calls>>

-----------------------------------------------------------------------------
(* Initialisation.                                                         *)

\* What every call of cclogger_init does before it opens the file: levels are
\* appended to those that exist, and a new buffer is mapped.
InitDefaults ==
  /\ Len(json_buffers) < MaxInits
  /\ Len(log_levels_list) + Len(DefaultLevels) <= MaxLevels
  /\ verbosity_level' = 10
  /\ log_levels_list' = log_levels_list \o DefaultLevels
  /\ def_msg_string' = DefaultFormat

\* cclog_json_init_buffer: what was mapped before stays mapped.
MapBuffer == Append(json_buffers, Null)

\* A method that is not in Methods is a value outside the enumeration.
cclogger_init(method, path) ==
  /\ InitDefaults
  /\ \/ /\ method \in Methods
        /\ SetLogFile(path, TRUE)
        /\ log_method' = method
        /\ logger_initialised' = TRUE
     \/ /\ method \in Methods
        /\ SetLogFile(path, FALSE)
        /\ UNCHANGED <<log_method, logger_initialised>>
     \/ /\ method \notin Methods
        /\ UNCHANGED <<fileVars, output, logger_initialised>>
  /\ UNCHANGED <<lastVars, serverVars, events, calls>>
  /\ Refresh(MapBuffer)

\* Mutant of CleanupOpt: log_file still points to the closed FILE.
CleanupOptDangling ==
  /\ output' = Flushed(log_file, stream) /\ stream' = <<>>
  /\ UNCHANGED log_file
  /\ log_file_path' = Null /\ def_msg_string' = Null

\* cclog_cleanup_opt keeps the other options.
CleanupOpt ==
  /\ output' = Flushed(log_file, stream) /\ stream' = <<>>
  /\ log_file' = Null
  /\ log_file_path' = Null /\ def_msg_string' = Null

cclogger_uninit ==
  /\ log_levels_list' = <<>>
  /\ calls' = FreeLevels(calls)
  /\ \/ StopServer
     \/ /\ ~server_enabled \/ ~logger_initialised
        /\ UNCHANGED serverVars
  /\ CleanupOpt
  /\ logger_initialised' = FALSE
  /\ UNCHANGED <<log_method, verbosity_level, lastVars, events>>
  /\ Refresh(json_buffers)

-----------------------------------------------------------------------------
(* Export and import of the configuration.                                 *)

\* fopen with "w": what the file held is lost, also when it is a log.
Truncated(path) == [sink \in Sinks |-> IF sink = path THEN <<>> ELSE output[sink]]

\* The file is written from the shared buffer, unless it cannot be opened.  Before
\* the first cclogger_init there is no buffer and the call crashes: no step.
cclogger_export_config_json(path) ==
  /\ json_buffers # <<>>
  /\ \/ /\ json_buffers' = Publish(json_buffers, Config)
        /\ output' = Truncated(path)
     \/ /\ UNCHANGED <<json_buffers, output>>
  /\ UNCHANGED <<optionVars, fileVars, lastVars, serverVars, events,
                 log_levels_list, calls>>

\* The parameters are read in this order, up to the first that is missing.
HasFormat(file)    == file # Null /\ file.format # Null
HasVerbosity(file) == HasFormat(file) /\ file.verbosity # Null
HasLevels(file)    == HasVerbosity(file) /\ file.levels # Null

LoadOptions(file) ==
  /\ def_msg_string' = IF HasFormat(file) THEN file.format ELSE def_msg_string
  /\ verbosity_level' = IF HasVerbosity(file) THEN file.verbosity ELSE verbosity_level

LoadIncomplete(file) ==
  /\ ~HasLevels(file)
  /\ LoadOptions(file)
  /\ UNCHANGED <<serverVars, log_levels_list, calls>>
  /\ Refresh(json_buffers)

\* json_load_log_levels adds the first n objects, up to one that is malformed.
LoadedLevels(levels, n) ==
  /\ \A k \in 1 .. n: levels[k] # Malformed
  /\ n < Len(levels) => levels[n + 1] = Malformed

\* The options are published when they are set and each level when it is
\* added, but not the reset of the list.
LoadPublishes ==
  json_buffers' =
    IF ~server_enabled' THEN json_buffers
    ELSE IF log_levels_list' = <<>> /\ servers' = servers
    THEN Publish(json_buffers, [Config' EXCEPT !.levels = log_levels_list])
    ELSE Publish(json_buffers, Config')

LoadComplete(file) ==
  /\ HasLevels(file)
  /\ LoadOptions(file)
  /\ calls' = FreeLevels(calls)
  /\ \E n \in 0 .. Len(file.levels):
       /\ LoadedLevels(file.levels, n)
       /\ log_levels_list' = SubSeq(file.levels, 1, n)
       /\ \/ /\ n = Len(file.levels) /\ file.port \in Int
             /\ StartServer(file.port) \/ StartServerFails(file.port)
          \/ /\ n < Len(file.levels) \/ file.port \notin Int
             /\ UNCHANGED serverVars
  /\ LoadPublishes

\* The value returned is -1 on every path.
cclogger_load_config_json(file) ==
  /\ UNCHANGED <<logger_initialised, fileVars, lastVars, outputVars>>
  /\ \/ /\ logger_initialised
        /\ LoadIncomplete(file) \/ LoadComplete(file)
     \/ /\ ~logger_initialised
        /\ UNCHANGED <<def_msg_string, verbosity_level, serverVars, log_levels_list,
                       calls, json_buffers>>

-----------------------------------------------------------------------------
Init ==
  /\ logger_initialised = FALSE /\ def_msg_string = Null /\ verbosity_level = 0
  /\ log_file = Null /\ log_file_path = Null /\ stream = <<>>
  /\ log_method = "LOGGING_SINGLE_FILE"
  /\ log_ret_value = 0 /\ last_callback = Null
  /\ server_enabled = FALSE /\ server_port = 0 /\ server_pid = 0
  /\ sockets = {} /\ servers = <<>>
  /\ events = 0 /\ output = [sink \in Sinks |-> <<>>]
  /\ log_levels_list = <<>> /\ json_buffers = <<>> /\ calls = <<>>

Next ==
  \/ \E method \in Methods \cup {Null}, path \in Paths: cclogger_init(method, path)
  \/ cclogger_uninit
  \/ \E i \in 0 .. Len(log_levels_list): cclog(i)
  \/ \E value \in CallbackReturns: CallbackReturn(value)
  \/ cclogger_recall_last_callback
  \/ \E level \in UserLevels: cclogger_add_log_level(level)
  \/ cclogger_reset_log_levels
  \/ \E format \in Formats: cclogger_set_default_message_format(format)
  \/ \E verbosity \in Verbosities: cclogger_set_verbosity_level(verbosity)
  \/ \E path \in ExportPaths: cclogger_export_config_json(path)
  \/ \E file \in JsonFiles \cup {Null}: cclogger_load_config_json(file)
  \/ \E port \in Ports: cclogger_server_start(port)
  \/ cclogger_server_stop
  \/ \E pid \in DOMAIN servers: ServerExits(pid)

Spec == Init /\ [][Next]_vars

-----------------------------------------------------------------------------
(* Properties.                                                             *)

ServerRecord ==
  [port: 1 .. PortRange - 1, file: Paths \cup {Null}, path: Paths \cup {Null},
   stream: Seq(Nat), buffer: Nat, status: {"running", "stopping", "exited"}]

FrameRecord ==
  [kind: {"cclog", "recall"}, index: Nat, callback: Callbacks, freed: BOOLEAN,
   event: Nat, file: Paths \cup {Null}]

\* Type invariant.
TypeOK ==
  /\ logger_initialised \in BOOLEAN
  /\ log_file \in Paths \cup {Null} /\ log_file_path \in Paths \cup {Null}
  /\ log_method \in Methods
  /\ def_msg_string \in Formats \cup {Null}
  /\ verbosity_level \in Int /\ log_ret_value \in Int
  /\ last_callback \in Callbacks \cup {Null, Garbage}
  /\ server_enabled \in BOOLEAN /\ server_port \in Int /\ server_pid \in Nat
  /\ log_levels_list \in Seq(LogLevel)
  /\ json_buffers \in Seq(ConfigRecord \cup {Null})
  /\ stream \in Seq(Nat)
  /\ output \in [Sinks -> Seq(Nat)]
  /\ events \in Nat
  /\ calls \in Seq(FrameRecord)
  /\ sockets \subseteq 1 .. PortRange - 1
  /\ servers \in Seq(ServerRecord)

\* While the server is enabled, cclogger_server_stop can stop it: the logger is
\* initialised and the recorded pid is a server process that nobody has told to
\* stop, on the recorded port, whose socket is still open here.
ServerStoppable ==
  server_enabled =>
    /\ logger_initialised
    /\ server_pid \in DOMAIN servers
    /\ servers[server_pid].status = "running"
    /\ servers[server_pid].port \in sockets
    /\ server_port % PortRange \in {0, servers[server_pid].port}

\* A log call finds what it uses: an open log file is the one whose path the
\* configuration shows, and comes with a default message format, which
\* create_msg_buffer reads without a test for NULL.
OpenFileConsistent ==
  log_file # Null => /\ log_file = log_file_path
                     /\ def_msg_string # Null

\* The buffer a running server reads holds the current options, whatever call
\* changed them last, and the current levels unless the list has been reset.
PublishedConfig ==
  server_enabled =>
    /\ json_buffers # <<>>
    /\ Published # Null
    /\ [Published EXCEPT !.levels = log_levels_list] = Config
    /\ log_levels_list # <<>> => Published = Config

\* No sink shows a line twice or out of order, though every server process
\* leaves with a copy of the stdio buffer of the log file.
LinesInOrder ==
  \A sink \in Sinks: \A i, j \in DOMAIN output[sink]:
    i < j => output[sink][i] < output[sink][j]

\* When a callback runs, the line its log call made is already in the file,
\* where another process can read it, unless a configuration is exported over it.
CallbackSeesLine ==
  \A k \in DOMAIN calls: calls[k].file \notin ExportPaths \cup {Null} =>
    \E i \in DOMAIN output[calls[k].file]: output[calls[k].file][i] = calls[k].event

\* Levels keep the index they got: until the list is reset, the level whose
\* callback runs is found at its index, whatever the callback adds or loads.
LevelKeepsIndex ==
  \A k \in DOMAIN calls: calls[k].kind = "cclog" /\ ~calls[k].freed =>
    /\ calls[k].index \in DOMAIN log_levels_list
    /\ log_levels_list[calls[k].index].callback = calls[k].callback

\* The application never frees a port a server had: no later server has it, not
\* even after the first has ended, though ports that differ as an int may be one.
PortsStayTaken ==
  \A p, q \in DOMAIN servers: p # q => servers[p].port # servers[q].port

\* A line that a sink has is never lost, by a new call of cclogger_init, a
\* second file, or a server process that closes its copy of the file; only an
\* export to a log loses what the log held.
LinesKept ==
  [][\A sink \in Sinks:
       \/ \A i \in DOMAIN output[sink]:
            i \in DOMAIN output'[sink] /\ output'[sink][i] = output[sink][i]
       \/ sink \in ExportPaths /\ cclogger_export_config_json(sink)]_vars

-----------------------------------------------------------------------------
(* What the documentation and the comments say, and the code does not do.  *)

\* cclogger_recall_last_callback has a callback of the application or none to
\* call, also when the last callback has reset the log levels.
LastCallbackSound == last_callback \in Callbacks \cup {Null}
=============================================================================
