---------------------------- MODULE LoggerProofs ----------------------------
(***************************************************************************)
(* Theorems about Logger, for every value of its constants: its log and its *)
(* server, the callbacks of log calls, the lines and levels they rely on,   *)
(* and the log that a server shows.                                         *)
(***************************************************************************)
EXTENDS Logger, SequenceTheorems, TLAPS

Buffers == Seq(ConfigRecord \cup {Null})

\* The part of the type invariant that the published configuration reads.
OptionsOK ==
  /\ log_file_path \in Paths \cup {Null}
  /\ log_method \in Methods
  /\ def_msg_string \in Formats \cup {Null}
  /\ verbosity_level \in Int
  /\ log_levels_list \in Seq(LogLevel)
  /\ server_enabled \in BOOLEAN /\ server_port \in Int

-----------------------------------------------------------------------------
(* The operators actions are built from keep the types.                    *)

\* Rewriting the current buffer gives buffers of the right type.
LEMMA PublishType ==
  ASSUME NEW buffers \in Buffers, NEW config \in ConfigRecord
  PROVE  Publish(buffers, config) \in Buffers
<1>1. CASE Len(buffers) \in 1 .. Len(buffers)
  BY <1>1, ExceptSeq DEF Publish, Buffers
<1>2. CASE Len(buffers) = 0
  <2>1. buffers = << >>
    BY <1>2, EmptySeq DEF Buffers
  <2>2. Publish(buffers, config) = buffers
    BY <1>2, <2>1 DEF Publish
  <2>3. QED
    BY <2>2
<1>3. Len(buffers) \in Nat
  BY LenProperties DEF Buffers
<1>4. QED
  BY <1>1, <1>2, <1>3

\* cclog_set_opt publishes a well-formed configuration.
LEMMA RefreshType ==
  ASSUME OptionsOK', NEW buffers \in Buffers, Refresh(buffers)
  PROVE  json_buffers' \in Buffers
<1>1. Config' \in ConfigRecord
  BY DEF OptionsOK, Config, ConfigRecord
<1>2. QED
  BY <1>1, PublishType DEF Refresh

\* Reading the stream into a file keeps the type of the files.
LEMMA FlushedType ==
  ASSUME TypeOK, NEW file \in Paths \cup {Null}, NEW lines \in Seq(Nat)
  PROVE  Flushed(file, lines) \in [Sinks -> Seq(Nat)]
BY DEF TypeOK, Flushed, Sinks

\* An emptied sink leaves a file of each sink.
LEMMA TruncatedType ==
  ASSUME TypeOK, NEW path
  PROVE  Truncated(path) \in [Sinks -> Seq(Nat)]
<1>1. << >> \in Seq(Nat)
  BY EmptySeq
<1>2. QED
  BY <1>1 DEF Truncated, TypeOK

\* A reset of the list marks the frames and changes nothing else in them.
LEMMA FreeLevelsType ==
  ASSUME NEW frames \in Seq(FrameRecord)
  PROVE  /\ FreeLevels(frames) \in Seq(FrameRecord)
         /\ Len(FreeLevels(frames)) = Len(frames)
         /\ \A k \in 1 .. Len(frames):
              /\ FreeLevels(frames)[k].file = frames[k].file
              /\ FreeLevels(frames)[k].event = frames[k].event
              /\ FreeLevels(frames)[k].kind = frames[k].kind
<1>1. CASE log_levels_list = <<>>
  BY <1>1 DEF FreeLevels
<1>2. CASE log_levels_list # <<>>
  <2>1. FreeLevels(frames) =
          [k \in 1 .. Len(frames) |-> [frames[k] EXCEPT !.freed = TRUE]]
    BY <1>2 DEF FreeLevels
  <2>4. \A k \in 1 .. Len(frames): frames[k] \in FrameRecord
    BY ElementOfSeq
  <2>2. \A k \in 1 .. Len(frames): [frames[k] EXCEPT !.freed = TRUE] \in FrameRecord
    BY <2>4 DEF FrameRecord
  <2>3. FreeLevels(frames) \in Seq(FrameRecord) /\ Len(FreeLevels(frames)) = Len(frames)
    BY <2>1, <2>2
  <2>5. QED
    BY <2>1, <2>3, <2>4 DEF FrameRecord
<1>3. QED
  BY <1>1, <1>2

\* bind gives a port of 16 bits that nobody listens on.
LEMMA BindableType ==
  ASSUME NEW port \in Int, port >= 0
  PROVE  Bindable(port) \subseteq 1 .. PortRange - 1
<1>1. port % PortRange \in 0 .. PortRange - 1
  BY ConstantsAssumption
<1>2. QED
  BY <1>1, ConstantsAssumption DEF Bindable

-----------------------------------------------------------------------------
(* Type correctness, one lemma for the actions with a shape of their own.  *)

\* A call that changes levels, format or verbosity and then refreshes.
LEMMA OptionCallType ==
  ASSUME TypeOK, OptionsOK', Refresh(json_buffers), calls' \in Seq(FrameRecord),
         UNCHANGED <<logger_initialised, fileVars, lastVars, serverVars, outputVars>>
  PROVE  TypeOK'
<1>1. json_buffers' \in Buffers
  BY RefreshType DEF TypeOK, Buffers
<1>2. QED
  BY <1>1 DEF TypeOK, OptionsOK, Buffers, fileVars, lastVars, serverVars, outputVars

\* A new server process is well formed.
LEMMA ForkedType ==
  ASSUME TypeOK, NEW bound \in 1 .. PortRange - 1
  PROVE  Forked(bound) \in ServerRecord
<1>1. Len(json_buffers) \in Nat
  BY LenProperties DEF TypeOK
<1>2. QED
  BY <1>1 DEF TypeOK, Forked, ServerRecord

ServerTypes ==
  /\ server_enabled \in BOOLEAN /\ server_port \in Int /\ server_pid \in Nat
  /\ sockets \subseteq 1 .. PortRange - 1
  /\ servers \in Seq(ServerRecord)

\* A start of the server, successful or not, keeps the types.
LEMMA StartServerType ==
  ASSUME TypeOK, NEW port \in Int, StartServer(port) \/ StartServerFails(port)
  PROVE  ServerTypes'
<1>1. CASE StartServer(port)
  <2>1. PICK bound \in Bindable(port):
          /\ sockets' = sockets \cup {bound}
          /\ servers' = Append(servers, Forked(bound))
    BY <1>1 DEF StartServer
  <2>2. bound \in 1 .. PortRange - 1
    BY <1>1, BindableType DEF StartServer
  <2>3. servers' \in Seq(ServerRecord)
    BY <2>1, <2>2, ForkedType, AppendProperties DEF TypeOK
  <2>4. Len(servers) \in Nat
    BY LenProperties DEF TypeOK
  <2>5. QED
    BY <1>1, <2>1, <2>2, <2>3, <2>4 DEF ServerTypes, StartServer, TypeOK
<1>2. CASE StartServerFails(port)
  BY <1>2, BindableType DEF ServerTypes, StartServerFails, TypeOK
<1>3. QED
  BY <1>1, <1>2

\* Stopping the server only changes the status of its record.
LEMMA StopServerType ==
  ASSUME TypeOK, StopServer \/ UNCHANGED serverVars
  PROVE  ServerTypes'
<1>1. CASE StopServer
  <2>1. servers' \in Seq(ServerRecord)
    <3> DEFINE record == [servers[server_pid] EXCEPT !.status =
                            IF @ = "running" THEN "stopping" ELSE @]
    <3>1. CASE server_pid \in 1 .. Len(servers)
      <4>1. servers[server_pid] \in ServerRecord
        BY <3>1, ElementOfSeq DEF TypeOK
      <4>2. record \in ServerRecord
        BY <4>1 DEF ServerRecord
      <4>3. servers' = [servers EXCEPT ![server_pid] = record]
        BY <1>1 DEF StopServer
      <4>4. QED
        BY <3>1, <4>2, <4>3, ExceptSeq DEF TypeOK
    <3>2. CASE server_pid \notin 1 .. Len(servers)
      <4>1. DOMAIN servers = 1 .. Len(servers)
        BY LenProperties DEF TypeOK
      <4>2. servers' = servers
        BY <1>1, <3>2, <4>1, EmptySeq DEF StopServer, TypeOK
      <4>3. QED
        BY <4>2 DEF TypeOK
    <3>3. QED
      BY <3>1, <3>2
  <2>2. QED
    BY <1>1, <2>1 DEF ServerTypes, StopServer, TypeOK
<1>2. CASE UNCHANGED serverVars
  BY <1>2 DEF ServerTypes, serverVars, TypeOK
<1>3. QED
  BY <1>1, <1>2

\* The files keep their type, whatever is written to them.
LEMMA CclogWritesType ==
  ASSUME TypeOK, NEW level \in LogLevel, CclogWrites(level)
  PROVE  /\ events' \in Nat
         /\ stream' \in Seq(Nat)
         /\ output' \in [Sinks -> Seq(Nat)]
<1> DEFINE line == WriteLine(events + 1)
           written == IF level.to_file THEN Flushed(log_file, line.file) ELSE output
<1>1. events + 1 \in Nat
  BY DEF TypeOK
<1>2. line.file \in Seq(Nat) /\ line.stream \in Seq(Nat)
  BY <1>1, AppendProperties, EmptySeq DEF WriteLine, TypeOK
<1>3. written \in [Sinks -> Seq(Nat)]
  BY <1>2, FlushedType DEF TypeOK
<1>4. [written EXCEPT ![Tty] = Append(@, events + 1)] \in [Sinks -> Seq(Nat)]
  BY <1>1, <1>3, AppendProperties DEF Sinks
<1>5. QED
  BY <1>1, <1>2, <1>3, <1>4 DEF CclogWrites, TypeOK

\* Every outcome of a log call keeps the types.
LEMMA CclogType ==
  ASSUME TypeOK, NEW i \in Nat, cclog(i)
  PROVE  TypeOK'
<1> DEFINE level == log_levels_list[i]
<1>1. json_buffers \in Buffers
  BY DEF TypeOK, Buffers
<1>2. CASE CclogFails
  <2>1. OptionsOK'
    BY <1>2 DEF CclogFails, OptionsOK, TypeOK, optionVars, fileVars, serverVars
  <2>2. json_buffers' \in Buffers
    BY <1>1, <1>2, <2>1, RefreshType DEF CclogFails
  <2>3. QED
    BY <1>2, <2>2 DEF CclogFails, TypeOK, Buffers, optionVars, fileVars, serverVars,
                      outputVars
<1>3. CASE CclogSuppressed
  BY <1>3 DEF CclogSuppressed, vars, TypeOK, optionVars, fileVars, serverVars, outputVars, lastVars
<1>4. CASE /\ i \in DOMAIN log_levels_list
           /\ CclogWrites(level)
           /\ UNCHANGED <<optionVars, log_file, log_file_path, log_method, serverVars,
                          log_levels_list>>
           /\ \/ /\ UNCHANGED calls
                 /\ CclogReturns(Null, 0)
              \/ /\ level.callback # Null
                 /\ calls' = Append(calls, Frame(i, events + 1))
                 /\ UNCHANGED <<lastVars, json_buffers>>
  <2>1. level \in LogLevel
    BY <1>4, ElementOfSeq, LenProperties DEF TypeOK
  <2>2. events' \in Nat /\ stream' \in Seq(Nat) /\ output' \in [Sinks -> Seq(Nat)]
    BY <1>4, <2>1, CclogWritesType
  <2>3. OptionsOK'
    BY <1>4 DEF OptionsOK, TypeOK, optionVars, serverVars
  <2>4. CASE UNCHANGED calls /\ CclogReturns(Null, 0)
    <3>1. json_buffers' \in Buffers
      BY <1>1, <2>3, <2>4, RefreshType DEF CclogReturns
    <3>2. QED
      BY <1>4, <2>2, <2>4, <3>1 DEF CclogReturns, TypeOK, Buffers, optionVars, serverVars
  <2>5. CASE /\ level.callback # Null
             /\ calls' = Append(calls, Frame(i, events + 1))
             /\ UNCHANGED <<lastVars, json_buffers>>
    <3>1. Frame(i, events + 1) \in FrameRecord
      BY <2>1, <2>5 DEF Frame, FrameRecord, LogLevel, TypeOK
    <3>2. calls' \in Seq(FrameRecord)
      BY <2>5, <3>1, AppendProperties DEF TypeOK
    <3>3. QED
      BY <1>4, <2>2, <2>5, <3>2 DEF TypeOK, lastVars, optionVars, serverVars
  <2>6. QED
    BY <1>4, <2>4, <2>5
<1>5. QED
  BY <1>2, <1>3, <1>4 DEF cclog

\* The return of a callback keeps the types, also when the level was freed.
LEMMA CallbackReturnType ==
  ASSUME TypeOK, NEW value \in Int, CallbackReturn(value)
  PROVE  TypeOK'
<1> DEFINE frame == calls[Len(calls)]
<1>1. frame \in FrameRecord
  BY ElementOfSeq, LenProperties, EmptySeq DEF CallbackReturn, TypeOK
<1>2. calls' \in Seq(FrameRecord)
  BY SubSeqProperties, LenProperties DEF CallbackReturn, TypeOK
<1>3. CASE \E callback \in CallbackOfLevel(frame): CclogReturns(callback, value)
  <2>1. PICK callback \in CallbackOfLevel(frame): CclogReturns(callback, value)
    BY <1>3
  <2>2. callback \in Callbacks \cup {Null, Garbage}
    BY <1>1, <2>1 DEF CallbackOfLevel, FrameRecord
  <2>3. OptionsOK'
    BY DEF CallbackReturn, OptionsOK, TypeOK, optionVars, fileVars, serverVars
  <2>4. json_buffers' \in Buffers
    BY <2>1, <2>3, RefreshType DEF CclogReturns, TypeOK, Buffers
  <2>5. QED
    BY <1>2, <2>1, <2>2, <2>4 DEF CallbackReturn, CclogReturns, TypeOK, Buffers, optionVars,
                                  fileVars, serverVars, outputVars
<1>4. CASE UNCHANGED <<lastVars, json_buffers>>
  BY <1>2, <1>4 DEF CallbackReturn, TypeOK, optionVars, fileVars, serverVars, outputVars,
                    lastVars
<1>5. QED
  BY <1>3, <1>4 DEF CallbackReturn

\* cclogger_init keeps the types, whether or not it fails.
LEMMA InitType ==
  ASSUME TypeOK, NEW method \in Methods \cup {Null}, NEW path \in Paths,
         cclogger_init(method, path)
  PROVE  TypeOK'
<1>1. log_levels_list' \in Seq(LogLevel)
  <2>1. DefaultLevels \in Seq(LogLevel)
    BY DEF DefaultLevels, Level, LogLevel
  <2>2. QED
    BY <2>1, ConcatProperties DEF cclogger_init, MapBuffer, InitDefaults, TypeOK
<1>2. verbosity_level' \in Int /\ def_msg_string' \in Formats
  BY ConstantsAssumption DEF cclogger_init, MapBuffer, InitDefaults
<1>3. /\ log_file' \in Paths \cup {Null} /\ log_file_path' \in Paths \cup {Null}
      /\ log_method' \in Methods /\ logger_initialised' \in BOOLEAN
      /\ stream' \in Seq(Nat) /\ output' \in [Sinks -> Seq(Nat)]
  <2>1. Flushed(log_file, stream) \in [Sinks -> Seq(Nat)]
    BY FlushedType DEF TypeOK
  <2>2. QED
    BY <2>1, EmptySeq DEF cclogger_init, MapBuffer, SetLogFile, TypeOK, fileVars
<1>4. OptionsOK'
  BY <1>1, <1>2, <1>3 DEF OptionsOK, cclogger_init, MapBuffer, TypeOK, serverVars
<1>5. json_buffers' \in Buffers
  <2>1. Append(json_buffers, Null) \in Buffers
    BY AppendProperties DEF TypeOK, Buffers
  <2>2. QED
    BY <1>4, <2>1, RefreshType DEF cclogger_init, MapBuffer
<1>6. QED
  BY <1>1, <1>2, <1>3, <1>5 DEF cclogger_init, MapBuffer, TypeOK, Buffers, lastVars, serverVars

\* cclogger_uninit keeps the types.
LEMMA UninitType ==
  ASSUME TypeOK, cclogger_uninit
  PROVE  TypeOK'
<1>1. ServerTypes'
  BY StopServerType DEF cclogger_uninit
<1>2. calls' \in Seq(FrameRecord)
  BY FreeLevelsType DEF cclogger_uninit, TypeOK
<1>3. output' \in [Sinks -> Seq(Nat)]
  BY FlushedType DEF cclogger_uninit, CleanupOpt, TypeOK
<1>4. log_levels_list' \in Seq(LogLevel) /\ stream' \in Seq(Nat)
  BY EmptySeq DEF cclogger_uninit, CleanupOpt
<1>5. OptionsOK'
  BY <1>1, <1>4 DEF OptionsOK, ServerTypes, cclogger_uninit, CleanupOpt, TypeOK
<1>6. json_buffers' \in Buffers
  BY <1>5, RefreshType DEF cclogger_uninit, TypeOK, Buffers
<1>7. QED
  BY <1>1, <1>2, <1>3, <1>4, <1>6
     DEF ServerTypes, cclogger_uninit, CleanupOpt, TypeOK, Buffers, lastVars

\* cclogger_server_start keeps the types, whether or not it fails.
LEMMA ServerStartType ==
  ASSUME TypeOK, NEW port \in Int, cclogger_server_start(port)
  PROVE  TypeOK'
<1>1. ServerTypes'
  BY StartServerType, StopServerType DEF cclogger_server_start
<1>2. OptionsOK'
  BY <1>1 DEF OptionsOK, ServerTypes, cclogger_server_start, TypeOK, optionVars, fileVars
<1>3. json_buffers' \in Buffers
  <2>1. Config' \in ConfigRecord
    BY <1>2 DEF OptionsOK, Config, ConfigRecord
  <2>2. QED
    BY <2>1, PublishType DEF cclogger_server_start, TypeOK, Buffers
<1>4. QED
  BY <1>1, <1>3 DEF ServerTypes, cclogger_server_start, TypeOK, Buffers, optionVars,
                    fileVars, lastVars, outputVars

\* The end of a server process keeps the types.
LEMMA ServerExitsType ==
  ASSUME TypeOK, NEW pid \in DOMAIN servers, ServerExits(pid)
  PROVE  TypeOK'
<1>1. pid \in 1 .. Len(servers) /\ servers[pid] \in ServerRecord
  BY ElementOfSeq, LenProperties DEF TypeOK
<1>2. [servers[pid] EXCEPT !.status = "exited"] \in ServerRecord
  BY <1>1 DEF ServerRecord
<1>3. servers' \in Seq(ServerRecord)
  <2>1. servers' = [servers EXCEPT ![pid] = [servers[pid] EXCEPT !.status = "exited"]]
    BY DEF ServerExits
  <2>2. QED
    BY <1>1, <1>2, <2>1, ExceptSeq DEF TypeOK
<1>4. output' \in [Sinks -> Seq(Nat)]
  BY <1>1, FlushedType DEF ServerExits, ServerRecord
<1>5. QED
  BY <1>3, <1>4 DEF ServerExits, TypeOK, optionVars, fileVars, lastVars

\* Every exit of cclogger_load_config_json keeps the types.
LEMMA LoadType ==
  ASSUME TypeOK, NEW file \in JsonFiles \cup {Null}, cclogger_load_config_json(file)
  PROVE  TypeOK'
<1>1. CASE UNCHANGED <<def_msg_string, verbosity_level, serverVars, log_levels_list,
                       calls, json_buffers>>
  BY <1>1 DEF cclogger_load_config_json, TypeOK, fileVars, lastVars, serverVars, outputVars
<1>2. ASSUME HasFormat(file) PROVE file \in JsonFile
  BY <1>2, ConstantsAssumption DEF HasFormat
<1>3. ASSUME LoadOptions(file)
      PROVE  def_msg_string' \in Formats \cup {Null} /\ verbosity_level' \in Int
  BY <1>2, <1>3 DEF LoadOptions, HasFormat, HasVerbosity, JsonFile, TypeOK
<1>4. CASE LoadIncomplete(file)
  <2>1. OptionsOK'
    BY <1>3, <1>4 DEF LoadIncomplete, cclogger_load_config_json, OptionsOK, TypeOK,
                      fileVars, serverVars
  <2>2. json_buffers' \in Buffers
    BY <1>4, <2>1, RefreshType DEF LoadIncomplete, TypeOK, Buffers
  <2>3. QED
    BY <1>4, <2>1, <2>2 DEF LoadIncomplete, cclogger_load_config_json, OptionsOK, TypeOK,
                            Buffers, fileVars, lastVars, serverVars, outputVars
<1>5. CASE LoadComplete(file)
  <2>1. PICK n \in 0 .. Len(file.levels):
          /\ LoadedLevels(file.levels, n)
          /\ log_levels_list' = SubSeq(file.levels, 1, n)
          /\ \/ file.port \in Int /\ (StartServer(file.port) \/ StartServerFails(file.port))
             \/ UNCHANGED serverVars
    BY <1>5 DEF LoadComplete
  <2>2. file.levels \in Seq(LogLevel \cup {Malformed})
    BY <1>2, <1>5 DEF LoadComplete, HasLevels, HasVerbosity, JsonFile
  <2>3. log_levels_list' \in Seq(LogLevel)
    <3>1. \A k \in 1 .. n: file.levels[k] \in LogLevel
      BY <2>1, <2>2, ElementOfSeq, LenProperties DEF LoadedLevels
    <3>2. QED
      BY <2>1, <2>2, <3>1, SubSeqProperties, LenProperties, IsASeq
  <2>4. ServerTypes'
    BY <2>1, StartServerType, StopServerType
  <2>5. OptionsOK'
    BY <1>3, <1>5, <2>3, <2>4 DEF LoadComplete, cclogger_load_config_json, OptionsOK,
                                  ServerTypes, TypeOK, fileVars
  <2>6. json_buffers' \in Buffers
    <3>1. Config' \in ConfigRecord
      BY <2>5 DEF OptionsOK, Config, ConfigRecord
    <3>2. [Config' EXCEPT !.levels = log_levels_list] \in ConfigRecord
      BY <3>1 DEF TypeOK, ConfigRecord
    <3>3. QED
      BY <1>5, <3>1, <3>2, PublishType DEF LoadComplete, LoadPublishes, TypeOK, Buffers
  <2>7. calls' \in Seq(FrameRecord)
    BY <1>5, FreeLevelsType DEF LoadComplete, TypeOK
  <2>8. QED
    BY <2>4, <2>5, <2>6, <2>7 DEF cclogger_load_config_json, OptionsOK, ServerTypes, TypeOK,
                                  Buffers, fileVars, lastVars, outputVars
<1>6. QED
  BY <1>1, <1>4, <1>5 DEF cclogger_load_config_json

\* Every step keeps the types.
LEMMA TypeStep ==
  ASSUME TypeOK, [Next]_vars
  PROVE  TypeOK'
<1>1. CASE UNCHANGED vars
  BY <1>1 DEF vars, TypeOK, optionVars, fileVars, lastVars, serverVars, outputVars
<1>2. ASSUME NEW method \in Methods \cup {Null}, NEW path \in Paths,
             cclogger_init(method, path)
      PROVE  TypeOK'
  BY <1>2, InitType
<1>3. CASE cclogger_uninit
  BY <1>3, UninitType
<1>4. ASSUME NEW i \in 0 .. Len(log_levels_list), cclog(i)
      PROVE  TypeOK'
  BY <1>4, CclogType
<1>5. ASSUME NEW value \in CallbackReturns, CallbackReturn(value)
      PROVE  TypeOK'
  BY <1>5, CallbackReturnType, ConstantsAssumption
<1>6. CASE cclogger_recall_last_callback
  <2>1. calls' \in Seq(FrameRecord)
    <3>1. CASE UNCHANGED calls
      BY <3>1 DEF TypeOK
    <3>2. CASE CanRecall /\ calls' = Append(calls, [kind |-> "recall", index |-> 0,
                 callback |-> last_callback, freed |-> FALSE, event |-> 0, file |-> Null])
      BY <3>2, AppendProperties DEF CanRecall, FrameRecord, TypeOK
    <3>3. QED
      BY <1>6, <3>1, <3>2 DEF cclogger_recall_last_callback
  <2>2. QED
    BY <1>6, <2>1 DEF cclogger_recall_last_callback, TypeOK, optionVars, fileVars, lastVars,
                      serverVars, outputVars
<1>7. ASSUME NEW level \in UserLevels, cclogger_add_log_level(level)
      PROVE  TypeOK'
  <2>1. log_levels_list' \in Seq(LogLevel)
    BY <1>7, AppendProperties, ConstantsAssumption
       DEF cclogger_add_log_level, AddLevel, TypeOK
  <2>2. QED
    BY <1>7, <2>1, OptionCallType DEF cclogger_add_log_level, OptionsOK, TypeOK, optionVars,
                                      fileVars, serverVars
<1>8. CASE cclogger_reset_log_levels
  BY <1>8, FreeLevelsType, EmptySeq
     DEF cclogger_reset_log_levels, TypeOK, optionVars, fileVars, lastVars, serverVars,
         outputVars
<1>9. ASSUME NEW format \in Formats, cclogger_set_default_message_format(format)
      PROVE  TypeOK'
  BY <1>9, OptionCallType DEF cclogger_set_default_message_format, OptionsOK, TypeOK,
                              fileVars, serverVars
<1>10. ASSUME NEW verbosity \in Verbosities, cclogger_set_verbosity_level(verbosity)
       PROVE  TypeOK'
  BY <1>10, OptionCallType, ConstantsAssumption
     DEF cclogger_set_verbosity_level, OptionsOK, TypeOK, fileVars, serverVars
<1>11. ASSUME NEW path \in ExportPaths, cclogger_export_config_json(path)
       PROVE  TypeOK'
  <2>1. Config \in ConfigRecord
    BY DEF TypeOK, Config, ConfigRecord
  <2>2. json_buffers' \in Buffers
    BY <1>11, <2>1, PublishType DEF cclogger_export_config_json, TypeOK, Buffers
  <2>3. output' \in [Sinks -> Seq(Nat)]
    BY <1>11, TruncatedType DEF cclogger_export_config_json, TypeOK
  <2>4. QED
    BY <1>11, <2>2, <2>3 DEF cclogger_export_config_json, TypeOK, Buffers, optionVars, fileVars,
                             lastVars, serverVars
<1>12. ASSUME NEW file \in JsonFiles \cup {Null}, cclogger_load_config_json(file)
       PROVE  TypeOK'
  BY <1>12, LoadType
<1>13. ASSUME NEW port \in Ports, cclogger_server_start(port)
       PROVE  TypeOK'
  BY <1>13, ServerStartType, ConstantsAssumption
<1>14. CASE cclogger_server_stop
  <2>1. ServerTypes'
    BY <1>14, StopServerType DEF cclogger_server_stop
  <2>2. QED
    BY <1>14, <2>1 DEF cclogger_server_stop, ServerTypes, TypeOK, optionVars, fileVars,
                       lastVars, outputVars
<1>15. ASSUME NEW pid \in DOMAIN servers, ServerExits(pid)
       PROVE  TypeOK'
  BY <1>15, ServerExitsType
<1>16. QED
  BY <1>1, <1>2, <1>3, <1>4, <1>5, <1>6, <1>7, <1>8, <1>9, <1>10, <1>11, <1>12, <1>13,
     <1>14, <1>15 DEF Next

\* The options, the published configurations, the frames of the callbacks and
\* the server processes keep their types, whatever is called, in any order.
THEOREM TypeCorrect == Spec => []TypeOK
<1>1. Init => TypeOK
  <2> SUFFICES ASSUME Init PROVE TypeOK
    OBVIOUS
  <2>1. output \in [Sinks -> Seq(Nat)]
    BY EmptySeq DEF Init
  <2>2. /\ log_levels_list \in Seq(LogLevel) /\ stream \in Seq(Nat)
        /\ json_buffers \in Seq(ConfigRecord \cup {Null})
        /\ calls \in Seq(FrameRecord) /\ servers \in Seq(ServerRecord)
    BY EmptySeq DEF Init
  <2>3. log_method \in Methods
    BY DEF Init, Methods
  <2>4. /\ logger_initialised \in BOOLEAN /\ server_enabled \in BOOLEAN
        /\ log_file \in Paths \cup {Null} /\ log_file_path \in Paths \cup {Null}
        /\ def_msg_string \in Formats \cup {Null}
        /\ last_callback \in Callbacks \cup {Null, Garbage}
    BY Zenon DEF Init
  <2>5. /\ verbosity_level \in Int /\ log_ret_value \in Int
        /\ server_port \in Int /\ server_pid \in Nat /\ events \in Nat
    BY DEF Init
  <2>6. sockets \subseteq 1 .. PortRange - 1
    BY DEF Init
  <2>7. QED
    BY <2>1, <2>2, <2>3, <2>4, <2>5, <2>6, Zenon DEF TypeOK
<1>2. TypeOK /\ [Next]_vars => TypeOK'
  BY TypeStep
<1>3. QED
  BY <1>1, <1>2, PTL DEF Spec

-----------------------------------------------------------------------------
(* The server can be stopped while it is enabled.                          *)

\* What a step does to the server: every action falls into one of these.
ServerUntouched == UNCHANGED serverVars /\ (logger_initialised => logger_initialised')

ServerStartStep(port) ==
  /\ logger_initialised /\ logger_initialised'
  /\ StartServer(port) \/ StartServerFails(port)

ServerStopStep ==
  \/ StopServer
  \/ UNCHANGED serverVars /\ (~server_enabled \/ ~logger_initialised)

\* All a step can do to the server options, the sockets and the processes.
LEMMA ServerSteps ==
  ASSUME [Next]_vars
  PROVE  \/ ServerUntouched
         \/ \E port \in Int: ServerStartStep(port)
         \/ ServerStopStep
         \/ \E pid \in DOMAIN servers: ServerExits(pid)
<1> USE DEF ServerUntouched, optionVars, serverVars
<1>1. CASE UNCHANGED vars
  BY <1>1 DEF vars
<1>2. ASSUME NEW method \in Methods \cup {Null}, NEW path \in Paths,
             cclogger_init(method, path)
      PROVE  ServerUntouched
  <2>1. logger_initialised' = TRUE \/ logger_initialised' = logger_initialised
    BY <1>2 DEF cclogger_init, MapBuffer
  <2>2. UNCHANGED serverVars
    BY <1>2 DEF cclogger_init, MapBuffer
  <2>3. QED
    BY <2>1, <2>2
<1>3. CASE cclogger_uninit
  BY <1>3 DEF cclogger_uninit, ServerStopStep
<1>4. ASSUME NEW i \in 0 .. Len(log_levels_list), cclog(i)
      PROVE  ServerUntouched
  BY <1>4 DEF cclog, CclogFails, CclogSuppressed, vars
<1>5. ASSUME NEW value \in CallbackReturns, CallbackReturn(value)
      PROVE  ServerUntouched
  BY <1>5 DEF CallbackReturn
<1>6. CASE cclogger_recall_last_callback
  BY <1>6 DEF cclogger_recall_last_callback
<1>7. ASSUME NEW level \in UserLevels, cclogger_add_log_level(level)
      PROVE  ServerUntouched
  BY <1>7 DEF cclogger_add_log_level
<1>8. CASE cclogger_reset_log_levels
  BY <1>8 DEF cclogger_reset_log_levels
<1>9. ASSUME NEW format \in Formats, cclogger_set_default_message_format(format)
      PROVE  ServerUntouched
  BY <1>9 DEF cclogger_set_default_message_format
<1>10. ASSUME NEW verbosity \in Verbosities, cclogger_set_verbosity_level(verbosity)
       PROVE  ServerUntouched
  BY <1>10 DEF cclogger_set_verbosity_level
<1>11. ASSUME NEW path \in ExportPaths, cclogger_export_config_json(path)
       PROVE  ServerUntouched
  BY <1>11 DEF cclogger_export_config_json
<1>12. ASSUME NEW file \in JsonFiles \cup {Null}, cclogger_load_config_json(file)
       PROVE  ServerUntouched \/ \E port \in Int: ServerStartStep(port)
  <2>1. CASE UNCHANGED serverVars
    BY <1>12, <2>1 DEF cclogger_load_config_json
  <2>2. CASE /\ logger_initialised
             /\ \E n \in 0 .. Len(file.levels):
                  \/ /\ file.port \in Int
                     /\ StartServer(file.port) \/ StartServerFails(file.port)
                  \/ UNCHANGED serverVars
    BY <1>12, <2>2 DEF cclogger_load_config_json, ServerStartStep
  <2>3. QED
    BY <1>12, <2>1, <2>2 DEF cclogger_load_config_json, LoadIncomplete, LoadComplete
<1>13. ASSUME NEW port \in Ports, cclogger_server_start(port)
       PROVE  ServerUntouched \/ \E p \in Int: ServerStartStep(p)
  <2>1. port \in Int
    BY ConstantsAssumption
  <2>2. QED
    BY <1>13, <2>1 DEF cclogger_server_start, ServerStartStep
<1>14. CASE cclogger_server_stop
  BY <1>14 DEF cclogger_server_stop, ServerStopStep
<1>15. QED
  BY <1>1, <1>2, <1>3, <1>4, <1>5, <1>6, <1>7, <1>8, <1>9, <1>10, <1>11, <1>12, <1>13,
     <1>14 DEF Next

\* A step keeps the server stoppable.
LEMMA ServerStoppableStep ==
  ASSUME TypeOK, ServerStoppable, [Next]_vars
  PROVE  ServerStoppable'
<1>1. CASE ServerUntouched
  BY <1>1 DEF ServerUntouched, ServerStoppable, serverVars
<1>2. ASSUME NEW port \in Int, ServerStartStep(port)
      PROVE  ServerStoppable'
  <2>1. CASE StartServer(port)
    <3>1. PICK bound \in Bindable(port):
            /\ sockets' = sockets \cup {bound}
            /\ servers' = Append(servers, Forked(bound))
      BY <2>1 DEF StartServer
    <3>2. /\ Len(servers) + 1 \in DOMAIN servers'
          /\ servers'[Len(servers) + 1] = Forked(bound)
      BY <3>1, AppendProperties, LenProperties DEF TypeOK
    <3>3. port % PortRange \in {0, bound}
      BY <3>1 DEF Bindable
    <3>4. QED
      BY <1>2, <2>1, <3>1, <3>2, <3>3 DEF ServerStoppable, ServerStartStep, StartServer, Forked
  <2>2. CASE StartServerFails(port)
    BY <1>2, <2>2 DEF ServerStoppable, ServerStartStep, StartServerFails
  <2>3. QED
    BY <1>2, <2>1, <2>2 DEF ServerStartStep
<1>3. CASE ServerStopStep
  BY <1>3 DEF ServerStopStep, StopServer, ServerStoppable, serverVars
<1>4. ASSUME NEW pid \in DOMAIN servers, ServerExits(pid)
      PROVE  ServerStoppable'
  <2>1. DOMAIN servers' = DOMAIN servers
    BY <1>4 DEF ServerExits
  <2>2. \A p \in DOMAIN servers: p # pid => servers'[p] = servers[p]
    BY <1>4 DEF ServerExits
  <2>3. server_enabled => server_pid # pid
    BY <1>4 DEF ServerExits, ServerStoppable
  <2>4. QED
    BY <1>4, <2>1, <2>2, <2>3 DEF ServerExits, ServerStoppable, optionVars
<1>5. QED
  BY <1>1, <1>2, <1>3, <1>4, ServerSteps

\* Whenever the server is enabled, its recorded pid is a process that runs, was
\* not yet told to stop, and listens on the recorded port: what
\* cclogger_server_stop needs to stop it.
THEOREM ServerAlwaysStoppable == Spec => []ServerStoppable
<1>1. Init => ServerStoppable
  BY DEF Init, ServerStoppable
<1>2. TypeOK /\ ServerStoppable /\ [Next]_vars => ServerStoppable'
  BY ServerStoppableStep
<1>3. QED
  BY <1>1, <1>2, TypeCorrect, PTL DEF Spec

-----------------------------------------------------------------------------
(* The published configuration is the current one.                         *)

\* cclogger_init, without which no server starts, maps a buffer first.
PublishInv ==
  /\ logger_initialised => json_buffers # << >>
  /\ PublishedConfig

\* What is published last is what a reader of the buffer finds.
LEMMA PublishSets ==
  ASSUME NEW buffers \in Buffers, buffers # << >>, NEW config \in ConfigRecord
  PROVE  LET result == Publish(buffers, config)
         IN  result # << >> /\ result[Len(result)] = config
<1>1. Len(buffers) \in 1 .. Len(buffers)
  BY EmptySeq, LenProperties DEF Buffers
<1>2. Len(Publish(buffers, config)) = Len(buffers)
  BY <1>1, ExceptSeq DEF Publish, Buffers
<1>3. Publish(buffers, config)[Len(buffers)] = config
  BY <1>1, ExceptSeq DEF Publish, Buffers
<1>4. QED
  BY <1>1, <1>2, <1>3, EmptySeq

\* A buffer that holds the current configuration satisfies the invariant.
LEMMA CurrentIsPublished ==
  ASSUME TypeOK', json_buffers' # << >>, Published' = Config'
  PROVE  PublishInv'
<1>1. Config' \in ConfigRecord
  BY DEF TypeOK, Config, ConfigRecord
<1>2. Published' # Null
  BY <1>1, ConstantsAssumption
<1>3. [Config' EXCEPT !.levels = log_levels_list'] = Config'
  BY DEF Config
<1>4. QED
  BY <1>2, <1>3 DEF PublishInv, PublishedConfig

\* After a refresh the last buffer holds the options and the levels as they are.
LEMMA RefreshPublishes ==
  ASSUME TypeOK', NEW buffers \in Buffers, Refresh(buffers),
         server_enabled' \/ logger_initialised' => buffers # << >>
  PROVE  PublishInv'
<1>1. CASE server_enabled'
  <2>1. Config' \in ConfigRecord
    BY DEF TypeOK, Config, ConfigRecord
  <2>2. json_buffers' # << >> /\ Published' = Config'
    BY <1>1, <2>1, PublishSets DEF Refresh, Published
  <2>3. QED
    BY <2>2, CurrentIsPublished
<1>2. CASE ~server_enabled'
  BY <1>2 DEF Refresh, PublishInv, PublishedConfig
<1>3. QED
  BY <1>1, <1>2

\* A call that publishes nothing may drop the levels and change nothing else.
LEMMA QuietPublishes ==
  ASSUME TypeOK, PublishInv, logger_initialised' => logger_initialised,
         UNCHANGED <<json_buffers, log_file_path, log_method, def_msg_string,
                     verbosity_level, server_enabled, server_port>>,
         log_levels_list' = log_levels_list \/ log_levels_list' = << >>
  PROVE  PublishInv'
<1>1. CASE ~server_enabled
  BY <1>1 DEF PublishInv, PublishedConfig
<1>2. CASE server_enabled
  <2>1. Published' = Published
    BY DEF Published
  <2>2. Published # Null /\ [Published EXCEPT !.levels = log_levels_list] = Config
    BY <1>2 DEF PublishInv, PublishedConfig
  <2>3. json_buffers # << >>
    BY <1>2 DEF PublishInv, PublishedConfig
  <2>4. CASE log_levels_list' = log_levels_list
    <3>1. Config' = Config
      BY <2>4 DEF Config
    <3>2. QED
      BY <1>2, <2>1, <2>2, <2>3, <2>4, <3>1 DEF PublishInv, PublishedConfig
  <2>5. CASE log_levels_list' = << >>
    <3>1. Published \in ConfigRecord
      <4>1. Len(json_buffers) \in 1 .. Len(json_buffers)
        BY <2>3, EmptySeq, LenProperties DEF TypeOK
      <4>2. QED
        BY <2>2, <4>1, ElementOfSeq DEF Published, TypeOK
    <3>2. Config' = [Config EXCEPT !.levels = << >>]
      BY <2>5 DEF Config
    <3>3. [Published EXCEPT !.levels = << >>] = Config'
      BY <2>2, <3>1, <3>2 DEF ConfigRecord
    <3>4. QED
      BY <2>1, <2>2, <2>3, <2>5, <3>3 DEF PublishInv, PublishedConfig
  <2>6. QED
    BY <2>4, <2>5
<1>3. QED
  BY <1>1, <1>2 DEF TypeOK

\* A load leaves the options published, and the levels unless there are none.
LEMMA LoadPublishStep ==
  ASSUME TypeOK, TypeOK', ServerStoppable, PublishInv,
         NEW file \in JsonFiles \cup {Null}, cclogger_load_config_json(file)
  PROVE  PublishInv'
<1>1. json_buffers \in Buffers /\ (logger_initialised => json_buffers # << >>)
  BY DEF TypeOK, Buffers, PublishInv
<1>2. CASE UNCHANGED <<def_msg_string, verbosity_level, serverVars, log_levels_list,
                       calls, json_buffers>>
  BY <1>2, QuietPublishes DEF cclogger_load_config_json, fileVars, serverVars
<1>3. CASE logger_initialised /\ LoadIncomplete(file)
  BY <1>1, <1>3, RefreshPublishes DEF LoadIncomplete
<1>4. CASE logger_initialised /\ LoadComplete(file)
  <2>1. Config' \in ConfigRecord
    BY DEF TypeOK, Config, ConfigRecord
  <2>2. CASE ~server_enabled'
    BY <1>1, <1>4, <2>2 DEF LoadComplete, LoadPublishes, PublishInv, PublishedConfig
  <2>3. CASE server_enabled' /\ json_buffers' = Publish(json_buffers, Config')
    BY <1>1, <1>4, <2>1, <2>3, PublishSets, CurrentIsPublished DEF Published
  <2>4. CASE /\ server_enabled' /\ log_levels_list' = << >>
             /\ json_buffers' = Publish(json_buffers, [Config' EXCEPT !.levels = log_levels_list])
    <3> DEFINE config == [Config' EXCEPT !.levels = log_levels_list]
    <3>1. config \in ConfigRecord
      BY <2>1 DEF ConfigRecord, TypeOK
    <3>2. json_buffers' # << >> /\ Published' = config
      BY <1>1, <1>4, <2>4, <3>1, PublishSets DEF Published
    <3>3. Published' # Null
      BY <3>1, <3>2, ConstantsAssumption
    <3>4. [config EXCEPT !.levels = << >>] = Config'
      <4>1. Config'.levels = << >>
        BY <2>4 DEF Config
      <4>2. QED
        BY <2>1, <4>1 DEF ConfigRecord
    <3>5. QED
      BY <2>4, <3>2, <3>3, <3>4 DEF PublishInv, PublishedConfig
  <2>5. QED
    BY <1>4, <2>2, <2>3, <2>4 DEF LoadComplete, LoadPublishes
<1>5. QED
  BY <1>2, <1>3, <1>4 DEF cclogger_load_config_json

\* A start of the server leaves the configuration published.
LEMMA ServerStartPublishStep ==
  ASSUME TypeOK, TypeOK', PublishInv, NEW port \in Int, cclogger_server_start(port)
  PROVE  PublishInv'
<1>1. CASE servers' # servers
  <2>1. logger_initialised
    BY <1>1 DEF cclogger_server_start, serverVars
  <2>2. Config' \in ConfigRecord
    BY DEF TypeOK, Config, ConfigRecord
  <2>3. json_buffers' # << >> /\ Published' = Config'
    BY <1>1, <2>1, <2>2, PublishSets
       DEF cclogger_server_start, PublishInv, Published, TypeOK, Buffers
  <2>4. QED
    BY <2>3, CurrentIsPublished
<1>2. CASE servers' = servers
  <2>1. ~StartServer(port)
    <3>1. SUFFICES ASSUME StartServer(port) PROVE FALSE
      OBVIOUS
    <3>2. PICK bound: servers' = Append(servers, Forked(bound))
      BY <3>1 DEF StartServer
    <3>3. Len(servers') = Len(servers) + 1 /\ Len(servers) \in Nat
      BY <3>2, AppendProperties, LenProperties DEF TypeOK
    <3>4. QED
      BY <1>2, <3>3
  <2>2. UNCHANGED <<server_enabled, server_port>>
    BY <2>1 DEF cclogger_server_start, StartServerFails, serverVars
  <2>3. QED
    BY <1>2, <2>2, QuietPublishes DEF cclogger_server_start, optionVars, fileVars
<1>3. QED
  BY <1>1, <1>2

\* A log call leaves the configuration published.
LEMMA CclogPublishStep ==
  ASSUME TypeOK, TypeOK', ServerStoppable, PublishInv, NEW i \in Nat, cclog(i)
  PROVE  PublishInv'
<1>1. /\ json_buffers \in Buffers
      /\ server_enabled \/ logger_initialised => json_buffers # << >>
  BY DEF TypeOK, Buffers, PublishInv, ServerStoppable
<1>2. UNCHANGED <<logger_initialised, server_enabled>>
  BY DEF cclog, CclogFails, CclogSuppressed, vars, optionVars, serverVars
<1>3. CASE Refresh(json_buffers)
  BY <1>1, <1>2, <1>3, RefreshPublishes
<1>4. CASE UNCHANGED json_buffers
  BY <1>4, QuietPublishes DEF cclog, CclogFails, CclogSuppressed, vars, optionVars, fileVars,
                              serverVars
<1>5. QED
  BY <1>3, <1>4 DEF cclog, CclogFails, CclogSuppressed, vars, CclogReturns

\* The return of a callback leaves the configuration published.
LEMMA CallbackReturnPublishStep ==
  ASSUME TypeOK, TypeOK', ServerStoppable, PublishInv, NEW value \in Int,
         CallbackReturn(value)
  PROVE  PublishInv'
<1>1. /\ json_buffers \in Buffers
      /\ server_enabled \/ logger_initialised => json_buffers # << >>
  BY DEF TypeOK, Buffers, PublishInv, ServerStoppable
<1>2. CASE Refresh(json_buffers)
  BY <1>1, <1>2, RefreshPublishes DEF CallbackReturn, optionVars, serverVars
<1>3. CASE UNCHANGED json_buffers
  BY <1>3, QuietPublishes DEF CallbackReturn, optionVars, fileVars, serverVars
<1>4. QED
  BY <1>2, <1>3 DEF CallbackReturn, CclogReturns

\* Every step keeps the configuration published.
LEMMA PublishStep ==
  ASSUME TypeOK, TypeOK', ServerStoppable, PublishInv, [Next]_vars
  PROVE  PublishInv'
<1>0. /\ json_buffers \in Buffers
      /\ server_enabled \/ logger_initialised => json_buffers # << >>
  BY DEF TypeOK, Buffers, PublishInv, ServerStoppable
<1>1. CASE UNCHANGED vars
  BY <1>1, QuietPublishes DEF vars, optionVars, fileVars, serverVars
<1>2. ASSUME NEW method \in Methods \cup {Null}, NEW path \in Paths,
             cclogger_init(method, path)
      PROVE  PublishInv'
  <2>1. Append(json_buffers, Null) \in Buffers /\ Append(json_buffers, Null) # << >>
    BY <1>0, AppendProperties DEF Buffers
  <2>2. QED
    BY <1>2, <2>1, RefreshPublishes DEF cclogger_init, MapBuffer
<1>3. CASE cclogger_uninit
  <2>1. ~server_enabled' /\ ~logger_initialised'
    BY <1>3 DEF cclogger_uninit, StopServer, ServerStoppable, serverVars
  <2>2. QED
    BY <1>0, <1>3, <2>1, RefreshPublishes DEF cclogger_uninit
<1>4. ASSUME NEW i \in 0 .. Len(log_levels_list), cclog(i)
      PROVE  PublishInv'
  BY <1>4, CclogPublishStep
<1>5. ASSUME NEW value \in CallbackReturns, CallbackReturn(value)
      PROVE  PublishInv'
  BY <1>5, CallbackReturnPublishStep, ConstantsAssumption
<1>6. CASE cclogger_recall_last_callback
  BY <1>6, QuietPublishes DEF cclogger_recall_last_callback, optionVars, fileVars, serverVars
<1>7. ASSUME NEW level \in UserLevels, cclogger_add_log_level(level)
      PROVE  PublishInv'
  BY <1>0, <1>7, RefreshPublishes DEF cclogger_add_log_level, optionVars, serverVars
<1>8. CASE cclogger_reset_log_levels
  BY <1>8, QuietPublishes DEF cclogger_reset_log_levels, optionVars, fileVars, serverVars
<1>9. ASSUME NEW format \in Formats, cclogger_set_default_message_format(format)
      PROVE  PublishInv'
  BY <1>0, <1>9, RefreshPublishes DEF cclogger_set_default_message_format, serverVars
<1>10. ASSUME NEW verbosity \in Verbosities, cclogger_set_verbosity_level(verbosity)
       PROVE  PublishInv'
  BY <1>0, <1>10, RefreshPublishes DEF cclogger_set_verbosity_level, serverVars
<1>11. ASSUME NEW path \in ExportPaths, cclogger_export_config_json(path)
       PROVE  PublishInv'
  <2>1. CASE UNCHANGED json_buffers
    BY <1>11, <2>1, QuietPublishes DEF cclogger_export_config_json, optionVars, fileVars,
                                       serverVars
  <2>2. CASE json_buffers' = Publish(json_buffers, Config)
    <3>1. Config' = Config
      BY <1>11 DEF cclogger_export_config_json, Config, optionVars, fileVars, serverVars
    <3>2. Config' \in ConfigRecord
      BY DEF TypeOK, Config, ConfigRecord
    <3>3. json_buffers' # << >> /\ Published' = Config'
      BY <1>0, <1>11, <2>2, <3>1, <3>2, PublishSets
         DEF cclogger_export_config_json, Published
    <3>4. QED
      BY <3>3, CurrentIsPublished
  <2>3. QED
    BY <1>11, <2>1, <2>2 DEF cclogger_export_config_json
<1>12. ASSUME NEW file \in JsonFiles \cup {Null}, cclogger_load_config_json(file)
       PROVE  PublishInv'
  BY <1>12, LoadPublishStep
<1>13. ASSUME NEW port \in Ports, cclogger_server_start(port)
       PROVE  PublishInv'
  BY <1>13, ServerStartPublishStep, ConstantsAssumption
<1>14. CASE cclogger_server_stop
  <2>1. CASE StopServer
    BY <1>14, <2>1 DEF cclogger_server_stop, StopServer, PublishInv, PublishedConfig,
                       optionVars
  <2>2. CASE UNCHANGED serverVars
    BY <1>14, <2>2, QuietPublishes DEF cclogger_server_stop, optionVars, fileVars, serverVars
  <2>3. QED
    BY <1>14, <2>1, <2>2 DEF cclogger_server_stop
<1>15. ASSUME NEW pid \in DOMAIN servers, ServerExits(pid)
       PROVE  PublishInv'
  BY <1>15, QuietPublishes DEF ServerExits, optionVars, fileVars
<1>16. QED
  BY <1>1, <1>2, <1>3, <1>4, <1>5, <1>6, <1>7, <1>8, <1>9, <1>10, <1>11, <1>12, <1>13,
     <1>14, <1>15 DEF Next

\* While the server is enabled, the shared buffer shows the options as they are
\* now, and the levels too unless the list was reset and not yet filled again.
THEOREM ConfigIsPublished == Spec => []PublishedConfig
<1>1. Init => PublishInv
  BY DEF Init, PublishInv, PublishedConfig
<1>2. TypeOK /\ TypeOK' /\ ServerStoppable /\ PublishInv /\ [Next]_vars => PublishInv'
  BY PublishStep
<1>3. PublishInv => PublishedConfig
  BY DEF PublishInv
<1>4. QED
  BY <1>1, <1>2, <1>3, TypeCorrect, ServerAlwaysStoppable, PTL DEF Spec

-----------------------------------------------------------------------------
(* Lines: every line is kept, once, in order.                              *)

\* No stdio buffer holds a line between two calls, here or in a server process:
\* without this a fork would copy the line and the copy would be written too.
LinesInv ==
  /\ stream = << >>
  /\ \A pid \in DOMAIN servers: servers[pid].stream = << >>
  /\ \A sink \in Sinks: \A i \in DOMAIN output[sink]: output[sink][i] <= events
  /\ LinesInOrder

\* A flush of an empty stream changes no file.
LEMMA FlushedNothing ==
  ASSUME TypeOK, NEW file \in Paths \cup {Null}
  PROVE  Flushed(file, << >>) = output
<1>1. CASE file = Null
  BY <1>1 DEF Flushed
<1>2. CASE file # Null
  <2>1. output[file] \in Seq(Nat)
    BY <1>2 DEF TypeOK, Sinks
  <2>2. output[file] \o << >> = output[file]
    BY <2>1, ConcatEmptySeq
  <2>3. QED
    BY <1>2, <2>2 DEF Flushed, TypeOK, Sinks
<1>3. QED
  BY <1>1, <1>2

\* A log call adds its line at the end of the sinks of its level.
LEMMA WrittenLines ==
  ASSUME TypeOK, LinesInv, NEW level \in LogLevel, log_file # Null, CclogWrites(level)
  PROVE  /\ stream' = << >>
         /\ \A sink \in Sinks: \/ output'[sink] = output[sink]
                               \/ output'[sink] = Append(output[sink], events + 1)
         /\ level.to_file => output'[log_file] = Append(output[log_file], events + 1)
<1> DEFINE written == IF level.to_file THEN Flushed(log_file, Append(stream, events + 1))
                      ELSE output
<1>1. log_file \in Paths /\ log_file # Tty /\ log_file \in Sinks /\ Tty \in Sinks
  BY ConstantsAssumption DEF TypeOK, Sinks
<1>2. output[log_file] \o Append(stream, events + 1) = Append(output[log_file], events + 1)
  <2>1. output[log_file] \in Seq(Nat) /\ events + 1 \in Nat
    BY <1>1 DEF TypeOK
  <2>2. Append(stream, events + 1) = << events + 1 >>
    BY DEF LinesInv
  <2>3. QED
    BY <2>1, <2>2, AppendIsConcat
<1>3. /\ written \in [Sinks -> Seq(Nat)]
      /\ level.to_file => written[log_file] = Append(output[log_file], events + 1)
      /\ ~level.to_file => written = output
      /\ \A sink \in Sinks: sink # log_file => written[sink] = output[sink]
  <2>1. events + 1 \in Nat
    BY DEF TypeOK
  <2>2. written \in [Sinks -> Seq(Nat)]
    BY <2>1, AppendProperties, FlushedType DEF TypeOK
  <2>3. QED
    BY <1>1, <1>2, <2>2 DEF Flushed, TypeOK
<1>4. output' = IF level.to_tty THEN [written EXCEPT ![Tty] = Append(@, events + 1)]
                ELSE written
  BY DEF CclogWrites, WriteLine
<1>5. /\ output'[Tty] = output[Tty] \/ output'[Tty] = Append(output[Tty], events + 1)
      /\ \A sink \in Sinks: sink # Tty => output'[sink] = written[sink]
  BY <1>1, <1>3, <1>4
<1>6. stream' = << >>
  BY DEF CclogWrites, WriteLine, LinesInv
<1>7. QED
  BY <1>1, <1>3, <1>5, <1>6

\* All a step can do to the files and to the stream of the log file.
LEMMA OutputSteps ==
  ASSUME TypeOK, LinesInv, [Next]_vars
  PROVE  \/ UNCHANGED <<output, events>> /\ stream' = << >>
         \/ /\ log_file # Null /\ UNCHANGED servers
             /\ \E level \in LogLevel: CclogWrites(level)
         \/ /\ UNCHANGED <<events, servers>> /\ stream' = << >>
            /\ \E path \in ExportPaths: /\ cclogger_export_config_json(path)
                                       /\ output' = Truncated(path)
<1> DEFINE Quiet == UNCHANGED <<output, events>> /\ stream' = << >>
<1> stream = << >>
  BY DEF LinesInv
<1>1. CASE UNCHANGED vars
  BY <1>1 DEF vars, fileVars, outputVars
<1>2. ASSUME NEW method \in Methods \cup {Null}, NEW path \in Paths,
             cclogger_init(method, path)
      PROVE  Quiet
  <2>1. Flushed(log_file, stream) = output
    BY FlushedNothing DEF TypeOK
  <2>2. QED
    BY <1>2, <2>1 DEF cclogger_init, MapBuffer, SetLogFile, fileVars
<1>3. CASE cclogger_uninit
  BY <1>3, FlushedNothing DEF cclogger_uninit, CleanupOpt, TypeOK
<1>4. ASSUME NEW i \in 0 .. Len(log_levels_list), cclog(i)
      PROVE  \/ Quiet
             \/ /\ log_file # Null /\ UNCHANGED servers
                /\ \E level \in LogLevel: CclogWrites(level)
  <2>1. CASE CclogFails \/ CclogSuppressed
    BY <2>1 DEF CclogFails, CclogSuppressed, vars, fileVars, outputVars
  <2>2. CASE /\ i \in DOMAIN log_levels_list /\ log_file # Null
             /\ CclogWrites(log_levels_list[i]) /\ UNCHANGED serverVars
    <3>1. log_levels_list[i] \in LogLevel
      BY <2>2, ElementOfSeq, LenProperties DEF TypeOK
    <3>2. QED
      BY <2>2, <3>1 DEF serverVars
  <2>3. QED
    BY <1>4, <2>1, <2>2 DEF cclog
<1>5. ASSUME NEW value \in CallbackReturns, CallbackReturn(value)
      PROVE  Quiet
  BY <1>5 DEF CallbackReturn, fileVars, outputVars
<1>6. CASE cclogger_recall_last_callback
  BY <1>6 DEF cclogger_recall_last_callback, fileVars, outputVars
<1>7. ASSUME NEW level \in UserLevels, cclogger_add_log_level(level)
      PROVE  Quiet
  BY <1>7 DEF cclogger_add_log_level, fileVars, outputVars
<1>8. CASE cclogger_reset_log_levels
  BY <1>8 DEF cclogger_reset_log_levels, fileVars, outputVars
<1>9. ASSUME NEW format \in Formats, cclogger_set_default_message_format(format)
      PROVE  Quiet
  BY <1>9 DEF cclogger_set_default_message_format, fileVars, outputVars
<1>10. ASSUME NEW verbosity \in Verbosities, cclogger_set_verbosity_level(verbosity)
       PROVE  Quiet
  BY <1>10 DEF cclogger_set_verbosity_level, fileVars, outputVars
<1>11. ASSUME NEW path \in ExportPaths, cclogger_export_config_json(path)
       PROVE  \/ Quiet
             \/ /\ UNCHANGED <<events, servers>> /\ stream' = << >>
                /\ output' = Truncated(path)
  BY <1>11 DEF cclogger_export_config_json, fileVars, serverVars
<1>12. ASSUME NEW file \in JsonFiles \cup {Null}, cclogger_load_config_json(file)
       PROVE  Quiet
  BY <1>12 DEF cclogger_load_config_json, fileVars, outputVars
<1>13. ASSUME NEW port \in Ports, cclogger_server_start(port)
       PROVE  Quiet
  BY <1>13 DEF cclogger_server_start, fileVars, outputVars
<1>14. CASE cclogger_server_stop
  BY <1>14 DEF cclogger_server_stop, fileVars, outputVars
<1>15. ASSUME NEW pid \in DOMAIN servers, ServerExits(pid)
       PROVE  Quiet
  <2>1. servers[pid].file \in Paths \cup {Null}
    <3>1. servers[pid] \in ServerRecord
      BY <1>15, ElementOfSeq, LenProperties DEF TypeOK
    <3>2. QED
      BY <3>1 DEF ServerRecord
  <2>2. QED
    BY <1>15, <2>1, FlushedNothing DEF ServerExits, LinesInv, fileVars
<1>16. QED
  BY <1>1, <1>2, <1>3, <1>4, <1>5, <1>6, <1>7, <1>8, <1>9, <1>10, <1>11, <1>12, <1>13,
     <1>14, <1>15 DEF Next

\* Each step extends each sink by at most the line of a new event, or is an export
\* that empties the sink it is written to.
LEMMA SinkSteps ==
  ASSUME TypeOK, LinesInv, [Next]_vars
  PROVE  /\ stream' = << >>
         /\ \/ UNCHANGED <<output, events>>
            \/ /\ events' = events + 1 /\ UNCHANGED servers
               /\ \A sink \in Sinks: \/ output'[sink] = output[sink]
                                     \/ output'[sink] = Append(output[sink], events + 1)
            \/ /\ UNCHANGED <<events, servers>>
               /\ \A sink \in Sinks: \/ output'[sink] = output[sink]
                                     \/ /\ output'[sink] = << >> /\ sink \in ExportPaths
                                        /\ cclogger_export_config_json(sink)
<1>1. ASSUME NEW path \in ExportPaths, cclogger_export_config_json(path),
             output' = Truncated(path), NEW sink \in Sinks
      PROVE  \/ output'[sink] = output[sink]
             \/ /\ output'[sink] = << >> /\ sink \in ExportPaths
                /\ cclogger_export_config_json(sink)
  BY <1>1 DEF Truncated
<1>2. QED
  BY <1>1, OutputSteps, WrittenLines DEF CclogWrites

\* A server process starts with an empty stream if the application has one.
LEMMA ServerStreams ==
  ASSUME TypeOK, LinesInv, [Next]_vars
  PROVE  \A pid \in DOMAIN servers': servers'[pid].stream = << >>
<1>1. CASE UNCHANGED servers
  BY <1>1 DEF LinesInv
<1>2. CASE StopServer
  <2>1. DOMAIN servers' = DOMAIN servers
    BY <1>2 DEF StopServer
  <2>2. ASSUME NEW pid \in DOMAIN servers PROVE servers'[pid].stream = << >>
    <3>1. servers[pid] \in ServerRecord
      BY <2>2, ElementOfSeq, LenProperties DEF TypeOK
    <3>2. CASE pid = server_pid
      <4>1. PICK status: servers'[pid] = [servers[pid] EXCEPT !.status = status]
        BY <1>2, <2>2, <3>2 DEF StopServer
      <4>2. QED
        BY <2>2, <3>1, <4>1 DEF LinesInv, ServerRecord
    <3>3. CASE pid # server_pid
      BY <1>2, <2>2, <3>3 DEF StopServer, LinesInv
    <3>4. QED
      BY <3>2, <3>3
  <2>3. QED
    BY <2>1, <2>2
<1>3. ASSUME NEW pid \in DOMAIN servers, ServerExits(pid)
      PROVE  \A p \in DOMAIN servers': servers'[p].stream = << >>
  <2>1. DOMAIN servers' = DOMAIN servers
    BY <1>3 DEF ServerExits
  <2>2. servers[pid] \in ServerRecord
    BY <1>3, ElementOfSeq, LenProperties DEF TypeOK
  <2>3. servers'[pid].stream = servers[pid].stream
    BY <1>3, <2>2 DEF ServerExits, ServerRecord
  <2>4. \A p \in DOMAIN servers: p # pid => servers'[p] = servers[p]
    BY <1>3 DEF ServerExits
  <2>5. QED
    BY <2>1, <2>3, <2>4 DEF LinesInv
<1>4. ASSUME NEW port \in Int, StartServer(port)
      PROVE  \A pid \in DOMAIN servers': servers'[pid].stream = << >>
  <2>1. PICK bound: servers' = Append(servers, Forked(bound))
    BY <1>4 DEF StartServer
  <2>2. Forked(bound).stream = << >>
    BY DEF Forked, LinesInv
  <2>3. \A pid \in DOMAIN servers': pid = Len(servers) + 1 \/
          (pid \in DOMAIN servers /\ servers'[pid] = servers[pid])
    BY <2>1, AppendProperties, LenProperties DEF TypeOK
  <2>4. servers'[Len(servers) + 1] = Forked(bound)
    BY <2>1, AppendProperties DEF TypeOK
  <2>5. QED
    BY <2>2, <2>3, <2>4 DEF LinesInv
<1>5. QED
  BY <1>1, <1>2, <1>3, <1>4, ServerSteps
     DEF ServerUntouched, ServerStartStep, ServerStopStep, StartServerFails, serverVars

\* A step keeps the lines in order, and the streams empty.
LEMMA LinesStep ==
  ASSUME TypeOK, LinesInv, [Next]_vars
  PROVE  LinesInv'
<1>1. stream' = << >>
  BY SinkSteps
<1>2. \A pid \in DOMAIN servers': servers'[pid].stream = << >>
  BY ServerStreams
<1>3. CASE UNCHANGED <<output, events>>
  BY <1>1, <1>2, <1>3 DEF LinesInv, LinesInOrder
<1>4. CASE /\ events' = events + 1
           /\ \A sink \in Sinks: \/ output'[sink] = output[sink]
                                 \/ output'[sink] = Append(output[sink], events + 1)
  <2>1. ASSUME NEW sink \in Sinks
        PROVE  /\ \A i \in DOMAIN output'[sink]: output'[sink][i] <= events'
               /\ \A i, j \in DOMAIN output'[sink]:
                    i < j => output'[sink][i] < output'[sink][j]
    <3> DEFINE old == output[sink]
    <3>1. old \in Seq(Nat) /\ events \in Nat
      BY DEF TypeOK
    <3>2. /\ \A i \in 1 .. Len(old): old[i] \in Nat /\ old[i] <= events
          /\ \A i, j \in 1 .. Len(old): i < j => old[i] < old[j]
      BY <3>1, ElementOfSeq, LenProperties DEF LinesInv, LinesInOrder
    <3>3. CASE output'[sink] = old
      <4>1. DOMAIN old = 1 .. Len(old)
        BY <3>1, LenProperties
      <4> HIDE DEF old
      <4>2. \A i \in DOMAIN old: old[i] <= events'
        BY <1>4, <3>1, <3>2, <4>1
      <4>3. QED
        BY <3>2, <3>3, <4>1, <4>2
    <3>4. CASE output'[sink] = Append(old, events + 1)
      <4> DEFINE new == Append(old, events + 1)
      <4>1. /\ DOMAIN new = 1 .. Len(old) + 1 /\ Len(old) \in Nat
            /\ new[Len(old) + 1] = events + 1
            /\ \A i \in 1 .. Len(old): new[i] = old[i]
        BY <3>1, AppendProperties, LenProperties
      <4>2. \A i \in DOMAIN new: i = Len(old) + 1 \/ i \in 1 .. Len(old)
        BY <4>1
      <4> HIDE DEF new, old
      <4>3. \A i \in DOMAIN new: new[i] <= events + 1
        BY <3>1, <3>2, <4>1, <4>2
      <4>4. ASSUME NEW i \in DOMAIN new, NEW j \in DOMAIN new, i < j
            PROVE  new[i] < new[j]
        <5>1. i \in 1 .. Len(old)
          BY <4>1, <4>4
        <5>2. CASE j \in 1 .. Len(old)
          BY <3>2, <4>1, <4>4, <5>1, <5>2
        <5>3. CASE j = Len(old) + 1
          BY <3>1, <3>2, <4>1, <5>1, <5>3
        <5>4. QED
          BY <4>2, <5>2, <5>3
      <4>5. QED
        BY <1>4, <3>4, <4>3, <4>4 DEF new
    <3>5. QED
      BY <1>4, <3>3, <3>4
  <2>2. QED
    BY <1>1, <1>2, <2>1 DEF LinesInv, LinesInOrder
<1>5. CASE /\ UNCHANGED events
           /\ \A sink \in Sinks: output'[sink] = output[sink] \/ output'[sink] = << >>
  BY <1>1, <1>2, <1>5 DEF LinesInv, LinesInOrder
<1>6. QED
  BY <1>3, <1>4, <1>5, SinkSteps

\* Lines are in order and every stream is empty between two calls.
LEMMA LinesInvariant == Spec => []LinesInv
<1>1. Init => LinesInv
  BY DEF Init, LinesInv, LinesInOrder
<1>2. TypeOK /\ LinesInv /\ [Next]_vars => LinesInv'
  BY LinesStep
<1>3. QED
  BY <1>1, <1>2, TypeCorrect, PTL DEF Spec

\* No file and no terminal shows a line twice or out of order, with any number
\* of server processes that were forked from this one and close their copies.
THEOREM LinesAreInOrder == Spec => []LinesInOrder
<1>1. LinesInv => LinesInOrder
  BY DEF LinesInv
<1>2. QED
  BY <1>1, LinesInvariant, PTL

\* No step takes back a line that a sink has, whatever is opened, closed or forked,
\* except that an export to a log leaves nothing of it.
THEOREM LinesAreKept == Spec => LinesKept
<1> DEFINE Kept == \A sink \in Sinks:
                     \/ \A i \in DOMAIN output[sink]:
                          i \in DOMAIN output'[sink] /\ output'[sink][i] = output[sink][i]
                     \/ sink \in ExportPaths /\ cclogger_export_config_json(sink)
<1>1. ASSUME TypeOK, LinesInv, [Next]_vars
      PROVE  Kept
  <2>1. SUFFICES ASSUME NEW sink \in Sinks,
                        ~(sink \in ExportPaths /\ cclogger_export_config_json(sink)),
                        NEW i \in DOMAIN output[sink]
                 PROVE  i \in DOMAIN output'[sink] /\ output'[sink][i] = output[sink][i]
    BY Zenon
  <2>2. output[sink] \in Seq(Nat) /\ events + 1 \in Nat
    BY <1>1 DEF TypeOK
  <2>3. CASE output'[sink] = output[sink]
    BY <2>3
  <2>4. CASE output'[sink] = Append(output[sink], events + 1)
    BY <2>2, <2>4, AppendProperties, LenProperties
  <2>5. QED
    BY <1>1, <2>1, <2>3, <2>4, SinkSteps
<1>2. TypeOK /\ LinesInv /\ [Next]_vars => [Kept]_vars
  BY <1>1
<1>3. QED
  BY <1>2, TypeCorrect, LinesInvariant, PTL DEF Spec, LinesKept

-----------------------------------------------------------------------------
(* What a log call and its callback rely on.                               *)

\* A step keeps the open file and the path of the configuration the same.
LEMMA OpenFileStep ==
  ASSUME TypeOK, OpenFileConsistent, [Next]_vars
  PROVE  OpenFileConsistent'
<1> USE DEF OpenFileConsistent
<1>1. CASE UNCHANGED <<log_file, log_file_path, def_msg_string>>
  BY <1>1
<1>2. ASSUME NEW method \in Methods \cup {Null}, NEW path \in Paths,
             cclogger_init(method, path)
      PROVE  OpenFileConsistent'
  <2>1. def_msg_string' # Null
    BY <1>2, ConstantsAssumption DEF cclogger_init, MapBuffer, InitDefaults
  <2>2. log_file' # Null => log_file' = log_file_path'
    BY <1>2 DEF cclogger_init, MapBuffer, SetLogFile, fileVars
  <2>3. QED
    BY <2>1, <2>2
<1>3. CASE cclogger_uninit
  BY <1>3 DEF cclogger_uninit, CleanupOpt
<1>4. ASSUME NEW i \in 0 .. Len(log_levels_list), cclog(i)
      PROVE  OpenFileConsistent'
  BY <1>4 DEF cclog, CclogFails, CclogSuppressed, vars, optionVars, fileVars
<1>5. ASSUME NEW value \in CallbackReturns, CallbackReturn(value)
      PROVE  OpenFileConsistent'
  BY <1>5 DEF CallbackReturn, optionVars, fileVars
<1>6. ASSUME NEW level \in UserLevels, cclogger_add_log_level(level)
      PROVE  OpenFileConsistent'
  BY <1>6 DEF cclogger_add_log_level, optionVars, fileVars
<1>7. CASE cclogger_recall_last_callback \/ cclogger_reset_log_levels
  BY <1>7 DEF cclogger_recall_last_callback, cclogger_reset_log_levels, optionVars, fileVars
<1>8. ASSUME NEW format \in Formats, cclogger_set_default_message_format(format)
      PROVE  OpenFileConsistent'
  BY <1>8, ConstantsAssumption DEF cclogger_set_default_message_format, fileVars
<1>9. ASSUME NEW verbosity \in Verbosities, cclogger_set_verbosity_level(verbosity)
      PROVE  OpenFileConsistent'
  BY <1>9 DEF cclogger_set_verbosity_level, fileVars
<1>10. ASSUME NEW path \in ExportPaths, cclogger_export_config_json(path)
       PROVE  OpenFileConsistent'
  BY <1>10 DEF cclogger_export_config_json, optionVars, fileVars
<1>11. ASSUME NEW file \in JsonFiles \cup {Null}, cclogger_load_config_json(file)
       PROVE  OpenFileConsistent'
  <2>1. UNCHANGED <<log_file, log_file_path>>
    BY <1>11 DEF cclogger_load_config_json, fileVars
  <2>2. def_msg_string' = def_msg_string \/ (HasFormat(file) /\ def_msg_string' = file.format)
    BY <1>11 DEF cclogger_load_config_json, LoadIncomplete, LoadComplete, LoadOptions
  <2>3. QED
    BY <2>1, <2>2 DEF HasFormat
<1>12. ASSUME NEW port \in Ports, cclogger_server_start(port)
       PROVE  OpenFileConsistent'
  BY <1>12 DEF cclogger_server_start, optionVars, fileVars
<1>13. CASE cclogger_server_stop
  BY <1>13 DEF cclogger_server_stop, optionVars, fileVars
<1>14. ASSUME NEW pid \in DOMAIN servers, ServerExits(pid)
       PROVE  OpenFileConsistent'
  BY <1>14 DEF ServerExits, optionVars, fileVars
<1>15. QED
  BY <1>1, <1>2, <1>3, <1>4, <1>5, <1>6, <1>7, <1>8, <1>9, <1>10, <1>11, <1>12, <1>13,
     <1>14 DEF Next, vars, optionVars, fileVars

\* A log call that finds an open file finds a default format too, and the path
\* the configuration shows is the one of the file that is written.
THEOREM OpenFileIsConsistent == Spec => []OpenFileConsistent
<1>1. Init => OpenFileConsistent
  BY DEF Init, OpenFileConsistent
<1>2. TypeOK /\ OpenFileConsistent /\ [Next]_vars => OpenFileConsistent'
  BY OpenFileStep
<1>3. QED
  BY <1>1, <1>2, TypeCorrect, PTL DEF Spec

\* Every port that a server was given is still bound by the application.
PortsInv == PortsStayTaken /\ \A pid \in DOMAIN servers: servers[pid].port \in sockets

\* A step keeps the ports of all servers bound, and gives a new server another one.
LEMMA PortsStep ==
  ASSUME TypeOK, PortsInv, [Next]_vars
  PROVE  PortsInv'
<1> USE DEF PortsInv, PortsStayTaken
<1>1. CASE UNCHANGED servers /\ sockets \subseteq sockets'
  BY <1>1
<1>2. CASE StopServer
  <2>1. DOMAIN servers' = DOMAIN servers /\ UNCHANGED sockets
    BY <1>2 DEF StopServer
  <2>2. ASSUME NEW pid \in DOMAIN servers
        PROVE  servers'[pid].port = servers[pid].port
    <3>1. servers[pid] \in ServerRecord
      BY <2>2, ElementOfSeq, LenProperties DEF TypeOK
    <3>2. QED
      BY <1>2, <2>2, <3>1 DEF StopServer, ServerRecord
  <2>3. QED
    BY <2>1, <2>2
<1>3. ASSUME NEW pid \in DOMAIN servers, ServerExits(pid)
      PROVE  PortsInv'
  <2>1. DOMAIN servers' = DOMAIN servers /\ UNCHANGED sockets
    BY <1>3 DEF ServerExits
  <2>2. servers[pid] \in ServerRecord
    BY <1>3, ElementOfSeq, LenProperties DEF TypeOK
  <2>3. servers'[pid].port = servers[pid].port
    BY <1>3, <2>2 DEF ServerExits, ServerRecord
  <2>4. \A p \in DOMAIN servers: p # pid => servers'[p] = servers[p]
    BY <1>3 DEF ServerExits
  <2>5. QED
    BY <2>1, <2>3, <2>4
<1>4. ASSUME NEW port \in Int, StartServer(port)
      PROVE  PortsInv'
  <2>1. PICK bound \in Bindable(port): /\ servers' = Append(servers, Forked(bound))
                                       /\ sockets' = sockets \cup {bound}
    BY <1>4 DEF StartServer
  <2>2. bound \notin sockets
    BY <2>1 DEF Bindable, PortsInUse
  <2>3. /\ \A p \in DOMAIN servers': p = Len(servers) + 1 \/
             (p \in DOMAIN servers /\ servers'[p] = servers[p])
        /\ servers'[Len(servers) + 1].port = bound
    BY <2>1, AppendProperties, LenProperties DEF TypeOK, Forked
  <2>4. QED
    BY <2>1, <2>2, <2>3
<1>5. ASSUME NEW port \in Int, StartServerFails(port)
      PROVE  UNCHANGED servers /\ sockets \subseteq sockets'
  BY <1>5 DEF StartServerFails
<1>6. QED
  BY <1>1, <1>2, <1>3, <1>4, <1>5, ServerSteps
     DEF ServerUntouched, ServerStartStep, ServerStopStep, serverVars

\* However ports wrap around 16 bits and however often the server is stopped, has
\* ended and is started again, a port is given to one server only.
THEOREM PortsAreNeverFreed == Spec => []PortsStayTaken
<1>1. Init => PortsInv
  BY DEF Init, PortsInv, PortsStayTaken
<1>2. TypeOK /\ PortsInv /\ [Next]_vars => PortsInv'
  BY PortsStep
<1>3. PortsInv => PortsStayTaken
  BY DEF PortsInv
<1>4. QED
  BY <1>1, <1>2, <1>3, TypeCorrect, PTL DEF Spec

-----------------------------------------------------------------------------
(* The callbacks that run, and the levels they were called for.            *)

\* The list grows at its end.
LevelsExtended ==
  \A i \in DOMAIN log_levels_list:
    i \in DOMAIN log_levels_list' /\ log_levels_list'[i] = log_levels_list[i]

\* A log call on the i-th level suspends itself and runs the callback.
CallbackStarts(i) ==
  /\ i \in DOMAIN log_levels_list /\ log_file # Null
  /\ CclogWrites(log_levels_list[i]) /\ log_levels_list[i].callback # Null
  /\ calls' = Append(calls, Frame(i, events + 1))
  /\ UNCHANGED log_levels_list

RecallStarts ==
  /\ \E frame \in FrameRecord:
       frame.kind = "recall" /\ frame.file = Null /\ calls' = Append(calls, frame)
  /\ UNCHANGED log_levels_list

CallbackEnds ==
  /\ calls # << >> /\ calls' = SubSeq(calls, 1, Len(calls) - 1)
  /\ UNCHANGED log_levels_list

\* All a step can do to the frames and to the levels.
LEMMA CallsSteps ==
  ASSUME TypeOK, [Next]_vars
  PROVE  \/ UNCHANGED calls /\ LevelsExtended
         \/ calls' = FreeLevels(calls)
         \/ \E i \in Nat: CallbackStarts(i)
         \/ RecallStarts
         \/ CallbackEnds
<1> DEFINE Quiet == UNCHANGED calls /\ LevelsExtended
<1>0. UNCHANGED log_levels_list => LevelsExtended
  BY DEF LevelsExtended
<1>1. CASE UNCHANGED vars
  BY <1>0, <1>1 DEF vars
<1>2. ASSUME NEW method \in Methods \cup {Null}, NEW path \in Paths,
             cclogger_init(method, path)
      PROVE  Quiet
  <2>1. log_levels_list \in Seq(LogLevel) /\ DefaultLevels \in Seq(LogLevel)
    BY DEF DefaultLevels, Level, LogLevel, TypeOK
  <2>2. log_levels_list' = log_levels_list \o DefaultLevels /\ UNCHANGED calls
    BY <1>2 DEF cclogger_init, InitDefaults
  <2>3. QED
    BY <2>1, <2>2, ConcatProperties, LenProperties DEF LevelsExtended
<1>3. CASE cclogger_uninit
  BY <1>3 DEF cclogger_uninit
<1>4. ASSUME NEW i \in 0 .. Len(log_levels_list), cclog(i)
      PROVE  Quiet \/ CallbackStarts(i)
  <2>1. CASE CclogFails \/ CclogSuppressed
    BY <1>0, <2>1 DEF CclogFails, CclogSuppressed, vars
  <2>2. QED
    BY <1>0, <1>4, <2>1 DEF cclog, CallbackStarts
<1>5. ASSUME NEW value \in CallbackReturns, CallbackReturn(value)
      PROVE  CallbackEnds
  BY <1>5 DEF CallbackReturn, CallbackEnds
<1>6. CASE cclogger_recall_last_callback
  <2>1. CASE UNCHANGED <<calls, log_levels_list>>
    BY <1>0, <2>1
  <2>2. CASE CanRecall /\ UNCHANGED log_levels_list
             /\ calls' = Append(calls, [kind |-> "recall", index |-> 0,
                                        callback |-> last_callback, freed |-> FALSE,
                                        event |-> 0, file |-> Null])
    BY <2>2 DEF RecallStarts, FrameRecord, CanRecall
  <2>3. QED
    BY <1>6, <2>1, <2>2 DEF cclogger_recall_last_callback
<1>7. ASSUME NEW level \in UserLevels, cclogger_add_log_level(level)
      PROVE  Quiet
  <2>1. level \in LogLevel /\ log_levels_list \in Seq(LogLevel)
    BY <1>7, ConstantsAssumption DEF TypeOK
  <2>2. log_levels_list' = Append(log_levels_list, level) /\ UNCHANGED calls
    BY <1>7 DEF cclogger_add_log_level, AddLevel
  <2>3. QED
    BY <2>1, <2>2, AppendProperties, LenProperties DEF LevelsExtended
<1>8. CASE cclogger_reset_log_levels
  BY <1>8 DEF cclogger_reset_log_levels
<1>9. ASSUME NEW format \in Formats, cclogger_set_default_message_format(format)
      PROVE  Quiet
  BY <1>0, <1>9 DEF cclogger_set_default_message_format
<1>10. ASSUME NEW verbosity \in Verbosities, cclogger_set_verbosity_level(verbosity)
       PROVE  Quiet
  BY <1>0, <1>10 DEF cclogger_set_verbosity_level
<1>11. ASSUME NEW path \in ExportPaths, cclogger_export_config_json(path)
       PROVE  Quiet
  BY <1>0, <1>11 DEF cclogger_export_config_json
<1>12. ASSUME NEW file \in JsonFiles \cup {Null}, cclogger_load_config_json(file)
       PROVE  Quiet \/ calls' = FreeLevels(calls)
  BY <1>0, <1>12 DEF cclogger_load_config_json, LoadIncomplete, LoadComplete
<1>13. ASSUME NEW port \in Ports, cclogger_server_start(port)
       PROVE  Quiet
  BY <1>0, <1>13 DEF cclogger_server_start
<1>14. CASE cclogger_server_stop
  BY <1>0, <1>14 DEF cclogger_server_stop
<1>15. ASSUME NEW pid \in DOMAIN servers, ServerExits(pid)
       PROVE  Quiet
  BY <1>0, <1>15 DEF ServerExits
<1>16. QED
  BY <1>1, <1>2, <1>3, <1>4, <1>5, <1>6, <1>7, <1>8, <1>9, <1>10, <1>11, <1>12, <1>13,
     <1>14, <1>15 DEF Next

\* A stack that grows has the frames it had, and the new one.
LEMMA FramesKept ==
  ASSUME NEW frames \in Seq(FrameRecord), NEW frame \in FrameRecord,
         NEW k \in DOMAIN Append(frames, frame)
  PROVE  \/ k \in DOMAIN frames /\ Append(frames, frame)[k] = frames[k]
         \/ Append(frames, frame)[k] = frame
BY AppendProperties, LenProperties

\* A stack that shrinks keeps the other frames.
LEMMA PoppedFrames ==
  ASSUME NEW frames \in Seq(FrameRecord), frames # << >>,
         NEW k \in DOMAIN SubSeq(frames, 1, Len(frames) - 1)
  PROVE  /\ k \in DOMAIN frames
         /\ SubSeq(frames, 1, Len(frames) - 1)[k] = frames[k]
BY SubSeqProperties, LenProperties, EmptySeq

\* What a log call keeps while its callback runs is well formed.
LEMMA FrameType ==
  ASSUME TypeOK, NEW i \in Nat, CallbackStarts(i)
  PROVE  Frame(i, events + 1) \in FrameRecord
<1>1. log_levels_list[i] \in LogLevel
  BY ElementOfSeq, LenProperties DEF CallbackStarts, TypeOK
<1>2. events + 1 \in Nat /\ log_file \in Paths \cup {Null}
  BY DEF TypeOK
<1>3. QED
  BY <1>1, <1>2 DEF CallbackStarts, Frame, FrameRecord, LogLevel

\* A step keeps the levels of suspended log calls at their index.
LEMMA LevelKeepsIndexStep ==
  ASSUME TypeOK, LevelKeepsIndex, [Next]_vars
  PROVE  LevelKeepsIndex'
<1> USE DEF LevelKeepsIndex
<1>0. calls \in Seq(FrameRecord)
  BY DEF TypeOK
<1>1. CASE UNCHANGED calls /\ LevelsExtended
  BY <1>1 DEF LevelsExtended
<1>2. CASE calls' = FreeLevels(calls)
  <2>1. CASE log_levels_list = << >>
    <3>1. \A k \in DOMAIN calls: ~(calls[k].kind = "cclog" /\ ~calls[k].freed)
      BY <2>1
    <3>2. QED
      BY <1>2, <2>1, <3>1 DEF FreeLevels
  <2>2. CASE log_levels_list # << >>
    <3>1. ASSUME NEW k \in DOMAIN calls' PROVE calls'[k].freed
      <4>1. k \in DOMAIN calls /\ calls[k] \in FrameRecord
        BY <1>0, <1>2, <2>2, ElementOfSeq, LenProperties DEF FreeLevels
      <4>2. calls'[k] = [calls[k] EXCEPT !.freed = TRUE]
        BY <1>2, <2>2, <4>1 DEF FreeLevels
      <4>3. QED
        BY <4>1, <4>2 DEF FrameRecord
    <3>2. QED
      BY <3>1
  <2>3. QED
    BY <2>1, <2>2
<1>3. ASSUME NEW i \in Nat, CallbackStarts(i)
      PROVE  LevelKeepsIndex'
  <2> DEFINE frame == Frame(i, events + 1)
  <2>1. /\ calls' = Append(calls, frame) /\ UNCHANGED log_levels_list
        /\ frame.index = i /\ frame.callback = log_levels_list[i].callback
        /\ i \in DOMAIN log_levels_list
    BY <1>3 DEF CallbackStarts, Frame
  <2>2. frame \in FrameRecord
    BY <1>3, FrameType
  <2> HIDE DEF frame
  <2>3. \A k \in DOMAIN calls': \/ k \in DOMAIN calls /\ calls'[k] = calls[k]
                                \/ calls'[k] = frame
    BY <1>0, <2>1, <2>2, FramesKept
  <2>4. QED
    BY <2>1, <2>3
<1>4. CASE RecallStarts
  BY <1>0, <1>4, FramesKept DEF RecallStarts
<1>5. CASE CallbackEnds
  BY <1>0, <1>5, PoppedFrames DEF CallbackEnds
<1>6. QED
  BY <1>1, <1>2, <1>3, <1>4, <1>5, CallsSteps

\* Until the list is reset, the level whose callback runs is found at its index,
\* whatever the callback adds, loads or logs.
THEOREM LevelsKeepTheirIndex == Spec => []LevelKeepsIndex
<1>1. Init => LevelKeepsIndex
  BY DEF Init, LevelKeepsIndex
<1>2. TypeOK /\ LevelKeepsIndex /\ [Next]_vars => LevelKeepsIndex'
  BY LevelKeepsIndexStep
<1>3. QED
  BY <1>1, <1>2, TypeCorrect, PTL DEF Spec

-----------------------------------------------------------------------------
(* The line of a log call is in the file before its callback runs.         *)

\* A file that has an event keeps it, unless a configuration is exported to it.
LEMMA EventsKept ==
  ASSUME TypeOK, LinesInv, [Next]_vars, NEW file \in Paths \ ExportPaths,
         NEW event \in Nat, \E i \in DOMAIN output[file]: output[file][i] = event
  PROVE  \E i \in DOMAIN output'[file]: output'[file][i] = event
<1>1. output[file] \in Seq(Nat) /\ file \in Sinks /\ events + 1 \in Nat
  BY DEF TypeOK, Sinks
<1>2. CASE output'[file] = output[file]
  BY <1>2
<1>3. CASE output'[file] = Append(output[file], events + 1)
  <2>1. PICK i \in DOMAIN output[file]: output[file][i] = event
    OBVIOUS
  <2>2. /\ Len(output[file]) \in Nat /\ DOMAIN output[file] = 1 .. Len(output[file])
        /\ DOMAIN Append(output[file], events + 1) = 1 .. Len(output[file]) + 1
        /\ Append(output[file], events + 1)[i] = output[file][i]
    BY <1>1, AppendProperties, LenProperties
  <2>3. i \in DOMAIN Append(output[file], events + 1)
    BY <2>2
  <2>4. QED
    BY <1>3, <2>1, <2>2, <2>3
<1>4. \/ output'[file] = output[file]
      \/ output'[file] = Append(output[file], events + 1)
  BY <1>1, SinkSteps
<1>5. QED
  BY <1>2, <1>3, <1>4

\* A step keeps the lines of suspended log calls in their files.
LEMMA CallbackSeesLineStep ==
  ASSUME TypeOK, LinesInv, CallbackSeesLine, [Next]_vars
  PROVE  CallbackSeesLine'
<1> DEFINE Seen(frame) == frame.file \notin ExportPaths \cup {Null} =>
             \E i \in DOMAIN output[frame.file]: output[frame.file][i] = frame.event
           SeenNext(frame) == frame.file \notin ExportPaths \cup {Null} =>
             \E i \in DOMAIN output'[frame.file]: output'[frame.file][i] = frame.event
<1>0. calls \in Seq(FrameRecord)
  BY DEF TypeOK
<1>1. ASSUME NEW k \in DOMAIN calls
      PROVE  calls[k] \in FrameRecord /\ SeenNext(calls[k])
  <2>1. calls[k] \in FrameRecord
    BY <1>0, ElementOfSeq, LenProperties
  <2>2. Seen(calls[k])
    BY DEF CallbackSeesLine
  <2>3. CASE calls[k].file \notin ExportPaths \cup {Null}
    <3>1. calls[k].file \in Paths \ ExportPaths /\ calls[k].event \in Nat
      BY <2>1, <2>3 DEF FrameRecord
    <3>2. QED
      BY <2>1, <2>2, <2>3, <3>1, EventsKept
  <2>4. QED
    BY <2>1, <2>3
<1>2. CASE UNCHANGED calls
  BY <1>1, <1>2 DEF CallbackSeesLine
<1>3. CASE calls' = FreeLevels(calls)
  <2>1. ASSUME NEW k \in DOMAIN calls' PROVE SeenNext(calls'[k])
    <3>1. /\ k \in DOMAIN calls
          /\ calls'[k].file = calls[k].file /\ calls'[k].event = calls[k].event
      BY <1>0, <1>3, FreeLevelsType, LenProperties
    <3>2. QED
      BY <1>1, <3>1
  <2>2. QED
    BY <2>1 DEF CallbackSeesLine
<1>4. ASSUME NEW i \in Nat, CallbackStarts(i)
      PROVE  CallbackSeesLine'
  <2> DEFINE frame == Frame(i, events + 1)
  <2>1. frame \in FrameRecord /\ calls' = Append(calls, frame)
    BY <1>4, FrameType DEF CallbackStarts
  <2>2. SeenNext(frame)
    <3>1. CASE log_levels_list[i].to_file
      <4>1. log_levels_list[i] \in LogLevel
        BY <1>4, ElementOfSeq, LenProperties DEF CallbackStarts, TypeOK
      <4>2. output'[log_file] = Append(output[log_file], events + 1)
        BY <1>4, <3>1, <4>1, WrittenLines DEF CallbackStarts
      <4>3. output[log_file] \in Seq(Nat) /\ events + 1 \in Nat
        BY <1>4 DEF CallbackStarts, TypeOK, Sinks
      <4>4. /\ Len(output[log_file]) + 1 \in DOMAIN output'[log_file]
            /\ output'[log_file][Len(output[log_file]) + 1] = events + 1
        BY <4>2, <4>3, AppendProperties, LenProperties
      <4>5. frame.file = log_file /\ frame.event = events + 1
        BY <3>1 DEF Frame
      <4>6. QED
        BY <4>4, <4>5
    <3>2. CASE ~log_levels_list[i].to_file
      BY <3>2 DEF Frame
    <3>3. QED
      BY <3>1, <3>2
  <2> HIDE DEF frame
  <2>3. \A k \in DOMAIN calls': \/ k \in DOMAIN calls /\ calls'[k] = calls[k]
                                \/ calls'[k] = frame
    BY <1>0, <2>1, FramesKept
  <2>4. QED
    BY <1>1, <2>2, <2>3 DEF CallbackSeesLine
<1>5. CASE RecallStarts
  <2>1. PICK frame \in FrameRecord: frame.file = Null /\ calls' = Append(calls, frame)
    BY <1>5 DEF RecallStarts
  <2>2. \A k \in DOMAIN calls': \/ k \in DOMAIN calls /\ calls'[k] = calls[k]
                                \/ calls'[k] = frame
    BY <1>0, <2>1, FramesKept
  <2>3. QED
    BY <1>1, <2>1, <2>2 DEF CallbackSeesLine
<1>6. CASE CallbackEnds
  <2>1. \A k \in DOMAIN calls': k \in DOMAIN calls /\ calls'[k] = calls[k]
    BY <1>0, <1>6, PoppedFrames DEF CallbackEnds
  <2>2. QED
    BY <1>1, <2>1 DEF CallbackSeesLine
<1>7. QED
  BY <1>2, <1>3, <1>4, <1>5, <1>6, CallsSteps

\* When a callback runs, the line of its log call is already in the file, whatever
\* was opened, closed, forked or logged since, unless the file is one of the exports.
THEOREM CallbacksSeeTheirLine == Spec => []CallbackSeesLine
<1>1. Init => CallbackSeesLine
  BY DEF Init, CallbackSeesLine
<1>2. TypeOK /\ LinesInv /\ CallbackSeesLine /\ [Next]_vars => CallbackSeesLine'
  BY CallbackSeesLineStep
<1>3. QED
  BY <1>1, <1>2, TypeCorrect, LinesInvariant, PTL DEF Spec

=============================================================================
