----------------------------- MODULE SharedConfig -----------------------------
(***************************************************************************)
(* The configuration in the memory that the application and its server     *)
(* share.  The application rewrites json_buffer in place, one call of the  *)
(* builder after another (cclog_json_load_current_config), while children  *)
(* of the server copy it into the response of /config.  Nothing makes one  *)
(* wait for the other.                                                     *)
(*                                                                         *)
(* The reader's strlen is one step, and its strcat copies line by line.    *)
(* Logger publishes in one step; this module says when that is what a      *)
(* reader sees.                                                            *)
(*                                                                         *)
(* sprintf formats each string in a buffer before it becomes a parameter:  *)
(* of MSG_SIZE for those of a level, of BUFSIZ for the others.  A string   *)
(* that is too long overruns it, and nothing the program does then is      *)
(* modelled.                                                               *)
(***************************************************************************)
EXTENDS JsonBuilder

CONSTANTS
  Readers,       \* children of the server that serve /config
  Configs,       \* configurations the application has, one after another
  NoValue,       \* of a call without a value, and of a reader before its first read
  Overlong,      \* values that overrun the buffer they are formatted in
  MaxPublications   \* bound on the publications

Param == [key: ParamNames, value: ParamValues]

\* A configuration: its parameters, those of each of its levels, and whether the
\* server is enabled, at which port.
ConfigRecord ==
  [params: Seq(Param), levels: Seq(Seq(Param)), server: BOOLEAN, port: ParamValues]

ASSUME ConfigsAssumption ==
  Configs \subseteq ConfigRecord /\ Overlong \subseteq ParamValues

VARIABLES
  config,        \* the configuration that is published, or was
  program,       \* the calls of the builder still to be made
  publications,
  page,          \* by reader, where server_mapping_config is
  length,        \* by reader, the Content-Length it has written
  body,          \* by reader, the lines it has copied
  undisturbed    \* readers whose copy no call of the builder has overlapped

writerVars == <<config, program, publications>>
readerVars == <<page, length, body>>
vars == <<builderVars, writerVars, readerVars, undisturbed>>

Publishing == program # <<>>

-----------------------------------------------------------------------------
(* cclog_json_load_current_config.                                         *)

Call(op, key) == [op |-> op, key |-> key, value |-> NoValue]
Parameter(p) == [op |-> "add_parameter", key |-> p.key, value |-> p.value]

ParameterCalls(params) == [i \in DOMAIN params |-> Parameter(params[i])]

\* export_log_level: an object without a name, with the parameters it has.
LevelCalls(level) ==
  << Call("add_object", "log_level") >> \o ParameterCalls(level) \o << Call("end_object", "") >>

\* cclog_llist_foreach(log_levels_list, export_log_level).
LevelsCalls(levels) ==
  LET Calls[n \in 0 .. Len(levels)] ==
        IF n = 0 THEN <<>> ELSE Calls[n - 1] \o LevelCalls(levels[n])
  IN Calls[Len(levels)]

Port(c) == [key |-> "port", value |-> c.port]

\* The calls between cclog_json_start_buffer and cclog_json_end_buffer.
MemberCalls(c) ==
  ParameterCalls(c.params)
    \o << Call("add_array", "log_levels") >>
    \o LevelsCalls(c.levels)
    \o << Call("end_array", "") >>
    \o (IF c.server
        THEN << Call("add_object", "server"), Parameter(Port(c)), Call("end_object", "") >>
        ELSE <<>>)

\* The calls of the builder for a configuration, in their order.
ConfigCalls(c) ==
  << Call("buffer_clear", ""), Call("start_buffer", "") >>
    \o MemberCalls(c) \o << Call("end_buffer", "") >>

\* A parameter that overruns the buffer it is formatted in ends what is modelled.
Execute(call) ==
  \/ call.op = "buffer_clear" /\ cclog_json_buffer_clear
  \/ call.op = "start_buffer" /\ cclog_json_start_buffer
  \/ call.op = "add_object" /\ cclog_json_add_object(call.key)
  \/ call.op = "add_array" /\ cclog_json_add_array(call.key)
  \/ /\ call.op = "add_parameter" /\ call.value \notin Overlong
     /\ cclog_json_add_parameter(call.key, call.value)
  \/ call.op = "end_object" /\ cclog_json_end_object
  \/ call.op = "end_array" /\ cclog_json_end_array
  \/ call.op = "end_buffer" /\ cclog_json_end_buffer

\* The application changes an option, which publishes the configuration: the
\* change, and the first call of the builder.
BeginPublish(c) ==
  /\ ~Publishing /\ publications < MaxPublications
  /\ publications' = publications + 1
  /\ config' = c
  /\ program' = Tail(ConfigCalls(c))
  /\ Execute(Head(ConfigCalls(c)))
  /\ undisturbed' = {}
  /\ UNCHANGED readerVars

PublishStep ==
  /\ Publishing
  /\ program' = Tail(program)
  /\ Execute(Head(program))
  /\ UNCHANGED <<config, publications, readerVars, undisturbed>>

-----------------------------------------------------------------------------
(* server_mapping_config, in a child of the server.                        *)

\* strlen of the buffer, which becomes the Content-Length.
ReadLength(r) ==
  /\ page[r] # "copy"
  /\ page' = [page EXCEPT ![r] = "copy"]
  /\ length' = [length EXCEPT ![r] = Len(json_buffer)]
  /\ body' = [body EXCEPT ![r] = <<>>]
  /\ undisturbed' = IF Publishing THEN undisturbed ELSE undisturbed \cup {r}
  /\ UNCHANGED <<builderVars, writerVars>>

Copied(r) == Len(body[r])

\* Mutant of CopyLine: the copy starts at the second line.
CopyLineLate(r) ==
  /\ page[r] = "copy" /\ Copied(r) + 1 < Len(json_buffer)
  /\ body' = [body EXCEPT ![r] = Append(@, json_buffer[Copied(r) + 2])]
  /\ UNCHANGED <<builderVars, writerVars, page, length, undisturbed>>

\* strcat, up to the end of the text as it is at that time.
CopyLine(r) ==
  /\ page[r] = "copy" /\ Copied(r) < Len(json_buffer)
  /\ body' = [body EXCEPT ![r] = Append(@, json_buffer[Copied(r) + 1])]
  /\ UNCHANGED <<builderVars, writerVars, page, length, undisturbed>>

\* Mutant of CopyEnds: the copy stops a line early.
CopyEndsEarly(r) ==
  /\ page[r] = "copy" /\ Copied(r) + 1 >= Len(json_buffer)
  /\ page' = [page EXCEPT ![r] = "served"]
  /\ undisturbed' = undisturbed \ {r}
  /\ UNCHANGED <<builderVars, writerVars, length, body>>

CopyEnds(r) ==
  /\ page[r] = "copy" /\ Copied(r) >= Len(json_buffer)
  /\ page' = [page EXCEPT ![r] = "served"]
  /\ undisturbed' = undisturbed \ {r}
  /\ UNCHANGED <<builderVars, writerVars, length, body>>

-----------------------------------------------------------------------------
Init ==
  /\ BuilderInit
  /\ config \in Configs /\ program = ConfigCalls(config) /\ publications = 0
  /\ page = [r \in Readers |-> "new"] /\ length = [r \in Readers |-> 0]
  /\ body = [r \in Readers |-> <<>>]
  /\ undisturbed = {}

Next ==
  \/ \E c \in Configs: BeginPublish(c)
  \/ PublishStep
  \/ \E r \in Readers: ReadLength(r) \/ CopyLine(r) \/ CopyEnds(r)

Spec == Init /\ [][Next]_vars

-----------------------------------------------------------------------------
(* The text of a configuration, from its definition.                       *)

Entry(name, text, indent) == [name |-> name, text |-> text, indent |-> indent]

ParameterEntries(params, indent) ==
  [i \in DOMAIN params |-> Entry(params[i].key, params[i].value, indent)]

LevelEntries(level) ==
  << Entry(Unnamed, BraceOpen, 2) >> \o ParameterEntries(level, 3)
    \o << Entry(Unnamed, BraceClose, 2) >>

LevelsEntries(levels) ==
  LET Entries[n \in 0 .. Len(levels)] ==
        IF n = 0 THEN <<>> ELSE Entries[n - 1] \o LevelEntries(levels[n])
  IN Entries[Len(levels)]

MemberEntries(c) ==
  ParameterEntries(c.params, 1)
    \o << Entry("log_levels", BracketOpen, 1) >>
    \o LevelsEntries(c.levels)
    \o << Entry(Unnamed, BracketClose, 1) >>
    \o (IF c.server
        THEN << Entry("server", BraceOpen, 1), Entry("port", c.port, 2),
                Entry(Unnamed, BraceClose, 1) >>
        ELSE <<>>)

ConfigEntries(c) ==
  << Entry(Unnamed, BraceOpen, 0) >> \o MemberEntries(c) \o << Entry(Unnamed, BraceClose, 0) >>

\* The i-th of some entries is the last of its container.
IsLast(E, i) == i < Len(E) /\ E[i + 1].text \in Closers

\* An entry that does not fit its line spoils what follows, unless it only loses the
\* newline and is the last of its container: the closing bracket repairs that.
Spoils(E, i) ==
  LossOf(E[i].text) > 0 /\ ~(LossOf(E[i].text) = 1 /\ IsLast(E, i))

Spoiled(E, i) == \E k \in 1 .. i: Spoils(E, k)

\* A comma ends an entry iff another member of the same container follows; once
\* the text is spoiled, a comma also stays where a container ends.
Comma(E, i) ==
  /\ E[i].text \notin Openers /\ i < Len(E) /\ LossOf(E[i].text) < 2
  /\ ~IsLast(E, i) \/ Spoiled(E, i)

Newline(E, i) ==
  \/ LossOf(E[i].text) = 0
  \/ LossOf(E[i].text) = 1 /\ IsLast(E, i) /\ ~Spoiled(E, i)

\* The document of a configuration.
DocumentOf(c) ==
  LET E == ConfigEntries(c)
  IN [i \in 1 .. Len(E) |-> Line(E[i].name, E[i].text, Comma(E, i), Newline(E, i), E[i].indent)]

Document == [c \in Configs |-> DocumentOf(c)]

-----------------------------------------------------------------------------
(* Properties.                                                             *)

\* Type invariant.
TypeOK ==
  /\ excess \in Nat /\ indent_level \in Nat /\ in_array \in BOOLEAN
  /\ config \in Configs
  /\ page \in [Readers -> {"new", "copy", "served"}]
  /\ length \in [Readers -> Nat]
  /\ undisturbed \subseteq {r \in Readers : page[r] = "copy"}

\* When no publication is under way the buffer holds the document of the current
\* configuration, whatever was in it and in the static variables of the builder
\* before, and its commas are right up to the first line that has lost its newline.
PublishedDocument ==
  ~Publishing => /\ json_buffer = Document[config]
                 /\ CommasRightBefore(json_buffer, FirstCut(json_buffer))

\* A page whose copy no publication has overlapped is exact: its Content-Length
\* is that of the document, and its body a prefix of it, on the way to be all.
QuietPageExact ==
  \A r \in undisturbed:
    /\ length[r] = Len(Document[config])
    /\ body[r] = SubSeq(Document[config], 1, Copied(r))

\* What the mapping promises: the body of /config is a configuration the
\* application has had.
BodyIsConfiguration ==
  \A r \in Readers: page[r] = "served" => \E c \in Configs: body[r] = Document[c]

\* The value of the register is the document, and a page that is served has read
\* its body.
Register == INSTANCE SafeRegister
  WITH Values <- {Document[c] : c \in Configs},
       value <- Document[config], writing <- Publishing,
       reading <- {r \in Readers : page[r] = "copy"}, clean <- undisturbed,
       result <- [r \in Readers |-> IF page[r] = "served" THEN body[r] ELSE NoValue]

\* The memory shared with the server is a safe register, and no more: a page
\* is the current document unless a publication overlapped its copy.
ImplementsRegister == Register!Spec
=============================================================================
