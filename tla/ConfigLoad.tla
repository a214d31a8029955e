----------------------------- MODULE ConfigLoad -----------------------------
(***************************************************************************)
(* A configuration that is exported to a file, perhaps cut short, and      *)
(* loaded from it: cclogger_export_config_json, and the steps of           *)
(* cclogger_load_config_json with the reader it calls, the list it fills   *)
(* and the memory it allocates and frees.                                  *)
(*                                                                         *)
(* Logger takes what a file holds as given; this module says what a load   *)
(* makes of an exported file.  The load runs in one thread and calls       *)
(* nothing back, so its steps are interleaved with nothing.  Undefined     *)
(* behaviour ends the model at a pc that names it.                         *)
(*                                                                         *)
(* The lines of strings are cut where BUFF_SIZE ends.  All others fit (the *)
(* path of the log too), and the text stays below JSON_BUFF_SIZE.          *)
(***************************************************************************)
EXTENDS JsonReader, LinkedList

CONSTANTS
  Letters,       \* symbols of strings
  Longest,       \* by key, the longest string whose line fits BUFF_SIZE
  Formatted,     \* by key, the longest string that fits the buffer it is formatted in
  UserLevels,    \* levels the application adds
  cb_mappings,   \* its callbacks: a sequence of records of a name and a function
  Configs,       \* its other options
  DefaultConfig, \* the options after cclogger_init
  Leftovers      \* what an earlier load may leave in the static parameter

VARIABLES
  config,        \* format, verbosity and port of the options; port Null: no server
  file,          \* the text that was exported, Null before that
  saved,         \* the options and levels it was exported from
  pc,            \* "idle", what the load does next, or how the program fails
  rv,            \* the static parameter of cclog_json_get_param
  array,         \* the text of log_levels
  index,         \* of the object in it
  dangling,      \* which of msg_format and cb_map point to freed strings
  allocated,     \* buffers on the heap that a load has allocated
  outcome        \* "none", "loaded" or "failed"

loadVars == <<pc, rv, array, index, dangling, allocated, outcome>>
vars == <<listVars, config, file, saved, loadVars>>

String == Seq(Letters)

\* The parameters every level must have, in the order they are read.
Required ==
  << [key |-> "log_to_tty", type |-> "boolean"], [key |-> "log_to_file", type |-> "boolean"],
     [key |-> "color", type |-> "number"], [key |-> "verbosity", type |-> "number"] >>

LevelOf(strings) ==
  [required: Booleans \X Booleans \X Numbers \X Numbers, msg_format: strings \cup {Null},
   callback: {cb_mappings[i] : i \in DOMAIN cb_mappings} \cup {Null}]

OptionsOf(strings) ==
  [format: strings, verbosity: Numbers, port: Numbers \cup {Null}]

\* What the application sets.
Level == LevelOf(String)
Options == OptionsOf(String)

\* What can stand in a text.
Symbols ==
  Letters \cup Keys \cup Numbers \cup Booleans
    \cup {Quote, Newline, Blank, Comma, "0", BraceOpen, BraceClose, BracketOpen, BracketClose}

\* The strings of a load may be any parts of a text.
Text == Seq(Symbols)

\* What the static parameter can hold.  The value of a string may be NULL.
Params ==
  [type: {"string"}, value: Text \cup {Null}]
    \cup [type: {"number"}, value: Numbers] \cup [type: {"boolean"}, value: Booleans]

\* A key with its quotes is no letter of a string, and a number is no other symbol.
ASSUME SymbolAssumption ==
  /\ Letters \cap Keys = {} /\ Numbers \cap (Keys \cup Booleans) = {}
  /\ Numbers \cap
       {Quote, Newline, Comma, BraceOpen, BraceClose, BracketOpen, BracketClose} = {}

\* Keys of parameters that are strings of any length.
StringKeys == {"def_msg_format", "msg_format", "callback"}

ASSUME SizeAssumption == {Longest, Formatted} \subseteq [StringKeys -> Nat]

\* NULL is no place, text or parameter.  BUFSIZ has place for a server with its port.
ASSUME ReaderAssumption ==
  /\ Missing \notin Nat /\ Missing \notin Seq(Symbols) /\ Missing \notin Params
  /\ Null \notin Seq(Symbols)
  /\ Capacity \in Nat /\ Capacity >= 6

ASSUME ApplicationAssumption ==
  /\ UserLevels \subseteq Level /\ Configs \subseteq Options /\ DefaultConfig \in Options
  /\ Len(cb_mappings) \in Nat /\ DOMAIN cb_mappings = 1 .. Len(cb_mappings)
  /\ \A i \in DOMAIN cb_mappings: cb_mappings[i].name \in String
  /\ Leftovers \subseteq Params

-----------------------------------------------------------------------------
(* json.c while it builds a text: the text, and by how much                *)
(* json_buffer_lenght is more than its length (of a line that was cut      *)
(* before it was indented it is at least two, and more is the same).       *)

\* What fits of a line.
Fitting(line) ==
  IF line[1] \in StringKeys /\ Longest[line[1]] + 5 < Len(line)
  THEN SubSeq(line, 1, Longest[line[1]] + 5) ELSE line

\* write_buffer_indent.
Write(b, line) ==
  LET glued == b.text # <<>> /\ b.text[Len(b.text)] # Newline
  IN [text |-> (IF glued THEN Append(b.text, Blank) ELSE b.text) \o Fitting(line),
      lost |-> b.lost + Len(line) - Len(Fitting(line))]

\* buffer_remove_last_coma looks two characters before json_buffer_lenght.
RemoveLastComa(b) ==
  LET place == Len(b.text) + b.lost - 1
  IN IF place \in DOMAIN b.text /\ b.text[place] = Comma
     THEN [text |-> Append(SubSeq(b.text, 1, place - 1), Newline), lost |-> 0]
     ELSE b

\* cclog_json_add_parameter, one after another.
AddParameters(b, params) ==
  LET after[n \in 0 .. Len(params)] ==
        IF n = 0 THEN b ELSE Write(after[n - 1], params[n] \o << Comma, Newline >>)
  IN after[Len(params)]

\* cclog_json_end_object and cclog_json_end_array.
End(b, bracket) == Write(RemoveLastComa(b), << bracket, Comma, Newline >>)

-----------------------------------------------------------------------------
(* Export: cclog_json_load_current_config and export_log_level.            *)

QuotedText(string) == << Quote >> \o string \o << Quote >>

\* Strings are written as they are: quotes in them are not escaped.
LevelParams(level) ==
  [n \in DOMAIN Required |-> << Required[n].key, level.required[n] >>]
    \o (IF level.msg_format = Null THEN <<>>
        ELSE << << "msg_format" >> \o QuotedText(level.msg_format) >>)
    \o (IF level.callback = Null THEN <<>>
        ELSE << << "callback" >> \o QuotedText(level.callback.name) >>)

OptionParams(options) ==
  << << "log_file_path" >> \o QuotedText(<<>>), << "log_method", "0" >>,
     << "def_msg_format" >> \o QuotedText(options.format),
     << "logger_verbosity", options.verbosity >> >>

export_log_level(b, level) ==
  End(AddParameters(Write(b, << BraceOpen, Newline >>), LevelParams(level)), BraceClose)

AddLevels(b, exported) ==
  LET after[n \in 0 .. Len(exported)] ==
        IF n = 0 THEN b ELSE export_log_level(after[n - 1], exported[n])
  IN after[Len(exported)]

AddServer(b, port) ==
  IF port = Null THEN b
  ELSE End(AddParameters(Write(b, << "server", BraceOpen, Newline >>), << << "port", port >> >>),
           BraceClose)

\* The text in json_buffer after cclog_json_load_current_config.
Exported(options, exported) ==
  LET start == Write([text |-> <<>>, lost |-> 0], << BraceOpen, Newline >>)
      params == AddParameters(start, OptionParams(options))
      array_ == AddLevels(Write(params, << "log_levels", BracketOpen, Newline >>), exported)
      server == AddServer(End(array_, BracketClose), options.port)
  IN Write(RemoveLastComa(server), << BraceClose, Newline >>).text

\* The lengths of strings by their keys are within some sizes.
Within(sizes, options, exported) ==
  /\ Len(options.format) <= sizes["def_msg_format"]
  /\ \A k \in DOMAIN exported:
       /\ exported[k].msg_format # Null => Len(exported[k].msg_format) <= sizes["msg_format"]
       /\ exported[k].callback # Null => Len(exported[k].callback.name) <= sizes["callback"]

\* The file holds the first n symbols: all, unless the disk is full or the
\* application ends during the export.  sprintf overruns its buffer with a string
\* that is too long.
cclogger_export_config_json ==
  /\ pc = "idle" /\ file = Null
  /\ IF Within(Formatted, config, cclog_llist_foreach)
     THEN /\ saved' = [options |-> config, levels |-> cclog_llist_foreach]
          /\ LET text == Exported(config, cclog_llist_foreach)
             IN \E n \in 0 .. Len(text): file' = SubSeq(text, 1, n)
          /\ UNCHANGED loadVars
     ELSE /\ pc' = "overrun"
          /\ UNCHANGED <<file, saved, rv, array, index, dangling, allocated, outcome>>
  /\ UNCHANGED <<listVars, config>>

-----------------------------------------------------------------------------
(* The application before the load.                                        *)

AppAddsLevel ==
  /\ pc = "idle" /\ file = Null
  /\ \E level \in UserLevels: AddLevel(level)
  /\ UNCHANGED <<config, file, saved, loadVars>>

\* Another process finds the file, after its cclogger_init.
Restart ==
  /\ pc = "idle" /\ file # Null /\ outcome = "none"
  /\ config' = DefaultConfig
  /\ heap' = [address \in {} |-> Node(Null)] /\ list' = Null
  /\ rv' = Param("string", Null)
  /\ UNCHANGED <<file, saved, pc, array, index, dangling, allocated, outcome>>

-----------------------------------------------------------------------------
(* The load.                                                               *)

\* Mutant of Ends: the file buffer is kept.
EndsWithBuffer(result, kept) ==
  pc' = "idle" /\ outcome' = result /\ allocated' = kept

\* The exit label of cclogger_load_config_json.
Ends(result, kept) ==
  pc' = "idle" /\ outcome' = result /\ allocated' = kept \ {"file"}

Fails == Ends("failed", allocated)

BeginLoad ==
  /\ pc = "idle" /\ file # Null /\ outcome = "none"
  /\ pc' = "format" /\ allocated' = {"file"}
  /\ UNCHANGED <<listVars, config, file, saved, rv, array, index, dangling, outcome>>

\* The type of the parameter is not looked at: the bytes of a number are used
\* as a pointer, which may be NULL.
LoadFormat ==
  /\ pc = "format"
  /\ LET param == cclog_json_get_param(file, "def_msg_format", rv)
     IN /\ rv' = IF param = Missing THEN rv ELSE param
        /\ \/ /\ param = Missing
              /\ Fails /\ UNCHANGED config
           \/ /\ param # Missing /\ param.type = "string" /\ param.value # Null
              /\ config' = [config EXCEPT !.format = param.value]
              /\ pc' = "verbosity" /\ UNCHANGED <<allocated, outcome>>
           \/ /\ param # Missing /\ (param.type # "string" \/ param.value = Null)
              /\ Fails /\ UNCHANGED config
           \/ /\ param # Missing /\ param.type # "string"
              /\ pc' = "wild_pointer" /\ UNCHANGED <<allocated, outcome, config>>
  /\ UNCHANGED <<listVars, file, saved, array, index, dangling>>

LoadVerbosity ==
  /\ pc = "verbosity"
  /\ LET param == cclog_json_get_param(file, "logger_verbosity", rv)
     IN /\ rv' = IF param = Missing THEN rv ELSE param
        /\ \/ /\ param = Missing
              /\ Fails /\ UNCHANGED config
           \/ /\ param # Missing
              /\ \E number \in IF param.type = "number" THEN {param.value} ELSE Numbers:
                   config' = [config EXCEPT !.verbosity = number]
              /\ pc' = "array" /\ UNCHANGED <<allocated, outcome>>
  /\ UNCHANGED <<listVars, file, saved, array, index, dangling>>

LoadArray ==
  /\ pc = "array"
  /\ LET log_levels == cclog_json_get_array(file, "log_levels")
     IN \/ /\ log_levels = Missing
           /\ Fails /\ UNCHANGED <<listVars, array>>
        \/ /\ log_levels # Missing
           /\ array' = log_levels /\ allocated' = allocated \cup {"log_levels"}
           /\ cclogger_reset_log_levels
           /\ pc' = "levels" /\ UNCHANGED outcome
  /\ UNCHANGED <<config, file, saved, rv, index, dangling>>

HasType(param, type) == param # Missing /\ param.type = type

\* Mutant of RequiredParams: nothing is checked, and the static parameter is used
\* whether the key was found or not.
RequiredUnchecked(object) ==
  LET param[n \in 0 .. Len(Required)] ==
        IF n = 0 THEN rv
        ELSE LET found == cclog_json_get_param(object, Required[n].key, param[n - 1])
             IN IF found = Missing THEN param[n - 1] ELSE found
  IN param

\* The required parameters of an object, with what the static parameter holds
\* before; Missing from the first that is not there or has another type.
RequiredParams(object) ==
  LET param[n \in 0 .. Len(Required)] ==
        IF n = 0 THEN rv
        ELSE IF param[n - 1] = Missing THEN Missing
        ELSE LET found == cclog_json_get_param(object, Required[n].key, param[n - 1])
             IN IF HasType(found, Required[n].type) THEN found ELSE Missing
  IN param

get_mapping_from_name(name) ==
  IF \E i \in DOMAIN cb_mappings: cb_mappings[i].name = name
  THEN cb_mappings[CHOOSE i \in DOMAIN cb_mappings:
         /\ cb_mappings[i].name = name
         /\ \A j \in 1 .. i - 1: cb_mappings[j].name # name]
  ELSE Null

StringOf(param) == IF param = Missing THEN Null ELSE param.value

\* The error label of json_load_log_levels frees both strings if their pointers
\* are not NULL.  The text of log_levels is lost.
LevelFails(pointers) ==
  /\ rv' \in Leftovers
  /\ \/ pointers = {} /\ Fails
     \/ pointers # {} /\ pc' = "double_free" /\ UNCHANGED <<allocated, outcome>>
  /\ UNCHANGED <<index, dangling>>

\* The pointers are those of the level before until msg_format and callback
\* are read.
LoadLevel ==
  LET object == cclog_json_get_object_from_array(array, index)
      required == RequiredParams(object)
      last == required[Len(Required)]
      format == cclog_json_get_param(object, "msg_format", last)
      callback == cclog_json_get_param(object, "callback",
                                       IF format = Missing THEN last ELSE format)
      Optional(param) == param # Missing => param.type = "string"
  IN /\ pc = "levels" /\ object # Missing /\ object # <<>>
     /\ \/ /\ last = Missing
           /\ LevelFails(dangling) /\ UNCHANGED listVars
        \/ /\ last # Missing /\ ~Optional(format)
           /\ LevelFails(dangling) /\ UNCHANGED listVars
        \/ /\ last # Missing /\ Optional(format) /\ ~Optional(callback)
           /\ LevelFails(dangling \ {"msg_format"}) /\ UNCHANGED listVars
        \/ /\ last # Missing /\ Optional(format) /\ Optional(callback)
           /\ AddLevel([required |-> [n \in DOMAIN Required |-> required[n].value],
                        msg_format |-> StringOf(format),
                        callback |-> get_mapping_from_name(StringOf(callback))])
           /\ dangling' = {p \in {"msg_format", "cb_map"} :
                             IF p = "msg_format" THEN format # Missing ELSE callback # Missing}
           /\ index' = index + 1
           /\ rv' = IF callback # Missing THEN callback
                    ELSE IF format # Missing THEN format ELSE last
           /\ UNCHANGED <<pc, allocated, outcome>>
     /\ UNCHANGED <<config, file, saved, array>>

LevelsEnd ==
  /\ pc = "levels"
  /\ cclog_json_get_object_from_array(array, index) \in {Missing, <<>>}
  /\ pc' = "server" /\ allocated' = allocated \ {"log_levels"}
  /\ UNCHANGED <<listVars, config, file, saved, rv, array, index, dangling, outcome>>

\* Without a port the text of the server is lost.  cclogger_server_start may fail.
LoadServer ==
  /\ pc = "server"
  /\ LET server == cclog_json_get_object(file, "server")
         port == IF server = Missing THEN Missing
                 ELSE cclog_json_get_param(server, "port", rv)
     IN /\ rv' = IF port = Missing THEN rv ELSE port
        /\ \/ /\ server = Missing
              /\ Ends("loaded", allocated) /\ UNCHANGED config
           \/ /\ server # Missing /\ ~HasType(port, "number")
              /\ Ends("failed", allocated \cup {"server"}) /\ UNCHANGED config
           \/ /\ server # Missing /\ HasType(port, "number")
              /\ config' = [config EXCEPT !.port = port.value]
              /\ Ends("loaded", allocated)
           \/ /\ server # Missing /\ HasType(port, "number")
              /\ Fails /\ UNCHANGED config
  /\ UNCHANGED <<listVars, file, saved, array, index, dangling>>

-----------------------------------------------------------------------------
Init ==
  /\ ListInit
  /\ config \in Configs
  /\ file = Null /\ saved = Null
  /\ pc = "idle" /\ rv \in Leftovers /\ array = Null /\ index = 0
  /\ dangling = {} /\ allocated = {} /\ outcome = "none"

Next ==
  \/ AppAddsLevel \/ cclogger_export_config_json \/ Restart
  \/ BeginLoad \/ LoadFormat \/ LoadVerbosity \/ LoadArray \/ LoadLevel \/ LevelsEnd
  \/ LoadServer

Spec == Init /\ [][Next]_vars

-----------------------------------------------------------------------------
(* Properties.                                                             *)

levels == cclog_llist_foreach

Names(c) ==
  {c.levels[k].callback.name : k \in {j \in DOMAIN c.levels : c.levels[j].callback # Null}}

Strings(c) ==
  (({c.options.format} \cup {c.levels[k].msg_format : k \in DOMAIN c.levels}) \ {Null})
    \cup Names(c)

\* A JSON text with every line whole, and no comma behind the last member.
Members(texts) ==
  LET first[n \in 0 .. Len(texts)] ==
        IF n = 0 THEN <<>>
        ELSE first[n - 1] \o texts[n]
               \o (IF n < Len(texts) THEN << Comma, Newline >> ELSE << Newline >>)
  IN first[Len(texts)]

Object(members) == << BraceOpen, Newline >> \o Members(members) \o << BraceClose >>
Array(objects)  == << BracketOpen, Newline >> \o Members(objects) \o << BracketClose >>

LevelText(level) == Object(LevelParams(level))

Document(options, exported) ==
  Object(
    OptionParams(options)
      \o << << "log_levels" >> \o Array([k \in DOMAIN exported |-> LevelText(exported[k])]) >>
      \o (IF options.port = Null THEN <<>>
          ELSE << << "server" >> \o Object(<< << "port", options.port >> >>) >>))
    \o << Newline >>

Holds(string, symbol) == \E i \in DOMAIN string: string[i] = symbol

\* No string has a quote or a line end or is too long for its line, and each
\* callback is the one of its name.
Plain(c) ==
  /\ Within(Longest, c.options, c.levels)
  /\ \A string \in Strings(c): ~Holds(string, Quote) /\ ~Holds(string, Newline)
  /\ \A k \in DOMAIN c.levels: c.levels[k].callback # Null =>
       /\ c.levels[k].callback.name # <<>>
       /\ get_mapping_from_name(c.levels[k].callback.name) = c.levels[k].callback

\* Type invariant: the copy of an array fits its buffer, with the end symbol.
TypeOK ==
  /\ config \in OptionsOf(Text)
  /\ levels \in Seq(LevelOf(Text))
  /\ allocated \subseteq {"file", "log_levels", "server"}
  /\ outcome \in {"none", "loaded", "failed"}
  /\ index \in Nat /\ (array # Null => Len(array) <= Capacity + 1)

\* An exported file that is whole gives back the options and the levels, whatever
\* brackets the formats hold, unless a string is empty, has a quote or a line end or
\* is too long for its line, or the levels are longer than the buffer of the reader.
RoundTrip ==
  LET text == Array([k \in DOMAIN saved.levels |-> LevelText(saved.levels[k])])
      readable == /\ Plain(saved) /\ \A string \in Strings(saved): string # <<>>
                  /\ Len(text) <= Capacity
  IN outcome # "none" /\ readable /\ file = Exported(saved.options, saved.levels) =>
       /\ config.format = saved.options.format
       /\ config.verbosity = saved.options.verbosity
       /\ levels = saved.levels
       /\ IF outcome = "loaded"
          THEN saved.options.port # Null => config.port = saved.options.port
          ELSE saved.options.port # Null

\* A load of a file that is cut short, or is longer than the reader's buffer, but
\* has every line whole, gives the first levels that were exported; only the last of
\* them may differ, in its verbosity (which may be its color, left in the static
\* parameter), its format and its callback.
DamageIsLast ==
  array # Null /\ Plain(saved) =>
    \A k \in DOMAIN levels:
      /\ k \in DOMAIN saved.levels
      /\ \A n \in 1 .. 3: levels[k].required[n] = saved.levels[k].required[n]
      /\ k < Len(levels) => levels[k] = saved.levels[k]

\* A load that succeeds leaves nothing on the heap but the levels; one that fails
\* loses the text of the levels or of the server, and never the file buffer.
BuffersFreed ==
  pc = "idle" =>
    IF outcome = "failed" THEN allocated \in {{}, {"log_levels"}, {"server"}}
    ELSE allocated = {}

\* The nodes on the heap are those of the list, and num_of_entries counts them.
NoNodeLost ==
  /\ DOMAIN heap = Reachable
  /\ list # Null => list.num_of_entries = Cardinality(Reachable)

Levels == INSTANCE LevelList

\* The linked list is the sequence of levels that the logger takes it for.
ImplementsLevelList == Levels!Spec

-----------------------------------------------------------------------------
(* What the comments say, and the code does not do.                        *)

\* The buffers of a level are freed once.
FreedOnce == pc # "double_free"
=============================================================================
