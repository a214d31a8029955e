---------------------------- MODULE MCConfigLoad ----------------------------
(* Values of the constants of ConfigLoad for model checking. *)
EXTENDS ConfigLoad

NumberSymbols == {"0", "5", "8080"}
LetterSymbols == {"a", "b", "]", "}", "{", Quote, Newline}

Mappings ==
  << [name |-> <<"b">>, func |-> "second"], [name |-> <<"a">>, func |-> "first"],
     [name |-> <<"a", "b">>, func |-> "third"] >>

LevelWith(tty, format, callback) ==
  [required |-> <<tty, "true", "0", "5">>, msg_format |-> format, callback |-> callback]

\* Strings of lines that lose their newline, their comma, their quote.
LongestStrings == [def_msg_format |-> 2, msg_format |-> 2, callback |-> 1]
FormattedStrings == [def_msg_format |-> 6, msg_format |-> 5, callback |-> 5]

\* Formats with brackets, and one that is empty; the last two have a string that is
\* too long for its line.
FourLevels ==
  { LevelWith("true", <<"{", "]">>, Mappings[1]), LevelWith("false", <<"}">>, Mappings[2]),
    LevelWith("true", <<>>, Mappings[3]),
    LevelWith("false", <<"a", "}", "b", "a", "a">>, Mappings[2]) }

OptionsWith(format, verbosity, port) == [format |-> format, verbosity |-> verbosity, port |-> port]

\* The last two formats are cut, and overrun their buffer.
ThreeConfigs ==
  { OptionsWith(<<"}", "b">>, "5", "8080"), OptionsWith(<<"a", Quote, "b">>, "0", Null),
    OptionsWith(<<"a", "a", "a", "a", "a", "a", "a">>, "0", Null) }
DefaultOptions == OptionsWith(<<"a">>, "8080", Null)

EarlierParams == { Param("number", "5") }
=============================================================================
