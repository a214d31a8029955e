------------------------------ MODULE MCLogger ------------------------------
(* Values of the constants of Logger for model checking. *)
EXTENDS Logger

CONSTANTS p1, p2, f1, f2, cb1, cb2

UserLevel(to_file, to_tty, callback, format, verbosity) ==
  [to_file |-> to_file, to_tty |-> to_tty, callback |-> callback,
   format |-> format, verbosity |-> verbosity]

\* A level with a callback that every verbosity lets through, and a quiet one
\* that only the default verbosity (10) lets through.
Reporting == UserLevel(TRUE, FALSE, cb1, Null, 0)
Chatty    == UserLevel(FALSE, TRUE, cb2, f1, 9)
Plain     == UserLevel(TRUE, TRUE, Null, f1, 10)
OneLevel  == {Reporting}
TwoLevels == {Reporting, Plain}
NoLevels  == {}

File(format, verbosity, levels, port) ==
  [format |-> format, verbosity |-> verbosity, levels |-> levels, port |-> port]

\* Every exit of cclogger_load_config_json: a parameter that is missing, an
\* object that is malformed after another level, no server, a server.
ServerFiles ==
  { File(Null, 3, << >>, Null), File(f1, Null, << >>, Null),
    File(f1, 10, << >>, Malformed), File(f1, 10, << Plain, Malformed >>, 1),
    File(f1, 10, << Plain >>, 2) }
CallFiles == { File(f2, 3, << Chatty, Malformed >>, Null), File(f1, 3, << >>, Null) }
NoFiles == {}

\* With PortRange 3, port 4 is port 1 and port 3 asks for any port.
OnePort == {1}
SomePorts == {-1, 3, 4}
NoPorts == {}
NoVerbosities == {}
Quiet == {0}
OneReturn == {7}
=============================================================================
