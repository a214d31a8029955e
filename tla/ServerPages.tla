----------------------------- MODULE ServerPages -----------------------------
(***************************************************************************)
(* A child of the server that answers one request for a page of logs,      *)
(* while the application goes on logging: build_response, the page of one  *)
(* log and the list of logs.  SharedConfig has the page /config.           *)
(*                                                                         *)
(* Logs only grow, so the bytes of a log are the numbers from 1 to its     *)
(* size: no configuration is exported over one that is read.  The header   *)
(* and the heading of a page are shorter than BUFSIZ.  Memory allocation   *)
(* does not fail.                                                          *)
(***************************************************************************)
EXTENDS Naturals, SequencesExt

CONSTANTS
  Null,
  Empty,         \* what follows "?entry=" when nothing does
  Logs,          \* names of files the application logs to
  Bare,          \* those the application opened by a path without '/'
  Others,        \* names of other files in their directory, without ".log"
  LinkLength,    \* by name, the length of the link to it in the list
  BUFSIZ,
  MaxSize        \* bound on the size of a log

Names == Logs \cup Others
Multiple == "LOGGING_MULTIPLE_FILES"
Single == "LOGGING_SINGLE_FILE"

ASSUME PagesAssumption ==
  /\ Logs \cap Others = {} /\ Null \notin Names /\ Empty \notin Names \cup {Null}
  /\ BUFSIZ \in Nat \ {0} /\ MaxSize \in Nat
  /\ LinkLength \in [Names -> 1 .. BUFSIZ - 1]

VARIABLES
  directory,   \* by name, the size of each file that exists
  log_method,  \* the option, and the file that is open: what the fork has copied
  log_file_path,
  request,     \* the mapping asked for, and the entry named in it
  pc,          \* "request", "read", "list", "overrun", "no answer", or the page
  path,        \* the file that the page shows, Null when open failed
  data,        \* file_data or file_list: bytes of a log, or names of the links
  bytes,       \* how many bytes it has
  size,        \* what is allocated for it
  content_length,
  found,       \* the files there were when the directory was opened
  found_size   \* the size of the log when it was opened

optionVars == <<log_method, log_file_path>>
childVars == <<request, pc, path, data, bytes, size, content_length,
             found, found_size>>
vars == <<directory, optionVars, childVars>>

Existing == DOMAIN directory
Size(name) == IF name \in Existing THEN directory[name] ELSE 0
Request == [map: {"/", "/log", "/unknown"}, entry: Names \cup {Empty, Null}]

-----------------------------------------------------------------------------
(* The application.                                                        *)

LogGrows ==
  /\ \E log \in Logs \cap Existing:
       /\ directory[log] < MaxSize
       /\ directory' = [directory EXCEPT ![log] = @ + 1]
  /\ UNCHANGED <<optionVars, childVars>>

NewLog ==
  /\ log_method = Multiple
  /\ \E log \in Logs \ Existing:
       directory' = [name \in Existing \cup {log} |-> IF name = log THEN 0 ELSE directory[name]]
  /\ UNCHANGED <<optionVars, childVars>>

-----------------------------------------------------------------------------
(* build_response, server_mapping_log.                                     *)

IsPage(page, length) ==
  /\ pc' = page /\ content_length' = length
  /\ UNCHANGED <<path, data, bytes, size, found, found_size>>

\* A mapping that returns NULL: the child ends and the client gets no answer.
NoAnswer ==
  /\ pc' = "no answer"
  /\ UNCHANGED <<path, data, bytes, size, content_length, found, found_size>>

\* open does not give 0 when it fails, so the test of the descriptor passes, and
\* a log that cannot be opened is read like an empty one.
OpensLog(name) ==
  /\ pc' = "read" /\ size' = BUFSIZ + 1
  /\ path' \in {Null} \cup ({name} \cap Existing)
  /\ found_size' = Size(path')
  /\ UNCHANGED <<data, bytes, content_length, found>>

\* The name of the entry in the directory of the log.  For an empty one sscanf
\* leaves the buffer as it is; without '/' the log itself is the directory.
EntryNames(entry) ==
  IF log_file_path \in Bare THEN {Null} ELSE IF entry = Empty THEN Names \cup {Null} ELSE {entry}

OpensDirectory ==
  \/ /\ log_file_path \notin Bare
     /\ pc' = "list" /\ size' = BUFSIZ
     /\ found' = Existing
     /\ UNCHANGED <<path, data, bytes, content_length, found_size>>
  \/ NoAnswer

Lists(r) == r.map = "/log" /\ log_method = Multiple /\ r.entry = Null

\* The file of the log page that is asked for.
LogAskedFor(r) ==
  IF log_method = Single THEN {log_file_path} ELSE EntryNames(r.entry)

ReadRequest(r) ==
  /\ pc = "request"
  /\ request' = r
  /\ \/ r.map = "/" /\ IsPage("index", "exact")
     \/ r.map = "/unknown" /\ IsPage("not found", Null)
     \/ r.map = "/log" /\ ~Lists(r) /\ \E name \in LogAskedFor(r): OpensLog(name)
     \/ Lists(r) /\ OpensDirectory
  /\ UNCHANGED <<directory, optionVars>>

-----------------------------------------------------------------------------
(* server_create_log_page_response.                                        *)

\* Mutant of MoreToRead: the file is taken to end with the first chunk.
OnlyOneChunk(chunk) == FALSE

\* A chunk that fills the buffer may not be the last.
MoreToRead(chunk) == chunk = BUFSIZ

\* Mutants of Enlarged: no place for the terminator, or only for one chunk.
EnlargedExactly(count) == count + BUFSIZ
EnlargedToChunk(count) == BUFSIZ

Enlarged(count) == count + BUFSIZ + 1

\* One read of the log, as it is at that time.  The length in the header is that
\* of the log alone, without the heading and the tags around it.
ReadChunk ==
  /\ pc = "read"
  /\ LET left == Size(path) - bytes
         chunk == IF left < BUFSIZ THEN left ELSE BUFSIZ
     IN /\ bytes' = bytes + chunk
        /\ data' = data \o [k \in 1 .. chunk |-> bytes + k]
        /\ size' = IF MoreToRead(chunk) THEN Enlarged(bytes') ELSE size
        /\ pc' = IF bytes' + 1 > size THEN "overrun"
                 ELSE IF MoreToRead(chunk) THEN "read" ELSE "log"
        /\ content_length' = IF pc' = "log" THEN bytes' ELSE content_length
  /\ UNCHANGED <<directory, optionVars, request, path, found, found_size>>

-----------------------------------------------------------------------------
(* server_create_log_file_list.                                            *)

Listed(name) == name \in Logs

\* readdir gives every file that was there when the directory was opened, and
\* may give those created since.  The list is enlarged when the links are longer
\* than it, so that links as long as the list leave no place for the terminator.
ReadEntry ==
  /\ pc = "list"
  /\ \E name \in Existing:
       /\ Listed(name) /\ ~Contains(data, name)
       /\ bytes' = bytes + LinkLength[name]
       /\ size' = IF bytes' > size THEN size + BUFSIZ ELSE size
       /\ pc' = IF bytes' + 1 > size' THEN "overrun" ELSE "list"
       /\ data' = Append(data, name)
  /\ UNCHANGED <<directory, optionVars, request, path, content_length, found,
                 found_size>>

\* The length in the header is the size of the response, not of the page.
ListEnds ==
  /\ pc = "list"
  /\ \A name \in found: Listed(name) => Contains(data, name)
  /\ pc' = "links" /\ content_length' = bytes + BUFSIZ
  /\ UNCHANGED <<directory, optionVars, request, path, data, bytes, size, found,
                 found_size>>

-----------------------------------------------------------------------------
Init ==
  /\ \E existing \in SUBSET Names: directory \in [existing -> 0 .. MaxSize]
  /\ log_method \in {Single, Multiple} /\ log_file_path \in Logs
  /\ request = Null /\ pc = "request" /\ path = Null /\ data = <<>> /\ bytes = 0
  /\ size = 0 /\ content_length = Null /\ found = {} /\ found_size = 0

Next ==
  \/ LogGrows \/ NewLog
  \/ \E r \in Request: ReadRequest(r)
  \/ ReadChunk \/ ReadEntry \/ ListEnds

Spec == Init /\ [][Next]_vars

-----------------------------------------------------------------------------
(* Properties.                                                             *)

\* Type invariant: what is allocated has place for what it holds.
TypeOK ==
  /\ request \in Request \cup {Null}
  /\ pc \in {"request", "read", "list", "overrun", "no answer", "index", "not found", "log", "links"}
  /\ path \in Names \cup {Null}
  /\ bytes \in Nat /\ size \in Nat
  /\ pc \in {"read", "list"} => bytes < size

\* The page of a log shows the log as it was at some time during the answer: from
\* its first byte, at least what it had when it was opened, and nothing twice, however
\* it grows between two reads.  A log that could not be opened shows nothing.  The
\* log is the one that was asked for, when an entry was given.
LogPageExact ==
  pc = "log" =>
    /\ data = [k \in 1 .. bytes |-> k]
    /\ found_size <= bytes /\ bytes <= Size(path)
    /\ path # Null /\ request.entry # Empty =>
         path = IF log_method = Single THEN log_file_path ELSE request.entry

\* A buffer is overrun only by links that fill the list to its last byte.
OverrunOnlyByFullList ==
  pc = "overrun" => Lists(request) /\ bytes = size
=============================================================================
