-------------------------- MODULE ServerPagesProofs --------------------------
(***************************************************************************)
(* Theorems about ServerPages, for logs, names and buffers of any size.    *)
(***************************************************************************)
EXTENDS ServerPages, SequenceTheorems, TLAPS

\* The directory, and the file that is open.
DirectoryOK ==
  /\ Existing \subseteq Names /\ directory \in [Existing -> Nat]
  /\ log_method \in {Single, Multiple} /\ log_file_path \in Logs

\* Nothing is read or listed before the request.
RequestOK == pc = "request" => path = Null /\ bytes = 0 /\ data = << >>

\* The log that is shown is the one that was asked for.
PathOK ==
  pc \in {"read", "log"} =>
    /\ path \in Names \cup {Null}
    /\ path # Null /\ request.entry # Empty =>
         path = IF log_method = Single THEN log_file_path ELSE request.entry

\* Between two reads the data are the first bytes of the log, and there is place
\* for a whole chunk and the terminator.
ReadOK ==
  pc = "read" =>
    /\ size = bytes + BUFSIZ + 1
    /\ data = [k \in 1 .. bytes |-> k]
    /\ found_size <= Size(path) /\ bytes <= Size(path)

\* Between two entries only links as long as the list leave no place for the
\* terminator.
ListOK ==
  pc \in {"list", "links", "overrun"} =>
    /\ Lists(request)
    /\ path = Null /\ bytes <= size
    /\ pc = "overrun" => bytes = size

PagesInv ==
  /\ DirectoryOK /\ RequestOK /\ PathOK /\ ReadOK /\ ListOK /\ found_size \in Nat
  /\ TypeOK /\ LogPageExact

-----------------------------------------------------------------------------
(* The application, while a request is answered.                           *)

\* Logs only grow, and stay where they are.
LogsGrow ==
  /\ Existing \subseteq Existing'
  /\ \A name \in Names \cup {Null}: Size(name) \in Nat /\ Size(name) <= Size(name)'

\* Sizes of files are natural numbers.
LEMMA SizeType ==
  ASSUME DirectoryOK, NEW name \in Names \cup {Null}
  PROVE  Size(name) \in Nat
BY DEF DirectoryOK, Size

\* What the application does leaves the directory well formed and its logs longer.
LEMMA ApplicationSteps ==
  ASSUME DirectoryOK, LogGrows \/ NewLog
  PROVE  DirectoryOK' /\ LogsGrow /\ UNCHANGED <<optionVars, childVars>>
<1>1. CASE LogGrows
  <2>1. PICK log \in Logs \cap Existing:
          directory' = [directory EXCEPT ![log] = @ + 1]
    BY <1>1 DEF LogGrows
  <2>2. Existing' = Existing /\ directory[log] \in Nat
    BY <2>1 DEF Existing, DirectoryOK
  <2>3. directory' \in [Existing -> Nat]
    BY <2>1, <2>2 DEF DirectoryOK
  <2>4. \A name \in Existing: directory[name] \in Nat /\ directory[name] <= directory'[name]
    BY <2>1, <2>2 DEF DirectoryOK
  <2>5. UNCHANGED <<optionVars, childVars>>
    BY <1>1 DEF LogGrows
  <2>6. QED
    BY <2>2, <2>3, <2>4, <2>5 DEF DirectoryOK, LogsGrow, Size, optionVars
<1>2. CASE NewLog
  <2>1. PICK log \in Logs \ Existing:
          directory' = [name \in Existing \cup {log} |-> IF name = log THEN 0 ELSE directory[name]]
    BY <1>2 DEF NewLog
  <2>2. Existing' = Existing \cup {log} /\ log \in Names
    BY <2>1 DEF Existing, Names
  <2>3. /\ directory' \in [Existing' -> Nat]
        /\ \A name \in Existing: directory[name] \in Nat /\ directory'[name] = directory[name]
    BY <2>1, <2>2 DEF DirectoryOK
  <2>4. directory'[log] = 0
    BY <2>1
  <2>5. UNCHANGED <<optionVars, childVars>>
    BY <1>2 DEF NewLog
  <2>6. QED
    BY <2>2, <2>3, <2>4, <2>5 DEF DirectoryOK, LogsGrow, Size, optionVars
<1>3. QED
  BY <1>1, <1>2

\* A log that grows under a page leaves it what it is.
LEMMA ApplicationKeeps ==
  ASSUME PagesInv, LogGrows \/ NewLog
  PROVE  PagesInv'
<1>1. DirectoryOK' /\ LogsGrow /\ UNCHANGED <<optionVars, childVars>>
  BY ApplicationSteps DEF PagesInv
<1> USE DEF PagesInv, optionVars, childVars
<1>2. RequestOK' /\ TypeOK' /\ PathOK' /\ ListOK' /\ found_size' \in Nat
  BY <1>1 DEF RequestOK, TypeOK, PathOK, ListOK, Lists
<1>3. ReadOK'
  <2>1. SUFFICES ASSUME pc = "read" PROVE ReadOK'
    BY <1>1 DEF ReadOK
  <2>2. path \in Names \cup {Null} /\ found_size \in Nat /\ bytes \in Nat
    BY <2>1 DEF PathOK, TypeOK
  <2>3. Size(path) \in Nat /\ Size(path)' \in Nat /\ Size(path) <= Size(path)'
    BY <1>1, <2>2 DEF LogsGrow, DirectoryOK, Size
  <2>4. QED
    BY <1>1, <2>1, <2>2, <2>3 DEF ReadOK
<1>4. LogPageExact'
  <2>1. SUFFICES ASSUME pc = "log" PROVE LogPageExact'
    BY <1>1 DEF LogPageExact
  <2>2. path \in Names \cup {Null} /\ found_size \in Nat /\ bytes \in Nat
    BY <2>1 DEF PathOK, TypeOK
  <2>3. Size(path) \in Nat /\ Size(path)' \in Nat /\ Size(path) <= Size(path)'
    BY <1>1, <2>2 DEF LogsGrow, DirectoryOK, Size
  <2>4. QED
    BY <1>1, <2>1, <2>2, <2>3 DEF LogPageExact
<1>5. QED
  BY <1>1, <1>2, <1>3, <1>4

-----------------------------------------------------------------------------
(* The child that answers.                                                 *)

\* A buffer that is enlarged has place for a chunk and the terminator.
LEMMA EnlargedHasPlace ==
  ASSUME NEW count \in Nat, NEW place, BUFSIZ \in Nat \ {0}, place = count + BUFSIZ + 1
  PROVE  place \in Nat /\ count < place
OBVIOUS

\* Whether there is place for the terminator.
LEMMA Terminated ==
  ASSUME NEW count \in Nat, NEW place \in Nat
  PROVE  /\ count + 1 <= place => ~(count + 1 > place)
         /\ count <= place /\ count + 1 > place => count = place
         /\ ~(count + 1 > place) => count < place
OBVIOUS

\* A request begins a page with nothing read.
LEMMA RequestStep ==
  ASSUME PagesInv, NEW r \in Request, ReadRequest(r)
  PROVE  PagesInv'
<1> USE DEF PagesInv, optionVars
<1>0. /\ pc = "request" /\ request' = r /\ path = Null /\ bytes = 0 /\ data = << >>
      /\ UNCHANGED <<directory, optionVars>>
  BY DEF ReadRequest, RequestOK
<1>1. DirectoryOK' /\ BUFSIZ \in Nat \ {0} /\ BUFSIZ > 0
  BY <1>0, PagesAssumption DEF DirectoryOK, Existing
<1>2. ASSUME NEW page \in {"index", "not found"}, NEW content, IsPage(page, content)
      PROVE  PagesInv'
  BY <1>0, <1>1, <1>2 DEF IsPage, TypeOK, RequestOK, PathOK, ReadOK, ListOK, LogPageExact
<1>3. ASSUME r.map = "/log", ~Lists(r), NEW name \in LogAskedFor(r), OpensLog(name)
      PROVE  PagesInv'
  <2>1. /\ pc' = "read" /\ size' = BUFSIZ + 1 /\ bytes' = 0 /\ data' = << >>
        /\ path' \in {Null} \cup ({name} \cap Existing) /\ found_size' = Size(path')
    BY <1>0, <1>3 DEF OpensLog
  <2>2. path' \in Names \cup {Null}
    BY <2>1 DEF DirectoryOK
  <2>3. Size(path') \in Nat /\ Size(path)' = Size(path')
    BY <1>0, <2>2, SizeType DEF Size, Existing
  <2>4. PathOK'
    <3>1. ASSUME path' # Null, r.entry # Empty
          PROVE  path' = IF log_method = Single THEN log_file_path ELSE r.entry
      <4>1. path' = name
        BY <2>1, <3>1
      <4>2. CASE log_method = Single
        BY <1>3, <4>1, <4>2 DEF LogAskedFor
      <4>3. CASE log_method # Single
        BY <1>3, <3>1, <4>1, <4>3 DEF LogAskedFor, EntryNames
      <4>4. QED
        BY <4>2, <4>3
    <3>2. QED
      BY <1>0, <2>2, <3>1 DEF PathOK
  <2>5. data' = [k \in 1 .. bytes' |-> k]
    BY <2>1
  <2>6. ReadOK'
    BY <1>1, <2>1, <2>3, <2>5 DEF ReadOK
  <2>7. TypeOK'
    BY <1>0, <1>1, <2>1, <2>2 DEF TypeOK
  <2>8. QED
    BY <1>1, <2>1, <2>3, <2>4, <2>6, <2>7 DEF RequestOK, ListOK, LogPageExact
<1>4. CASE NoAnswer
  BY <1>0, <1>1, <1>4 DEF NoAnswer, TypeOK, RequestOK, PathOK, ReadOK, ListOK, LogPageExact
<1>5. ASSUME Lists(r), pc' = "list", size' = BUFSIZ, found' = Existing,
             UNCHANGED <<path, data, bytes, content_length, found_size>>
      PROVE  PagesInv'
  <2>1. ListOK'
    BY <1>0, <1>1, <1>5 DEF ListOK, Lists
  <2>2. TypeOK' /\ found_size' \in Nat
    BY <1>0, <1>1, <1>5 DEF TypeOK
  <2>3. QED
    BY <1>1, <1>5, <2>1, <2>2 DEF RequestOK, PathOK, ReadOK, LogPageExact
<1>6. QED
  BY <1>2, <1>3, <1>4, <1>5 DEF ReadRequest, OpensDirectory

\* A read of a chunk: the page is the log so far, and the buffer is large enough.
LEMMA ReadChunkStep ==
  ASSUME PagesInv, ReadChunk
  PROVE  PagesInv'
<1> USE DEF PagesInv, optionVars
<1> DEFINE left == Size(path) - bytes
           chunk == IF left < BUFSIZ THEN left ELSE BUFSIZ
<1>0. /\ pc = "read" /\ path \in Names \cup {Null} /\ size = bytes + BUFSIZ + 1
      /\ data = [k \in 1 .. bytes |-> k]
      /\ found_size <= Size(path) /\ bytes <= Size(path)
  BY DEF ReadChunk, ReadOK, PathOK
<1>1. BUFSIZ \in Nat \ {0} /\ Size(path) \in Nat /\ bytes \in Nat /\ found_size \in Nat
  BY <1>0, PagesAssumption, SizeType DEF TypeOK
<1>2. left \in Nat /\ chunk \in Nat /\ chunk <= left /\ chunk <= BUFSIZ
      /\ (chunk # BUFSIZ => chunk = left)
  BY <1>0, <1>1
<1>3. /\ bytes' = bytes + chunk
      /\ data' = data \o [k \in 1 .. chunk |-> bytes + k]
      /\ size' = IF chunk = BUFSIZ THEN bytes' + BUFSIZ + 1 ELSE size
      /\ pc' = IF bytes' + 1 > size THEN "overrun" ELSE IF chunk = BUFSIZ THEN "read" ELSE "log"
      /\ content_length' = IF pc' = "log" THEN bytes' ELSE content_length
      /\ UNCHANGED <<directory, optionVars, request, path, found, found_size>>
  BY DEF ReadChunk, MoreToRead, Enlarged
<1> HIDE DEF chunk, left
<1>4. bytes' \in Nat /\ bytes' + 1 <= size /\ bytes' <= Size(path)
  BY <1>0, <1>1, <1>2, <1>3 DEF left
<1>5. Size(path)' = Size(path) /\ DirectoryOK'
  BY <1>3 DEF Size, Existing, DirectoryOK
<1>6. data' = [k \in 1 .. bytes' |-> k]
  <2>1. data \in Seq(Nat) /\ Len(data) = bytes
    BY <1>0, <1>1
  <2> DEFINE next == [k \in 1 .. chunk |-> bytes + k]
  <2>2. next \in Seq(Nat) /\ Len(next) = chunk
    BY <1>1, <1>2
  <2>3. data \o next = [k \in 1 .. bytes + chunk |-> k]
    BY <1>0, <1>1, <1>2, <2>1, <2>2, ConcatProperties
  <2>4. QED
    BY <1>3, <2>3
<1>7. CASE chunk = BUFSIZ
  <2>1. pc' = "read" /\ size' = bytes' + BUFSIZ + 1
    <3>1. ~(bytes' + 1 > size)
      BY <1>4, Terminated DEF TypeOK
    <3>2. QED
      BY <1>3, <1>7, <3>1
  <2>2. ReadOK'
    BY <1>0, <1>3, <1>4, <1>5, <1>6, <2>1 DEF ReadOK
  <2>3. TypeOK'
    <3>1. size' \in Nat /\ bytes' < size'
      BY <1>1, <1>4, <2>1, EnlargedHasPlace
    <3>2. QED
      BY <1>3, <1>4, <2>1, <3>1 DEF TypeOK
  <2>4. PathOK'
    BY <1>0, <1>3, <2>1 DEF PathOK
  <2>5. QED
    BY <1>1, <1>3, <1>5, <2>1, <2>2, <2>3, <2>4 DEF RequestOK, ListOK, LogPageExact
<1>8. CASE chunk # BUFSIZ
  <2>1. pc' = "log" /\ size' = size /\ bytes' = Size(path)
    BY <1>0, <1>1, <1>2, <1>3, <1>4, <1>8 DEF left, TypeOK
  <2>2. PathOK' /\ LogPageExact'
    BY <1>0, <1>1, <1>3, <1>4, <1>5, <1>6, <2>1 DEF PathOK, LogPageExact
  <2>3. TypeOK'
    BY <1>1, <1>3, <1>4, <2>1 DEF TypeOK
  <2>4. QED
    BY <1>0, <1>1, <1>3, <1>4, <1>5, <2>1, <2>2, <2>3 DEF RequestOK, ReadOK, ListOK
<1>9. QED
  BY <1>7, <1>8

\* An entry of the list, which is enlarged in time unless the links fill it exactly.
LEMMA ReadEntryStep ==
  ASSUME PagesInv, ReadEntry
  PROVE  PagesInv'
<1> USE DEF PagesInv, optionVars
<1>0. PICK name \in Existing:
        /\ Listed(name) /\ ~Contains(data, name)
        /\ bytes' = bytes + LinkLength[name]
        /\ size' = IF bytes' > size THEN size + BUFSIZ ELSE size
        /\ pc' = IF bytes' + 1 > size' THEN "overrun" ELSE "list"
  BY DEF ReadEntry
<1>1. /\ pc = "list" /\ Lists(request) /\ path = Null /\ bytes <= size
      /\ UNCHANGED <<directory, optionVars, request, path, content_length, found, found_size>>
  BY DEF ReadEntry, ListOK
<1>2. /\ name \in Logs /\ name \in Names /\ BUFSIZ \in Nat \ {0} /\ bytes \in Nat /\ size \in Nat
      /\ LinkLength[name] \in 1 .. BUFSIZ - 1
  BY <1>0, PagesAssumption DEF Listed, Names, TypeOK
<1>3. DirectoryOK' /\ Existing' = Existing
  BY <1>1 DEF DirectoryOK, Existing
<1>4. /\ bytes' \in Nat /\ size' \in Nat /\ bytes' <= size'
      /\ pc' = "overrun" => bytes' = size'
      /\ pc' = "list" => bytes' < size'
      /\ pc' \in {"list", "overrun"}
  <2>1. bytes' \in Nat /\ size' \in Nat /\ bytes' <= size'
    <3>1. CASE bytes' > size
      BY <1>0, <1>1, <1>2, <3>1
    <3>2. CASE ~(bytes' > size)
      BY <1>0, <1>1, <1>2, <3>2
    <3>3. QED
      BY <3>1, <3>2
  <2>2. CASE bytes' + 1 > size'
    <3>1. pc' = "overrun"
      BY <1>0, <2>2
    <3>2. bytes' = size'
      BY <2>1, <2>2, Terminated
    <3>3. QED
      BY <2>1, <3>1, <3>2
  <2>3. CASE ~(bytes' + 1 > size')
    <3>1. pc' = "list"
      BY <1>0, <2>3
    <3>2. bytes' < size'
      BY <2>1, <2>3, Terminated
    <3>3. QED
      BY <2>1, <3>1, <3>2
  <2>4. QED
    BY <2>2, <2>3
<1>5. ListOK'
  BY <1>1, <1>3, <1>4 DEF ListOK, Lists
<1>6. TypeOK'
  BY <1>1, <1>2, <1>4 DEF TypeOK
<1>7. QED
  BY <1>1, <1>3, <1>4, <1>5, <1>6 DEF RequestOK, PathOK, ReadOK, LogPageExact

\* The end of the list.
LEMMA ListEndsStep ==
  ASSUME PagesInv, ListEnds
  PROVE  PagesInv'
<1> USE DEF PagesInv, optionVars
<1>1. /\ pc = "list" /\ pc' = "links"
      /\ UNCHANGED <<directory, optionVars, request, path, data, bytes, size, found, found_size>>
  BY DEF ListEnds
<1>2. DirectoryOK' /\ Existing' = Existing
  BY <1>1 DEF DirectoryOK, Existing
<1>3. ListOK'
  BY <1>1 DEF ListOK, Lists
<1>4. QED
  BY <1>1, <1>2, <1>3 DEF TypeOK, RequestOK, PathOK, ReadOK, LogPageExact

-----------------------------------------------------------------------------
(* The theorems.                                                           *)

\* The invariant holds whatever the request is and however the logs grow.
LEMMA PagesInvariant == Spec => []PagesInv
<1>1. Init => PagesInv
  <2> SUFFICES ASSUME Init PROVE PagesInv
    OBVIOUS
  <2>1. DirectoryOK
    <3>1. PICK existing \in SUBSET Names: directory \in [existing -> 0 .. MaxSize]
      BY DEF Init
    <3>2. Existing = existing /\ 0 .. MaxSize \subseteq Nat
      BY <3>1, PagesAssumption DEF Existing
    <3>3. log_method \in {Single, Multiple} /\ log_file_path \in Logs
      BY DEF Init
    <3>4. QED
      BY <3>1, <3>2, <3>3 DEF DirectoryOK
  <2>2. QED
    BY <2>1 DEF Init, PagesInv, RequestOK, PathOK, ReadOK, ListOK, TypeOK, LogPageExact
<1>2. PagesInv /\ [Next]_vars => PagesInv'
  <2> SUFFICES ASSUME PagesInv, [Next]_vars PROVE PagesInv'
    OBVIOUS
  <2>1. CASE UNCHANGED vars
    <3>1. UNCHANGED <<optionVars, childVars, directory>>
      BY <2>1 DEF vars
    <3>2. DirectoryOK' /\ RequestOK' /\ TypeOK' /\ found_size' \in Nat
      BY <3>1 DEF optionVars, childVars, PagesInv, DirectoryOK, Existing, Size, RequestOK, TypeOK
    <3>3. PathOK' /\ ReadOK' /\ ListOK' /\ LogPageExact'
      BY <3>1 DEF optionVars, childVars, PagesInv, Existing, Size,
                  PathOK, ReadOK, ListOK, Lists, LogPageExact
    <3> QED BY <3>2, <3>3 DEF PagesInv
  <2>2. QED
    BY <2>1, ApplicationKeeps, RequestStep, ReadChunkStep, ReadEntryStep, ListEndsStep DEF Next
<1>3. QED
  BY <1>1, <1>2, PTL DEF Spec

\* The variables keep their types, and what is allocated has place for what it holds.
THEOREM PagesTypeCorrect == Spec => []TypeOK
<1>1. PagesInv => TypeOK
  BY DEF PagesInv
<1>2. QED
  BY <1>1, PagesInvariant, PTL

\* The page of a log shows the log that was asked for as it was at some time during
\* the answer, or nothing when it could not be opened, whatever the sizes of the log
\* and of the chunks and however it grows.
THEOREM LogPagesAreExact == Spec => []LogPageExact
<1>1. PagesInv => LogPageExact
  BY DEF PagesInv
<1>2. QED
  BY <1>1, PagesInvariant, PTL

\* The buffer of a log page is never overrun, and that of the list only by links that
\* fill it to its last byte.
THEOREM OverrunsAreFullLists == Spec => []OverrunOnlyByFullList
<1>1. PagesInv => OverrunOnlyByFullList
  BY DEF PagesInv, ListOK, OverrunOnlyByFullList
<1>2. QED
  BY <1>1, PagesInvariant, PTL

=============================================================================
