---------------------------- MODULE SafeRegister ----------------------------
(***************************************************************************)
(* What the shared memory between the application and the server promises: *)
(* a safe register.  One writer, several readers; a read that no write     *)
(* overlaps gives the last value written, any other read gives anything.   *)
(***************************************************************************)
CONSTANTS Readers, Values, NoValue

VARIABLES
  value,     \* the last value written, or being written
  writing,
  reading,   \* readers that read
  clean,     \* those no write has overlapped
  result     \* by reader, what its last read gave

registerVars == <<value, writing, reading, clean, result>>

Init ==
  /\ value \in Values /\ writing \in BOOLEAN
  /\ reading = {} /\ clean = {}
  /\ result = [r \in Readers |-> NoValue]

BeginWrite ==
  /\ ~writing /\ writing' = TRUE
  /\ value' \in Values
  /\ clean' = {}
  /\ UNCHANGED <<reading, result>>

EndWrite == writing /\ writing' = FALSE /\ UNCHANGED <<value, reading, clean, result>>

BeginRead(r) ==
  /\ r \notin reading /\ reading' = reading \cup {r}
  /\ clean' = IF writing THEN clean ELSE clean \cup {r}
  /\ result' = [result EXCEPT ![r] = NoValue]
  /\ UNCHANGED <<value, writing>>

EndRead(r) ==
  /\ r \in reading /\ reading' = reading \ {r}
  /\ r \in clean => result'[r] = value
  /\ \A other \in Readers \ {r}: result'[other] = result[other]
  /\ clean' = clean \ {r}
  /\ UNCHANGED <<value, writing>>

Next ==
  \/ BeginWrite \/ EndWrite
  \/ \E r \in Readers: BeginRead(r) \/ EndRead(r)

Spec == Init /\ [][Next]_registerVars
=============================================================================
