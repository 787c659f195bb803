--------------------------- MODULE FileDirOutput ---------------------------
(***************************************************************************)
(* FileDirOutput (plugin/output_file_dir.go): a message is appended to a   *)
(* log that rotates by size, in two writes: the record, and the empty line *)
(* that ends it.  The copy loops of all inputs write to the same log; the  *)
(* log's own lock holds for one write.                                     *)
(***************************************************************************)
EXTENDS RecordFile, FiniteSets

CONSTANTS MaxFiles    \* bound on the files of the log

ASSUME FilesAssumption == MaxFiles \in Nat \ {0}

VARIABLES files,      \* the log, oldest file first; capture.log is the last
          open,       \* the copy loops between the two writes
          recorded,   \* history: the messages both writes were made for
          glued,      \* history: those that follow a record without its end
          tangled     \* history: a record was written, or the log rotated,
                      \* between the two writes of another

fileVars == <<files, open, recorded, glued, tangled>>

FileInit == /\ files = << <<>> >>
            /\ open = {}
            /\ recorded = <<>>
            /\ glued = {}
            /\ tangled = FALSE

\* lumberjack's Write: a file that would become too large is closed first.
\* The sizes are arbitrary.
Rotations == {FALSE} \cup {r \in {TRUE} : Len(files) < MaxFiles /\ Last(files) # <<>>}

Log(data, rotate) ==
    files' = IF rotate THEN Append(files, data)
                       ELSE [files EXCEPT ![Len(files)] = @ \o data]

\* The log ends within a record.
Unterminated == Last(files) # <<>> /\ Last(Last(files)) # NL

\* FileDirOutput.Write, the record of m.
WriteRecord(i, m) ==
    \E rotate \in Rotations :
       /\ Log(Marshal(m), rotate)
       /\ open' = open \cup {i}
       /\ glued' = IF Unterminated THEN glued \cup {m} ELSE glued
       /\ tangled' = (tangled \/ open # {})
       /\ UNCHANGED recorded

\* The empty line after it.
WriteEnd(i, m) ==
    \E rotate \in Rotations :
       /\ Log(Separator, rotate)
       /\ open' = open \ {i}
       /\ recorded' = Append(recorded, m)
       /\ tangled' = (tangled \/ rotate)
       /\ UNCHANGED glued

\* A write that fails, and with it Write.
WriteFails(i) == /\ open' = open \ {i}
                 /\ UNCHANGED <<files, recorded, glued, tangled>>

\* A new process appends to the log it finds.
FileRestart == /\ open' = {}
               /\ UNCHANGED <<files, recorded, glued, tangled>>
=============================================================================
