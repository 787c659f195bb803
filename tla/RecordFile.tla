----------------------------- MODULE RecordFile -----------------------------
(***************************************************************************)
(* The text of recorded messages: what CodecSimple writes                  *)
(* (protocol/codec_simple.go) and what ReinforcedReader.ReadMessage makes  *)
(* of the files of a directory (plugin/input_file_dir.go).                 *)
(*                                                                         *)
(* A file is a sequence of pieces, each a newline or a text without one.   *)
(* A message that was read is the set of the pieces it was made of.        *)
(***************************************************************************)
EXTENDS Message, Sequences, SequencesExt

Piece(kind, m) == [kind |-> kind, of |-> m]
NL == Piece("newline", NoMessage)

\* CodecSimple.Marshal.
Marshal(m) == <<Piece("meta", m), NL, Piece("method", m), NL, Piece("request", m)>>
              \o IF HasResponse[m] THEN <<NL, Piece("response", m)>> ELSE <<>>

\* Here and below, an operator that no other definition uses is a faulty
\* variant of the one that follows it, for the mutation of the checks.
OneNewline == <<NL>>

\* What FileDirOutput writes after a record.
Separator == <<NL, NL>>

Failed == {}      \* Unmarshal returned an error
Panic == {NL}     \* an index out of range

IsMeta(line) == Len(line) = 1 /\ line[1].kind = "meta"
IsItem(line) == Len(line) = 1 /\ line[1].kind \in {"request", "response"}

\* CodecSimple.Unmarshal, on the lines of a record (ReadMessage cuts the last
\* newline off, which panics when there is no line at all).  A response that
\* is announced but missing goes unnoticed.
Unmarshal(lines) ==
    LET m == lines[1][1].of
        n == IF HasResponse[m] /\ Len(lines) >= 4 THEN 4 ELSE 3
    IN  CASE lines = <<>> -> Panic
          [] lines # <<>> /\ ~ IsMeta(lines[1]) -> Failed
          [] lines # <<>> /\ IsMeta(lines[1]) /\ Len(lines) < 3 -> Panic
          [] OTHER -> IF \A k \in 3 .. n : IsItem(lines[k])
                      THEN UNION {ToSet(lines[k]) : k \in 1 .. n}
                      ELSE Failed

\* The reader: the results of the calls of ReadMessage so far, the lines that
\* have been gathered of a record, and what has been read of a line.
StartOfLog == [results |-> <<>>, lines |-> <<>>, text |-> <<>>]

\* ReadBytes('\n') has returned a line; an empty one ends the record.
ReadLine(r) ==
    IF r.text = <<>>
    THEN [results |-> Append(r.results, Unmarshal(r.lines)), lines |-> <<>>, text |-> <<>>]
    ELSE [results |-> r.results, lines |-> Append(r.lines, r.text), text |-> <<>>]

ReadPiece(r, p) == IF p = NL THEN ReadLine(r) ELSE [r EXCEPT !.text = Append(@, p)]

ReadPieces(r, pieces) == FoldLeft(ReadPiece, r, pieces)

\* NextFile: a last line without newline has come with io.EOF and is lost, but
\* what has been gathered of a record is kept.
NextFile(r) == [r EXCEPT !.text = <<>>]

ReadFile(r, file) == ReadPieces(NextFile(r), file)

ReadLog(files) == FoldLeft(ReadFile, StartOfLog, files)

\* The results of successive calls of ReadMessage, until io.EOF.
ReadAll(files) == ReadLog(files).results

\* A message as it was marshalled.
MessageOf(m) == ToSet(Marshal(m)) \ {NL}
=============================================================================
