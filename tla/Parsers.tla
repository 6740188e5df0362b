------------------------------- MODULE Parsers -------------------------------
(***************************************************************************)
(* services/ingest/parsers.py: the rows of a file become events, in chunks *)
(* that the worker publishes one after the other.  A CSV is read chunk by  *)
(* chunk and each chunk is sorted; a capture comes from a tshark process,  *)
(* line by line over a pipe, while what tshark says of it on its standard  *)
(* error is read only after the last line.                                 *)
(***************************************************************************)
EXTENDS Integers, Sequences, FiniteSets, FiniteSetsExt, SequencesExt

CONSTANTS
    MaxRows,       \* bound: rows of a file
    CsvChunk,      \* chunk_rows
    PACKET_BATCH,
    PipeLines,     \* lines the pipe from tshark holds
    StderrLines    \* lines standard error holds until someone reads it

ASSUME ParserAssumption ==
    /\ {MaxRows, StderrLines} \subseteq Nat
    /\ {CsvChunk, PACKET_BATCH, PipeLines} \subseteq Nat \ {0}

VARIABLES
    file,      \* format, rows, and the row before which it breaks off
    taken,     \* rows read of a CSV, or written by tshark
    pipe,      \* the lines of tshark not read yet, by row
    stderr,    \* lines of standard error not read yet
    tshark,    \* "running", "closed" (its output), or how it exited
    batched,   \* iter_pcap_events: events of the batch so far
    chunks,    \* what was yielded: a sequence of chunks of events
    outcome    \* "reading", "complete" or "error" (IngestError)

parserVars == <<file, taken, pipe, stderr, tshark, batched, chunks, outcome>>

Unparseable == 0
\* A row is a flow with its time (a repeated header has none), its addresses
\* and numbers, or a packet that tshark may have a complaint about.
CsvRows == {r \in [ts : {Unparseable, 1, 2}, ips : BOOLEAN, numeric : BOOLEAN, warns : {FALSE}] :
                r.ts = Unparseable => r.ips /\ ~r.numeric}
PcapRows == [ts : {1}, ips : BOOLEAN, numeric : {TRUE}, warns : BOOLEAN]
Files(format, Rows) == [format : {format}, rows : SeqOf(Rows, MaxRows), breaks : 1 .. MaxRows + 1]

Usable(i) == file.rows[i].ts # Unparseable /\ file.rows[i].ips
CaptureLength == Len(file.rows)
\* Rows before the place where the file cannot be read further.
Readable == Min({CaptureLength, file.breaks - 1})

ParserInit ==
    /\ file \in Files("csv", CsvRows) \cup Files("pcap", PcapRows)
    /\ taken = 0 /\ pipe = <<>> /\ stderr = 0 /\ batched = <<>> /\ chunks = <<>>
    /\ tshark = IF file.format = "pcap" THEN "running" ELSE "none"
    /\ outcome = "reading"

-----------------------------------------------------------------------------
\* The numbers of a row are looked up by its label, which sorting keeps.
_numeric(i) == IF file.rows[i].numeric THEN i ELSE 0
RawEvent(i, counts) == [row |-> i, ts |-> file.rows[i].ts, fields |-> counts]

\* Rows without a time or an address are dropped, the others sorted, stably:
\* at position n stands the row that n - 1 others come before.
EarlierRow(i, j) ==
    \/ file.rows[i].ts < file.rows[j].ts
    \/ file.rows[i].ts = file.rows[j].ts /\ i < j
SortedRows(first, last) ==
    LET rows == {i \in first .. last : Usable(i)}
    IN [n \in 1 .. Cardinality(rows) |->
          CHOOSE i \in rows : Cardinality({j \in rows : EarlierRow(j, i)}) = n - 1]
\* Mutant: the numbers are taken by position, after rows were dropped and moved.
ByPosition(first, last) ==
    [n \in DOMAIN SortedRows(first, last) |-> RawEvent(SortedRows(first, last)[n], _numeric(first + n - 1))]
_csv_chunk_to_events(first, last) ==
    [n \in DOMAIN SortedRows(first, last) |-> RawEvent(SortedRows(first, last)[n], _numeric(SortedRows(first, last)[n]))]

Yield(events) == chunks' = IF events = <<>> THEN chunks ELSE Append(chunks, events)

\* iter_csv_events: a chunk that cannot be read to its end is lost.
ReadChunk ==
    /\ file.format = "csv" /\ outcome = "reading"
    /\ LET last == Min({taken + CsvChunk, CaptureLength})
       IN IF last > Readable
          THEN outcome' = "error" /\ UNCHANGED <<taken, chunks>>
          ELSE IF taken = CaptureLength
          THEN outcome' = "complete" /\ UNCHANGED <<taken, chunks>>
          ELSE /\ taken' = last /\ Yield(_csv_chunk_to_events(taken + 1, last))
               /\ UNCHANGED outcome
    /\ UNCHANGED <<file, pipe, stderr, tshark, batched>>

-----------------------------------------------------------------------------
\* tshark: complains, then writes the line; either may have to wait.
Writes ==
    /\ tshark = "running" /\ taken < Readable /\ Len(pipe) < PipeLines
    /\ file.rows[taken + 1].warns => stderr < StderrLines
    /\ stderr' = IF file.rows[taken + 1].warns THEN stderr + 1 ELSE stderr
    /\ taken' = taken + 1 /\ pipe' = Append(pipe, taken + 1)
    /\ UNCHANGED <<file, tshark, batched, chunks, outcome>>

\* It closes its output, and only then exits; a capture that is cut short makes
\* it fail, after what could be read.
Closes ==
    /\ tshark = "running" /\ taken = Readable /\ tshark' = "closed"
    /\ UNCHANGED <<file, taken, pipe, stderr, batched, chunks, outcome>>

Exits ==
    /\ tshark = "closed" /\ outcome = "reading"
    /\ tshark' = IF Readable < CaptureLength THEN "failed" ELSE "exited"
    /\ UNCHANGED <<file, taken, pipe, stderr, batched, chunks, outcome>>

\* parse_tshark_line: None if it is unusable.
parse_tshark_line(i) == IF Usable(i) THEN <<RawEvent(i, _numeric(i))>> ELSE <<>>

ReadLine ==
    /\ outcome = "reading" /\ pipe # <<>>
    /\ LET grown == batched \o parse_tshark_line(Head(pipe))
       IN IF Len(grown) >= PACKET_BATCH THEN batched' = <<>> /\ Yield(grown)
          ELSE batched' = grown /\ UNCHANGED chunks
    /\ pipe' = Tail(pipe)
    /\ UNCHANGED <<file, taken, stderr, tshark, outcome>>

\* End of the pipe: the rest of the batch, standard error, the exit status.  A
\* tshark that has not exited by then is killed, which counts as its failure.
EndOfOutput ==
    /\ outcome = "reading" /\ pipe = <<>> /\ tshark \in {"closed", "exited", "failed"}
    /\ Yield(batched)
    /\ batched' = <<>> /\ stderr' = 0
    /\ tshark' = IF tshark = "closed" THEN "killed" ELSE tshark
    /\ outcome' = IF tshark = "exited" THEN "complete" ELSE "error"
    /\ UNCHANGED <<file, taken, pipe>>

ParserNext == ReadChunk \/ Writes \/ Closes \/ Exits \/ ReadLine \/ EndOfOutput

ParserSpec == ParserInit /\ [][ParserNext]_parserVars

-----------------------------------------------------------------------------
\* The events that went out, by chunk and position; the rows behind them.
Places == UNION {{<<m, n>> : n \in DOMAIN chunks[m]} : m \in DOMAIN chunks}
EventAt(p) == chunks[p[1]][p[2]]
RowsOut == {EventAt(p).row : p \in Places}

\* Every usable row up to where the reading ended is one event, with the time
\* and the numbers of that row; a file that is readable loses none, one that
\* breaks off loses less than a chunk before the break.  (A readable capture
\* may still end in an error, with all of its rows out: tshark was killed.)
EveryRowOnce ==
    LET cut == IF file.format = "pcap" THEN Readable ELSE Readable - (Readable % CsvChunk)
    IN /\ \A p, q \in Places : EventAt(p).row = EventAt(q).row => p = q
       /\ \A p \in Places :
            /\ Usable(EventAt(p).row) /\ EventAt(p).ts = file.rows[EventAt(p).row].ts
            /\ EventAt(p).fields \in {0, EventAt(p).row}
            /\ EventAt(p).fields = 0 <=> ~file.rows[EventAt(p).row].numeric
       /\ outcome = "complete" => RowsOut = {i \in 1 .. CaptureLength : Usable(i)}
       /\ outcome = "error" => RowsOut = {i \in 1 .. cut : Usable(i)}

\* No chunk holds an event of a row that an earlier one should have held, and
\* inside a chunk time does not run backwards.
ChunksAreOrdered ==
    \A p, q \in Places :
        /\ p[1] < q[1] => EventAt(p).row < EventAt(q).row
        /\ p[1] = q[1] /\ p[2] <= q[2] => EventAt(p).ts <= EventAt(q).ts

\* Parser and tshark never wait on each other, unless tshark has more to
\* complain about than standard error holds while nobody reads it.
WaitsOnlyForStderr ==
    file.format = "pcap" /\ outcome = "reading" =>
        \/ pipe # <<>> \/ tshark # "running" \/ taken = Readable
        \/ ~file.rows[taken + 1].warns \/ stderr < StderrLines
        \/ Cardinality({i \in 1 .. taken + 1 : file.rows[i].warns}) > StderrLines

(* Every usable row becomes one event, with the numbers of that row, in     *)
(* chunks that follow the file and are sorted inside; and parser and tshark *)
(* wait on each other for ever only over a full standard error.             *)
ParsingIsFaithful == EveryRowOnce /\ ChunksAreOrdered /\ WaitsOnlyForStderr
==============================================================================
