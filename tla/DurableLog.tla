----------------------------- MODULE DurableLog -----------------------------
(***************************************************************************)
(* The append-only run log: crates/agent-log's writer and reader, and the  *)
(* tail sync of the agent loop that feeds the writer.                      *)
(*                                                                         *)
(* A row is three cells: two halves of its JSON body and the LF.  Row n    *)
(* carries seq n, and row 1 is the Header.  A `write' may stop after any   *)
(* cell, an fsync may fail, and a crash keeps any cut of the file at or    *)
(* behind the last fsync that succeeded.  A row larger than BufWriter's    *)
(* buffer is written past it: what such a write leaves unwritten is lost,  *)
(* what a buffered write leaves stays buffered.  An fsync that succeeds    *)
(* after one that failed is taken to cover the whole file.                 *)
(***************************************************************************)
EXTENDS Integers, Sequences, FiniteSets

CONSTANTS
    MaxRows,    \* rows recorded before the closing one (bound)
    Large,      \* the rows longer than BufWriter's 8 KiB
    IoMayFail   \* writes and fsyncs may return an error

ASSUME LogAssumption == MaxRows \in Nat \ {0} /\ Large \subseteq Nat /\ IoMayFail \in BOOLEAN

VARIABLES
    file,     \* the cells of the log file
    durable,  \* how many of them the last successful fsync covered
    buf,      \* BufWriter's cells
    items,    \* rows in memory (LoopState.items)
    synced,   \* RunCtx.synced: rows whose append returned Ok
    ending,   \* finish has appended its TurnEnd row
    status,   \* "idle", in an append: "writing" or "fsync"; "closed" or "down"
    seen      \* history: the last row acknowledged, and whether an append ever failed

vars == <<file, durable, buf, items, synced, ending, status, seen>>

Row(n) == <<[row |-> n, part |-> "head"], [row |-> n, part |-> "tail"], [row |-> n, part |-> "lf"]>>

-----------------------------------------------------------------------------
(* read_log and validate_log, over any sequence of cells. *)

LineEnds(f) == {e \in 1..(Len(f) + 1) : e = Len(f) + 1 \/ f[e].part = "lf"}

\* The first cell of the line that ends before e.
LineStart(f, e) ==
    IF \E d \in LineEnds(f) : d < e
    THEN 1 + CHOOSE d \in LineEnds(f) : d < e /\ \A c \in LineEnds(f) : c < e => c <= d
    ELSE 1

\* The nonempty chunks between LFs, by their ends; a missing final LF ends a chunk too.
Chunks(f) == {e \in LineEnds(f) : LineStart(f, e) < e}

Parses(f, e) ==
    LET s == LineStart(f, e)
    IN  e = s + 2 /\ f[s].part = "head" /\ f[s + 1].part = "tail" /\ f[s].row = f[s + 1].row

\* A chunk that does not parse is a torn tail when it is the last one, else corruption.
Corrupt(f) == \E e \in Chunks(f) : ~Parses(f, e) /\ \E d \in Chunks(f) : d > e

Entries(f) == {e \in Chunks(f) : Parses(f, e)}

\* The first entry is the Header (row 1), and the n-th entry carries seq n.
Gapless(f) ==
    \A e \in Entries(f) :
        f[LineStart(f, e)].row = Cardinality({d \in Entries(f) : d <= e})

Readable(f) == ~Corrupt(f) /\ Gapless(f)
RowsRead(f) == Cardinality(Entries(f))

\* A bug in which open trusts the file's last byte.
RepairedNothing(f) == f

\* truncate_torn_tail: keep everything up to the last LF.
Repaired(f) ==
    SubSeq(f, 1, IF \E i \in 1..Len(f) : f[i].part = "lf"
                 THEN CHOOSE i \in 1..Len(f) :
                          f[i].part = "lf" /\ \A j \in (i + 1)..Len(f) : f[j].part # "lf"
                 ELSE 0)

RowsAfterOpen(f) == RowsRead(Repaired(f))

-----------------------------------------------------------------------------
(* The writer, and the loop's sync over it. *)

Init ==
    /\ file = <<>>
    /\ durable = 0
    /\ buf = <<>>
    /\ items = 0
    /\ synced = 0
    /\ ending = FALSE
    /\ status = "idle"
    /\ seen = [acked |-> 0, failed |-> FALSE]

\* append_to: a handler of the loop records a row; the first one is the Header.
AppendRow ==
    /\ status = "idle" /\ synced = items /\ ~ending
    /\ items < MaxRows
    /\ items' = items + 1
    /\ UNCHANGED <<file, durable, buf, synced, ending, status, seen>>

\* finish: the TurnEnd row of a run that ends by itself.
AppendEnd ==
    /\ status = "idle" /\ synced = items /\ ~ending /\ items \in 1..MaxRows
    /\ items' = items + 1
    /\ ending' = TRUE
    /\ UNCHANGED <<file, durable, buf, synced, status, seen>>

\* sync takes the first row that is not synced to LogWriter::append.
BeginAppend ==
    /\ status = "idle" /\ synced < items
    /\ buf' = buf \o Row(synced + 1)
    /\ status' = "writing"
    /\ UNCHANGED <<file, durable, items, synced, ending, seen>>

WriteCell ==
    /\ status = "writing" /\ buf # <<>>
    /\ file' = Append(file, Head(buf))
    /\ buf' = Tail(buf)
    /\ UNCHANGED <<durable, items, synced, ending, status, seen>>

\* A bug: no flush between the buffered write and the barrier.
FlushSkipped ==
    /\ status = "writing"
    /\ status' = "fsync"
    /\ UNCHANGED <<file, durable, buf, items, synced, ending, seen>>

Flushed ==
    /\ status = "writing" /\ buf = <<>>
    /\ status' = "fsync"
    /\ UNCHANGED <<file, durable, buf, items, synced, ending, seen>>

\* A bug: Ok without the barrier.
FsyncSkipped ==
    /\ status = "fsync"
    /\ synced' = synced + 1
    /\ status' = "idle"
    /\ seen' = [seen EXCEPT !.acked = synced + 1]
    /\ UNCHANGED <<file, durable, buf, items, ending>>

\* sync_all succeeded: append returns Ok.
Fsync ==
    /\ status = "fsync"
    /\ durable' = Len(file)
    /\ synced' = synced + 1
    /\ status' = "idle"
    /\ seen' = [seen EXCEPT !.acked = synced + 1]
    /\ UNCHANGED <<file, buf, items, ending>>

\* Err of append: sync stops, the run is failed, and `finish' appends its TurnEnd row and
\* syncs once more from the first row that is not synced.  The second failure closes the log.
AppendFailed ==
    /\ IF ending
       THEN status' = "closed" /\ UNCHANGED <<items, ending>>
       ELSE status' = "idle" /\ items' = items + 1 /\ ending' = TRUE
    /\ seen' = [seen EXCEPT !.failed = TRUE]

\* What a failed write leaves in the buffer.  The cells of a large row were never in it, and
\* a row that does not fit behind an older remainder waits for a flush that failed.
Retained ==
    LET older == SubSeq(buf, 1, IF Len(buf) > 3 THEN Len(buf) - 3 ELSE 0)
    IN  IF synced + 1 \in Large THEN {older}
        ELSE {buf} \union (IF older = <<>> THEN {} ELSE {older})

WriteFails ==
    /\ IoMayFail /\ status = "writing" /\ buf # <<>>
    /\ buf' \in Retained
    /\ AppendFailed
    /\ UNCHANGED <<file, durable, synced>>

FsyncFails ==
    /\ IoMayFail /\ status = "fsync"
    /\ AppendFailed
    /\ UNCHANGED <<file, durable, buf, synced>>

Close ==
    /\ status = "idle" /\ ending /\ synced = items
    /\ status' = "closed"
    /\ UNCHANGED <<file, durable, buf, items, synced, ending, seen>>

\* Dropping the BufWriter writes what it still holds, as far as that goes.
DropBuffer ==
    /\ status = "closed" /\ buf # <<>>
    /\ \E k \in IF IoMayFail THEN 0..Len(buf) ELSE {Len(buf)} : file' = file \o SubSeq(buf, 1, k)
    /\ buf' = <<>>
    /\ UNCHANGED <<durable, items, synced, ending, status, seen>>

\* The process or the machine dies: any cut at or behind the last fsync may remain.
Crash ==
    /\ status # "down"
    /\ \E k \in durable..Len(file) : file' = SubSeq(file, 1, k)
    /\ buf' = <<>>
    /\ status' = "down"
    /\ UNCHANGED <<durable, items, synced, ending, seen>>

\* LogWriter::open on what a crash left, by an owner that goes on behind the rows read_log
\* then returns.  It refuses a log it cannot read.
Reopen ==
    /\ status = "down" /\ Readable(Repaired(file))
    /\ file' = Repaired(file)
    /\ durable' = IF durable < Len(file') THEN durable ELSE Len(file')
    /\ items' = RowsAfterOpen(file)
    /\ synced' = items'
    /\ ending' = FALSE
    /\ status' = "idle"
    /\ UNCHANGED <<buf, seen>>

Refused == status = "down" /\ ~Readable(Repaired(file)) /\ UNCHANGED vars

Next ==
    \/ AppendRow \/ AppendEnd \/ BeginAppend \/ WriteCell \/ Flushed \/ Fsync
    \/ WriteFails \/ FsyncFails \/ Close \/ DropBuffer \/ Crash \/ Reopen \/ Refused

Spec == Init /\ [][Next]_vars

-----------------------------------------------------------------------------
(* What the log promises. *)

\* "Ok means durable" (writer.rs append): every row whose append returned Ok is in the part
\* of the file that survives any crash, whole, through failed appends, crashes and repairs.
AckedOnDisk ==
    \A n \in 1..seen.acked : \E p \in 1..durable : SubSeq(file, p, p + 2) = Row(n) /\ p + 2 <= durable

\* As long as no append returned an error, the file can be read at any moment, crashed,
\* repaired or in the middle of a write, and the reader returns every acknowledged row and
\* none that was not recorded (reader.rs read_log, writer.rs truncate_torn_tail).
ReadableAtAnyCut ==
    ~seen.failed =>
        /\ Readable(file) /\ Readable(Repaired(file))
        /\ RowsRead(Repaired(file)) \in seen.acked..items
        /\ RowsRead(file) \in seen.acked..items

\* A log that was closed without an error holds every row of the run, and nothing of it is
\* left in the buffer (run.rs finish).
ClosedComplete ==
    status = "closed" /\ ~seen.failed => buf = <<>> /\ RowsRead(file) = items

\* What append_to says of the file: "the file-backed run log validates gapless-from-1".
ClosedLogReadable == status = "closed" /\ buf = <<>> => Readable(file)

=============================================================================
