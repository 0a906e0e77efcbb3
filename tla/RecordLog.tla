----------------------------- MODULE RecordLog -----------------------------
(***************************************************************************)
(* The JSONL files that the record components keep: a file is a sequence   *)
(* of rows, and each component has its own copy of three small functions.  *)
(*   _read_jsonl    reads all rows; a line that does not parse raises;     *)
(*   _append_jsonl  opens the file with "a" and writes one line;           *)
(*   _write_jsonl   opens it with "w", which empties it, and writes every  *)
(*                  row from the start of the file.                        *)
(* Emptying and filling are two steps, and what others write in between is *)
(* overwritten from the start.                                             *)
(***************************************************************************)
EXTENDS KernelBase, SequencesExt

\* Torn: the file has a line that does not parse.
Readable(file) == file # Torn
RowsOf(file) == IF file = Absent THEN <<>> ELSE file
Appended(file, row) == IF file = Torn THEN Torn ELSE Append(RowsOf(file), row)

\* What is left when rows are written over a file that is not empty any more:
\* what was longer stays behind them, in whole lines or in part of one.
FilledOver(file, rows) ==
    IF file \in {<<>>, Absent} THEN {rows}
    ELSE IF file = Torn THEN {rows, Torn}
    ELSE {rows, Torn} \cup
         {rows \o SubSeq(file, n, Len(file)) : n \in Len(rows) + 1 .. Len(file)}

Mentions(rows, id) == \E i \in DOMAIN rows : rows[i].id = id
FirstFor(rows, id) ==
    rows[CHOOSE n \in DOMAIN rows : rows[n].id = id /\ \A m \in 1 .. n - 1 : rows[m].id # id]

\* The place of the last row of an id.
LastRow(rows, id) == CHOOSE n \in DOMAIN rows : rows[n].id = id /\ \A m \in n + 1 .. Len(rows) : rows[m].id # id

\* The body of the loop that puts one row in the place of the rows of one id.
WithRow(rows, id, new) == [i \in DOMAIN rows |-> IF rows[i].id = id THEN new ELSE rows[i]]
=============================================================================
