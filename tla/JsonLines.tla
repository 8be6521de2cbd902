------------------------------ MODULE JsonLines ------------------------------
(***************************************************************************)
(* The append-only JSONL files of defi_autonomy.  A record is appended as  *)
(* one line; a write cut short leaves a line without its newline, and the  *)
(* next append is glued to it.  The readers decode line after line and     *)
(* stop, silently, at the first one that is not JSON: what follows a       *)
(* damaged line is not there for them.                                     *)
(***************************************************************************)
EXTENDS Naturals, Sequences

CONSTANTS
    Torn,           \* a cut line, without its newline
    Glued           \* a cut line with a later record glued to it

Damaged == {Torn, Glued}

EndsTorn(log) == log # <<>> /\ log[Len(log)] = Torn

AppendLine(log, r) ==
    IF EndsTorn(log) THEN [log EXCEPT ![Len(log)] = Glued] ELSE Append(log, r)

TearLine(log) == IF EndsTorn(log) THEN log ELSE Append(log, Torn)

\* The lines a reader decodes.
Readable(log) == {i \in DOMAIN log : \A j \in 1..i : log[j] \notin Damaged}

Entries(log) == {log[i] : i \in Readable(log)}

\* All whole lines, also those no reader reaches.
Written(log) == {log[i] : i \in DOMAIN log} \ Damaged
=============================================================================
