------------------------------- MODULE AuditLog -------------------------------
(***************************************************************************)
(* What OpenLogWriter.append provides: an append-only sequence of entries. *)
(* An entry is recorded at most once and stays where it was recorded, and  *)
(* the caller is told so only afterwards, whatever crashes.  One thing     *)
(* breaks this: an interrupted write that loses only its newline.  The     *)
(* next record then lands on the same line, and both are lost; the caller  *)
(* of the second may still be told that it is there, and the log takes no  *)
(* more.  Nothing is promised once somebody else edits the files.          *)
(***************************************************************************)
EXTENDS Integers, Sequences

CONSTANT Ids            \* names of the appended records

VARIABLES
    entries,            \* the records on disk that can be read back
    acked,              \* the records whose append resolved, in that order
    merged,             \* a record has run into the one before it
    intact              \* nobody but the writer has touched the files

Recorded == {entries[i] : i \in DOMAIN entries}
Confirmed == {acked[i] : i \in DOMAIN acked}

Init == entries = <<>> /\ acked = <<>> /\ merged = FALSE /\ intact = TRUE

\* A new record becomes durable, at the end.
Record(e) ==
    /\ ~merged
    /\ e \in Ids \ Recorded
    /\ entries' = Append(entries, e)
    /\ UNCHANGED <<acked, merged, intact>>

\* The caller of append hears that its record is durable.
Acknowledge(e) ==
    /\ ~merged
    /\ e \in Recorded \ Confirmed
    /\ acked' = Append(acked, e)
    /\ UNCHANGED <<entries, merged, intact>>

\* A record is written behind one that lost its newline, and that nobody was told of.
Merge ==
    /\ ~merged /\ merged' = TRUE
    /\ entries # <<>> /\ entries[Len(entries)] \notin Confirmed
    /\ entries' = SubSeq(entries, 1, Len(entries) - 1)
    /\ UNCHANGED <<acked, intact>>

\* Its caller is told, once, of a record that cannot be read back.
AcknowledgeMerged(e) ==
    /\ merged
    /\ e \in Ids \ Recorded
    /\ Confirmed \subseteq Recorded
    /\ acked' = Append(acked, e)
    /\ UNCHANGED <<entries, merged, intact>>

\* Somebody else changes the files.
Interfere == intact' = FALSE

Next ==
    \/ /\ intact
       /\ \/ \E e \in Ids : Record(e) \/ Acknowledge(e) \/ AcknowledgeMerged(e)
          \/ Merge
    \/ Interfere

Spec == Init /\ [][Next]_<<entries, acked, merged, intact>>
=============================================================================
