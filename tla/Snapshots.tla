------------------------------- MODULE Snapshots -------------------------------
(***************************************************************************)
(* The file of governance records: the project's context/snapshots, or the   *)
(* guard's own where there is none.  A goroutine per record reads the file,  *)
(* appends and renames a copy over it, under its process's lock; people and  *)
(* other guards keep no lock.  A session's registration reads from it what   *)
(* people wrote lately.                                                      *)
(*                                                                          *)
(*   record   none -> emitted -> read -> copied -> written   (or lost)       *)
(*                                                                          *)
(* Two guards' writes to the one temporary name come one after the other.    *)
(***************************************************************************)
EXTENDS Integers, Sequences, FiniteSets, Functions

CONSTANTS
  Guards,   \* processes
  Records,  \* governance records
  ContextLimit, \* the limit of snapshots in a context
  MaxNotes  \* bound: entries people write

ASSUME SnapshotBounds == ContextLimit \in Nat \ {0} /\ MaxNotes \in Nat

Notes == [note : 1 .. MaxNotes, summary : BOOLEAN]
Entry == Records \cup Notes

\* The guard's entries are told by their source.
ASSUME RecordsAreNoNotes == Records \cap Notes = {}

VARIABLES
  history, \* the file: whether it is there and reads, and its entries
  copy,    \* the file of the temporary name
  record,  \* of each record: where it is, in which process, the entries it read
  editor,  \* a person's editor: whether it is open, and the entries in it
  notes,   \* entries people wrote
  context, \* the entries a registration read last
  mixed    \* the file was rewritten by two at once, or left unreadable

snapshotVars == <<history, copy, record, editor, notes, context, mixed>>

Nothing == [form |-> "none", entries |-> <<>>]
Broken == [form |-> "torn", entries |-> <<>>]
Whole(entries) == [form |-> "whole", entries |-> entries]
Note(i, summary) == [note |-> i, summary |-> summary]
NotesOf(entries) == {i \in DOMAIN entries : entries[i] \notin Records}

Inside(r) == record[r].at \in {"read", "copied"}
OtherGuardInside(r) == \E o \in Records : Inside(o) /\ record[o].by # record[r].by
RecordStep(r, from, state) == record[r].at = from /\ record' = [record EXCEPT ![r] = state]
Turns(r, to) == [record[r] EXCEPT !.at = to]
Ends(r, to) == [record[r] EXCEPT !.at = to, !.entries = <<>>]

-----------------------------------------------------------------------------
(* Writing *)

\* A session left: EmitAsync starts a goroutine.
EmitAsync(r, g) ==
  /\ RecordStep(r, "none", [at |-> "emitted", by |-> g, entries |-> <<>>])
  /\ UNCHANGED <<history, copy, editor, notes, context, mixed>>

\* Mutant of ReadEntries: no lock.
ReadUnlocked(r) ==
  /\ RecordStep(r, "emitted", [Turns(r, "read") EXCEPT !.entries = history.entries])
  /\ mixed' = (mixed \/ editor.open \/ OtherGuardInside(r))
  /\ UNCHANGED <<history, copy, editor, notes, context>>

\* Lock and read: a file that is not there or does not parse has no entries.
ReadEntries(r) ==
  /\ \A o \in Records : Inside(o) => record[o].by # record[r].by
  /\ RecordStep(r, "emitted", [Turns(r, "read") EXCEPT !.entries = history.entries])
  /\ mixed' = (mixed \/ editor.open \/ OtherGuardInside(r))
  /\ UNCHANGED <<history, copy, editor, notes, context>>

WriteCopy(r) ==
  /\ RecordStep(r, "read", Turns(r, "copied"))
  /\ copy' = Whole(Append(record[r].entries, r))
  /\ UNCHANGED <<history, editor, notes, context, mixed>>

\* Another guard may have renamed the copy, its own or this one.
Rename(r) ==
  /\ IF copy.form = "none"
     THEN RecordStep(r, "copied", Ends(r, "lost")) /\ UNCHANGED <<history, copy>>
     ELSE /\ RecordStep(r, "copied", Ends(r, "written"))
          /\ history' = copy
          /\ copy' = Nothing
  /\ UNCHANGED <<editor, notes, context, mixed>>

\* The disk: the record is lost and half a copy may stay.
WriteFails(r) ==
  /\ RecordStep(r, "read", Ends(r, "lost"))
  /\ copy' \in {copy, Broken}
  /\ UNCHANGED <<history, editor, notes, context, mixed>>

\* Goroutines die with their process, in the middle of the copy too.
GuardDies(g) ==
  LET its == {r \in Records : record[r].by = g /\ record[r].at \in {"emitted", "read", "copied"}} IN
  /\ its # {}
  /\ record' = [r \in Records |-> IF r \in its THEN Ends(r, "lost") ELSE record[r]]
  /\ copy' \in {copy} \cup (IF \E r \in its : record[r].at = "read" THEN {Broken} ELSE {})
  /\ UNCHANGED <<history, editor, notes, context, mixed>>

-----------------------------------------------------------------------------
(* People *)

OpenEditor ==
  /\ ~editor.open /\ history.form # "torn" /\ notes < MaxNotes
  /\ editor' = [open |-> TRUE, entries |-> history.entries]
  /\ mixed' = (mixed \/ \E r \in Records : Inside(r))
  /\ UNCHANGED <<history, copy, record, notes, context>>

SaveNote ==
  /\ editor.open
  /\ editor' = [open |-> FALSE, entries |-> <<>>]
  /\ notes' = notes + 1
  /\ \/ /\ \E summary \in BOOLEAN :
             history' = Whole(Append(editor.entries, Note(notes + 1, summary)))
        /\ UNCHANGED mixed
     \/ history' = Broken /\ mixed' = TRUE
  /\ UNCHANGED <<copy, record, context>>

-----------------------------------------------------------------------------
(* Reading *)

\* readRecentSnapshots: people's entries, the last of them, those with a summary.
RecentSnapshots ==
  LET people == NotesOf(history.entries)
      last == {i \in people : Cardinality({j \in people : j > i}) < ContextLimit}
  IN {history.entries[i] : i \in {j \in last : history.entries[j].summary}}

ReadContext ==
  /\ context' = RecentSnapshots
  /\ UNCHANGED <<history, copy, record, editor, notes, mixed>>

SnapshotsInit ==
  /\ history = Nothing /\ copy = Nothing
  /\ record = [r \in Records |-> [at |-> "none", by |-> "nobody", entries |-> <<>>]]
  /\ editor = [open |-> FALSE, entries |-> <<>>]
  /\ notes = 0 /\ context = {} /\ mixed = FALSE

SnapshotsNext ==
  \/ \E r \in Records :
       \/ \E g \in Guards : EmitAsync(r, g)
       \/ ReadEntries(r) \/ WriteCopy(r) \/ Rename(r) \/ WriteFails(r)
  \/ \E g \in Guards : GuardDies(g)
  \/ OpenEditor \/ SaveNote \/ ReadContext

-----------------------------------------------------------------------------
(* Properties *)

SnapshotsTypeOK ==
  /\ \A f \in {history, copy} : f.form \in {"none", "whole", "torn"} /\ Range(f.entries) \subseteq Entry
  /\ \A r \in Records : /\ record[r].at \in {"none", "emitted", "read", "copied", "written", "lost"}
                        /\ record[r].by \in Guards \cup {"nobody"}
                        /\ Range(record[r].entries) \subseteq Entry
  /\ editor.open \in BOOLEAN /\ Range(editor.entries) \subseteq Entry
  /\ notes \in 0 .. MaxNotes
  /\ mixed \in BOOLEAN

\* Records are written in the background, fail half-way and die with their guard; people
\* write between them.  As long as no two rewrite the file at once and nobody breaks it,
\* it holds each record that was reported written and each note, once, in the order they
\* came, and nothing of a record that was not - whatever a dead guard left behind.
HistoryIsKept ==
  ~mixed =>
    /\ history.form # "torn"
    /\ {r \in Records : r \in Range(history.entries)} = {r \in Records : record[r].at = "written"}
    /\ IsInjective(history.entries)
    /\ {history.entries[i].note : i \in NotesOf(history.entries)} = 1 .. notes
    /\ \A i, j \in NotesOf(history.entries) :
         i < j => history.entries[i].note < history.entries[j].note

\* The guard's own records never come back to it as what the project is about, and an
\* intent is made of no more than the limit of notes.
NoFeedback == context \cap Records = {} /\ Cardinality(context) <= ContextLimit

SnapshotsAreKept == HistoryIsKept /\ NoFeedback
=============================================================================
