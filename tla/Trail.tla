-------------------------------- MODULE Trail --------------------------------
(***************************************************************************)
(* The trail a decision leaves: a line on stdout, the ring the management   *)
(* API and the governance records are drawn from, the JSONL file and the    *)
(* SQLite database - and what of it survives when the process dies.  The    *)
(* server has no orderly shutdown: every restart is a crash.                *)
(*                                                                          *)
(*   handler  idle -> push -> hook -> upsert -> insert -> answer -> idle    *)
(*                                                                          *)
(* The JSONL write of a record runs on a goroutine of its own, which dies   *)
(* with the process.  Loki's goroutines, and what a governance record       *)
(* becomes once it is drawn (Snapshots.tla), are left out.                  *)
(***************************************************************************)
EXTENDS Integers, FiniteSets, SequencesExt

CONSTANTS
  Sessions,
  Handlers,    \* goroutines with a call in the pipeline
  NoSession,
  Capacity,    \* of the ring, and the limit of a query: 1000 in cmd/main.go
  Printing,    \* audit.enabled of the policy: are lines printed?
  Faults,      \* what may fail: a statement ("exec"), a write ("append")
  MaxRecords,  \* bound: calls
  MaxCrashes   \* bound: restarts

ASSUME TrailAssumption ==
  /\ NoSession \notin Sessions
  /\ Capacity \in Nat \ {0}
  /\ Printing \in BOOLEAN
  /\ Faults \subseteq {"exec", "append"}
  /\ MaxRecords \in Nat /\ MaxCrashes \in Nat

Records == 1 .. MaxRecords  \* numbered as Log is called
NoRecord == 0

VARIABLES
  \* memory
  ring,       \* AuditRingBuffer: [buf, head, count]
  handler,    \* [at, rec] of each handler
  unwritten,  \* records whose JSONL goroutine has not run
  storing,    \* the record that holds SQLiteAuditSink.mu
  \* what outlives the process
  printed, jsonl, rows, sessionRows,
  \* bounds and ghosts
  records,    \* calls so far
  crashes,
  of,         \* the session of a record
  pushed,     \* records pushed, in order, over all restarts
  boot,       \* how many of them before the last restart
  answered,
  refused,    \* records with a statement that failed
  dropped     \* records whose line was not written: a failed write, a crash

memoryVars == <<ring, handler, unwritten, storing>>
diskVars   == <<printed, jsonl, rows, sessionRows>>
ghostVars  == <<records, crashes, of, pushed, boot, answered, refused, dropped>>
vars       == <<memoryVars, diskVars, ghostVars>>

-----------------------------------------------------------------------------
(* AuditRingBuffer *)

EmptyRing == [buf |-> [i \in 0 .. Capacity - 1 |-> NoRecord], head |-> 0, count |-> 0]

\* Mutant of Pushed: the head runs one past the end.
PushedPastTheEnd(r, rec) ==
  [buf |-> [r.buf EXCEPT ![r.head] = rec],
   head |-> (r.head + 1) % (Capacity + 1),
   count |-> IF r.count < Capacity THEN r.count + 1 ELSE r.count]

Pushed(r, rec) ==
  [buf |-> [r.buf EXCEPT ![r.head] = rec],
   head |-> (r.head + 1) % Capacity,
   count |-> IF r.count < Capacity THEN r.count + 1 ELSE r.count]

\* Newest first.
Query(r) ==
  [i \in 1 .. r.count |-> r.buf[(r.head - i + Capacity) % Capacity]]

\* Those of a sequence of records that are among some, in its order.
Filtered(recs, some) ==
  LET kept[i \in 0 .. Len(recs)] ==
        IF i = 0 THEN <<>>
        ELSE IF recs[i] \in some THEN Append(kept[i - 1], recs[i]) ELSE kept[i - 1]
  IN kept[Len(recs)]

RecordsOf(s) == {rec \in Records : of[rec] = s}

QuerySession(r, s) == Filtered(Query(r), RecordsOf(s))

\* Mutant of Steps: the query's order is kept.
StepsAsQueried(s) == QuerySession(ring, s)

\* What a governance record drawn now would tell of s, in chronological order.
Steps(s) == Reverse(QuerySession(ring, s))

-----------------------------------------------------------------------------
(* A call: TeeAuditLogger.Log, the ring's hook chain, and the answer *)

\* AuditLogger.Log prints the line of a new record.
PrintLine(h, s) ==
  /\ handler[h].at = "idle"
  /\ records < MaxRecords
  /\ records' = records + 1
  /\ of' = [of EXCEPT ![records + 1] = s]
  /\ handler' = [handler EXCEPT ![h] = [at |-> "push", rec |-> records + 1]]
  /\ printed' = IF Printing THEN printed \cup {records + 1} ELSE printed
  /\ UNCHANGED <<ring, unwritten, storing, jsonl, rows, sessionRows, crashes,
                 pushed, boot, answered, refused,
                 dropped>>

Step(h, from, to) ==
  /\ handler[h].at = from
  /\ handler' = [handler EXCEPT ![h] =
       [at |-> to, rec |-> IF to = "idle" THEN NoRecord ELSE @.rec]]
  /\ UNCHANGED <<printed, jsonl, records, crashes, of, boot>>

PushRecord(h) ==
  /\ Step(h, "push", "hook")
  /\ ring' = Pushed(ring, handler[h].rec)
  /\ pushed' = Append(pushed, handler[h].rec)
  /\ UNCHANGED <<unwritten, storing, rows, sessionRows, answered, refused,
                 dropped>>

Hooked(h, to, queued) ==
  /\ Step(h, "hook", to)
  /\ unwritten' = unwritten \cup queued
  /\ UNCHANGED <<ring, storing, rows, sessionRows, pushed, answered, refused,
                 dropped>>

\* JSONLRecordSink.Push; the hook set last calls the existing one first.
SpawnWriter(h) == Hooked(h, "upsert", {handler[h].rec})

\* A statement of SQLiteAuditSink.Push, whose error nobody looks at.
Exec(h, done) ==
  \/ done /\ UNCHANGED refused
  \/ /\ "exec" \in Faults
     /\ refused' = refused \cup {handler[h].rec}
     /\ UNCHANGED <<rows, sessionRows>>

AddSession(h) == sessionRows' = sessionRows \cup {of[handler[h].rec]} /\ UNCHANGED rows
AddRow(h)     == rows' = rows \cup {handler[h].rec} /\ UNCHANGED sessionRows

Locked(h, done) ==
  /\ Step(h, "upsert", "insert")
  /\ storing = NoRecord
  /\ storing' = handler[h].rec
  /\ Exec(h, done)
  /\ UNCHANGED <<ring, unwritten, pushed, answered, dropped>>

\* Mutant of Upsert: the decision is inserted before its session.
InsertFirst(h) == Locked(h, AddRow(h))

\* Under the sink's mutex, the session's row ...
Upsert(h) == Locked(h, AddSession(h))

\* ... and then the decision's, each in a transaction of its own.
Insert(h) ==
  /\ Step(h, "insert", "answer")
  /\ storing' = NoRecord
  /\ Exec(h, AddRow(h))
  /\ UNCHANGED <<ring, unwritten, pushed, answered, dropped>>

Answer(h) ==
  /\ Step(h, "answer", "idle")
  /\ answered' = answered \cup {handler[h].rec}
  /\ UNCHANGED <<ring, unwritten, storing, rows, sessionRows, pushed, refused,
                 dropped>>

\* JSONLRecordSink.write, under its mutex: open, append, close.  The goroutines
\* take the mutex in any order, and so the lines have none.
WriteLine(rec) ==
  /\ rec \in unwritten
  /\ unwritten' = unwritten \ {rec}
  /\ \/ jsonl' = jsonl \cup {rec} /\ UNCHANGED dropped
     \/ /\ "append" \in Faults
        /\ dropped' = dropped \cup {rec}
        /\ UNCHANGED jsonl
  /\ UNCHANGED <<ring, handler, storing, printed, rows, sessionRows, records,
                 crashes, of, pushed, boot, answered, refused>>

\* External: the process dies and is started again.
Crash ==
  /\ crashes < MaxCrashes
  /\ crashes' = crashes + 1
  /\ ring' = EmptyRing
  /\ handler' = [h \in Handlers |-> [at |-> "idle", rec |-> NoRecord]]
  /\ dropped' = dropped \cup unwritten
  /\ unwritten' = {}
  /\ storing' = NoRecord
  /\ boot' = Len(pushed)
  /\ UNCHANGED <<diskVars, records, of, pushed, answered, refused>>

-----------------------------------------------------------------------------
Init ==
  /\ ring = EmptyRing
  /\ handler = [h \in Handlers |-> [at |-> "idle", rec |-> NoRecord]]
  /\ unwritten = {} /\ storing = NoRecord
  /\ printed = {} /\ jsonl = {} /\ rows = {} /\ sessionRows = {}
  /\ records = 0 /\ crashes = 0
  /\ of = [r \in Records |-> NoSession]
  /\ pushed = <<>> /\ boot = 0
  /\ answered = {} /\ refused = {} /\ dropped = {}

Log(h) ==
  \/ \E s \in Sessions : PrintLine(h, s)
  \/ PushRecord(h) \/ SpawnWriter(h) \/ Upsert(h) \/ Insert(h) \/ Answer(h)

Next ==
  \/ \E h \in Handlers : Log(h)
  \/ \E r \in Records : WriteLine(r)
  \/ Crash

Spec == Init /\ [][Next]_vars

-----------------------------------------------------------------------------
(* Properties *)

\* Every variable stays within its type, and every index within the buffer.
TypeOK ==
  /\ ring.head \in 0 .. Capacity - 1 /\ ring.count \in 0 .. Capacity
  /\ ring.buf \in [0 .. Capacity - 1 -> Records \cup {NoRecord}]
  /\ handler \in [Handlers ->
       [at : {"idle", "push", "hook", "upsert", "insert", "answer"},
        rec : Records \cup {NoRecord}]]
  /\ unwritten \subseteq Records
  /\ storing \in Records \cup {NoRecord}
  /\ printed \subseteq Records /\ rows \subseteq Records
  /\ sessionRows \subseteq Sessions
  /\ jsonl \subseteq Records
  /\ records \in 0 .. MaxRecords /\ crashes \in 0 .. MaxCrashes
  /\ of \in [Records -> Sessions \cup {NoSession}]
  /\ pushed \in Seq(Records) /\ boot \in 0 .. Len(pushed)
  /\ answered \subseteq Records /\ refused \subseteq Records
  /\ dropped \subseteq Records

\* The ring answers with exactly the newest records since the last restart, as
\* many as it has room for, newest first.
RingIsNewest ==
  LET since == Len(pushed) - boot
      kept  == IF since < Capacity THEN since ELSE Capacity
  IN  /\ ring.count = kept
      /\ \A i \in 1 .. kept : Query(ring)[i] = pushed[Len(pushed) - i + 1]

\* A governance record tells what its session did, in the order it was done: all
\* that was pushed since the restart and is not overwritten yet.
RecordOfSession ==
  LET from == IF Len(pushed) - Capacity > boot THEN Len(pushed) - Capacity ELSE boot
  IN  \A s \in Sessions :
        Steps(s) = Filtered(SubSeq(pushed, from + 1, Len(pushed)), RecordsOf(s))

\* Ring, queries and governance records agree, also when the ring wraps or restarts.
RecordTellsTheStory == RingIsNewest /\ RecordOfSession

\* A decision an agent acts on is on the record first: its row is in SQLite, and
\* its line on stdout if lines are printed, across every crash, unless SQLite
\* refused the row.  The line of the JSONL file is there, or a goroutine still has
\* it, unless the write failed or the process died.  And no crash leaves a row without
\* the row of its session.
AnsweredIsDurable ==
  /\ \A r \in answered :
       /\ Printing => r \in printed
       /\ r \in rows \/ r \in refused
       /\ r \in jsonl \cup unwritten \cup dropped
  /\ \A r \in rows : of[r] \in sessionRows \/ r \in refused

=============================================================================
