----------------------------- MODULE TrailProofs -----------------------------
(***************************************************************************)
(* What is proved of the trail, for every ring capacity, any number of     *)
(* handlers, calls and restarts, and every subset of the faults: its types, *)
(* that the ring keeps exactly the newest records in their order and a      *)
(* governance record tells what its session did, and that what an agent acts *)
(* on is on the record first.                                               *)
(***************************************************************************)
EXTENDS Trail, WellFoundedInduction, TLAPS

HandlerRecord ==
  [at : {"idle", "push", "hook", "upsert", "insert", "answer"}, rec : Records \cup {NoRecord}]

\* A handler's record is one of those begun, and the records begun have a session.
Numbered ==
  /\ \A h \in Handlers : IF handler[h].at = "idle" THEN handler[h].rec = NoRecord
                                                   ELSE handler[h].rec \in 1 .. records
  /\ \A r \in 1 .. records : of[r] \in Sessions

Core == TypeOK /\ Numbered

-----------------------------------------------------------------------------
(* The ring *)

\* Modulo a capacity, as the buffer's indices use it.
LEMMA Wraps ==
  ASSUME NEW head \in 0 .. Capacity - 1
  PROVE  /\ (head + 1) % Capacity = IF head + 1 = Capacity THEN 0 ELSE head + 1
         /\ (head + 1) % Capacity \in 0 .. Capacity - 1
         /\ \A i \in 1 .. Capacity :
              /\ (head - i + Capacity) % Capacity = IF i <= head THEN head - i
                                                              ELSE head - i + Capacity
              /\ (head - i + Capacity) % Capacity \in 0 .. Capacity - 1
BY TrailAssumption

\* A push moves every kept record one place back in the query, and puts itself first.
LEMMA PushedDoes ==
  ASSUME NEW r, r.head \in 0 .. Capacity - 1, r.count \in 0 .. Capacity,
         r.buf \in [0 .. Capacity - 1 -> Records \cup {NoRecord}],
         NEW rec \in Records
  PROVE  LET p == Pushed(r, rec)
         IN  /\ p.head \in 0 .. Capacity - 1 /\ p.count \in 0 .. Capacity
             /\ p.buf \in [0 .. Capacity - 1 -> Records \cup {NoRecord}]
             /\ p.count = IF r.count < Capacity THEN r.count + 1 ELSE Capacity
             /\ p.buf[(p.head - 1 + Capacity) % Capacity] = rec
             /\ \A i \in 1 .. Capacity - 1 :
                  p.buf[(p.head - (i + 1) + Capacity) % Capacity]
                    = r.buf[(r.head - i + Capacity) % Capacity]
<1> DEFINE p == Pushed(r, rec)
<1>1. /\ p.buf = [r.buf EXCEPT ![r.head] = rec]
      /\ p.head = (r.head + 1) % Capacity
      /\ p.count = IF r.count < Capacity THEN r.count + 1 ELSE r.count
  BY DEF Pushed
<1> HIDE DEF p
<1>2. p.head = (IF r.head + 1 = Capacity THEN 0 ELSE r.head + 1) /\ p.head \in 0 .. Capacity - 1
  BY <1>1, Wraps
<1>3. p.buf \in [0 .. Capacity - 1 -> Records \cup {NoRecord}]
  BY <1>1
<1>4. p.count \in 0 .. Capacity /\ p.count = IF r.count < Capacity THEN r.count + 1 ELSE Capacity
  BY <1>1, TrailAssumption
<1>0. Capacity \in Nat \ {0} /\ 1 \in 1 .. Capacity
  BY TrailAssumption
<1>5. (p.head - 1 + Capacity) % Capacity = r.head
  <2>1. (p.head - 1 + Capacity) % Capacity
          = IF 1 <= p.head THEN p.head - 1 ELSE p.head - 1 + Capacity
    BY <1>0, <1>2, Wraps
  <2> QED BY <1>0, <1>2, <2>1
<1>6. ASSUME NEW i \in 1 .. Capacity - 1
      PROVE  p.buf[(p.head - (i + 1) + Capacity) % Capacity]
               = r.buf[(r.head - i + Capacity) % Capacity]
  <2> DEFINE k == (r.head - i + Capacity) % Capacity
             l == (p.head - (i + 1) + Capacity) % Capacity
  <2>0. i \in 1 .. Capacity /\ i + 1 \in 1 .. Capacity
    BY <1>0
  <2>4. k = IF i <= r.head THEN r.head - i ELSE r.head - i + Capacity
    BY <2>0, Wraps
  <2>5. l = IF i + 1 <= p.head THEN p.head - (i + 1) ELSE p.head - (i + 1) + Capacity
    BY <1>2, <2>0, Wraps
  <2> HIDE DEF k, l
  <2>1. k \in 0 .. Capacity - 1 /\ k # r.head
    BY <1>0, <2>0, <2>4
  <2>2. l = k
    <3>0. r.head \in 0 .. Capacity - 1
      OBVIOUS
    <3>1. CASE r.head + 1 = Capacity
      <4>1. i <= r.head /\ ~(i + 1 <= p.head) /\ p.head = 0
        BY <1>0, <1>2, <2>0, <3>0, <3>1
      <4>2. k = r.head - i /\ l = 0 - (i + 1) + Capacity
        BY <2>4, <2>5, <4>1
      <4> QED BY <1>0, <2>0, <3>0, <3>1, <4>2
    <3>2. CASE r.head + 1 # Capacity
      <4>1. p.head = r.head + 1 /\ (i <= r.head <=> i + 1 <= p.head)
        BY <1>0, <1>2, <2>0, <3>0, <3>2
      <4> QED BY <1>0, <2>0, <2>4, <2>5, <3>0, <4>1
    <3> QED BY <3>1, <3>2
  <2>3. p.buf[k] = r.buf[k]
    BY <1>1, <2>1
  <2> QED BY <2>2, <2>3 DEF k, l
<1> QED BY <1>1, <1>2, <1>3, <1>4, <1>5, <1>6 DEF p

-----------------------------------------------------------------------------
(* Types *)

LEMMA StepDoes ==
  ASSUME TypeOK, NEW h \in Handlers,
         NEW from, NEW to \in {"push", "hook", "upsert", "insert", "answer", "idle"},
         Step(h, from, to)
  PROVE  /\ handler' \in [Handlers -> HandlerRecord]
         /\ handler[h].at = from /\ handler'[h].at = to
         /\ handler'[h].rec = IF to = "idle" THEN NoRecord ELSE handler[h].rec
         /\ \A g \in Handlers \ {h} : handler'[g] = handler[g]
<1> DEFINE new == [at |-> to, rec |-> IF to = "idle" THEN NoRecord ELSE handler[h].rec]
<1>1. handler' = [handler EXCEPT ![h] = new] /\ handler[h].at = from
  BY DEF Step
<1>2. new \in HandlerRecord /\ new.at = to
      /\ new.rec = IF to = "idle" THEN NoRecord ELSE handler[h].rec
  BY DEF HandlerRecord, TypeOK
<1> HIDE DEF new
<1>3. handler \in [Handlers -> HandlerRecord]
  BY DEF TypeOK, HandlerRecord
<1> QED BY <1>1, <1>2, <1>3

LEMMA BeginDoes ==
  ASSUME Core, NEW h \in Handlers, NEW s \in Sessions, PrintLine(h, s)
  PROVE  /\ records + 1 \in Records /\ records' = records + 1
         /\ handler' \in [Handlers -> HandlerRecord]
         /\ handler[h].at = "idle" /\ handler'[h].at = "push" /\ handler'[h].rec = records + 1
         /\ \A g \in Handlers \ {h} : handler'[g] = handler[g]
         /\ of' \in [Records -> Sessions \cup {NoSession}]
         /\ of'[records + 1] = s /\ \A r \in Records : r # records + 1 => of'[r] = of[r]
<1> DEFINE new == [at |-> "push", rec |-> records + 1]
<1>1. handler' = [handler EXCEPT ![h] = new] /\ handler[h].at = "idle" /\ records' = records + 1
      /\ records + 1 \in Records /\ of' = [of EXCEPT ![records + 1] = s]
  BY TrailAssumption DEF PrintLine, Core, TypeOK, Records
<1>2. new \in HandlerRecord /\ new.at = "push" /\ new.rec = records + 1
  BY <1>1 DEF HandlerRecord
<1> HIDE DEF new
<1>3. /\ handler \in [Handlers -> HandlerRecord]
      /\ of \in [Records -> Sessions \cup {NoSession}]
  BY DEF Core, TypeOK, HandlerRecord
<1> QED BY <1>1, <1>2, <1>3

\* What stays of a state the ring, the handlers and the counters are not part of.
RingTypeOK ==
  /\ ring.head \in 0 .. Capacity - 1 /\ ring.count \in 0 .. Capacity
  /\ ring.buf \in [0 .. Capacity - 1 -> Records \cup {NoRecord}]

LEMMA EmptyRingTypeOK ==
  /\ EmptyRing.head = 0 /\ EmptyRing.count = 0
  /\ EmptyRing.buf \in [0 .. Capacity - 1 -> Records \cup {NoRecord}]
BY DEF EmptyRing

LEMMA RingTypeStep ==
  ASSUME Core, [Next]_vars
  PROVE  RingTypeOK'
<1>0. RingTypeOK
  BY DEF Core, TypeOK, RingTypeOK
<1>1. CASE \E h \in Handlers : PushRecord(h)
  <2>1. PICK h \in Handlers : PushRecord(h)
    BY <1>1
  <2> DEFINE rec == handler[h].rec
  <2>2. ring' = Pushed(ring, rec) /\ rec \in Records
    BY <2>1 DEF PushRecord, Step, Core, Numbered, TypeOK, Records, NoRecord
  <2> HIDE DEF rec
  <2> QED BY <1>0, <2>2, PushedDoes DEF RingTypeOK
<1>2. CASE Crash
  <2>1. ring' = EmptyRing
    BY <1>2 DEF Crash
  <2> QED BY <2>1, EmptyRingTypeOK, TrailAssumption DEF RingTypeOK
<1>3. CASE UNCHANGED ring
  BY <1>0, <1>3 DEF RingTypeOK, Records, NoRecord
<1>4. (\E h \in Handlers : PushRecord(h)) \/ Crash \/ UNCHANGED ring
  BY DEF Next, Log, PrintLine, SpawnWriter, Hooked, Upsert, Locked, Insert, Answer, WriteLine,
     vars, memoryVars
<1> QED BY <1>1, <1>2, <1>3, <1>4

\* A handler that is not idle has a record that was begun, whose session is known.
LEMMA AtWork ==
  ASSUME Core, NEW h \in Handlers, handler[h].at # "idle"
  PROVE  /\ handler[h].rec \in Records /\ handler[h].rec \in 1 .. records
         /\ of[handler[h].rec] \in Sessions
BY TrailAssumption DEF Core, Numbered, TypeOK, Records

\* The handlers, records and rows.
LEMMA TypeStep ==
  ASSUME Core, [Next]_vars
  PROVE  TypeOK'
<1> USE DEF Core
<1>0. /\ RingTypeOK'
      /\ Capacity \in Nat \ {0} /\ MaxRecords \in Nat /\ MaxCrashes \in Nat
      /\ handler \in [Handlers -> HandlerRecord]
  BY RingTypeStep, TrailAssumption DEF TypeOK, HandlerRecord
<1>1. ASSUME NEW h \in Handlers, NEW s \in Sessions, PrintLine(h, s)
      PROVE  TypeOK'
  <2>1. records' \in 0 .. MaxRecords
    BY <1>0, <1>1, BeginDoes DEF Records
  <2>2. printed' \subseteq Records
    <3>1. printed \subseteq Records
      BY DEF TypeOK
    <3>2. printed' \subseteq printed \cup {records + 1}
      BY <1>1 DEF PrintLine
    <3>3. records + 1 \in Records
      BY <1>1, BeginDoes
    <3> QED BY <3>1, <3>2, <3>3
  <2>3. UNCHANGED <<unwritten, storing, jsonl, rows, sessionRows, crashes, pushed, boot,
                    answered, refused, dropped>>
    BY <1>1 DEF PrintLine
  <2> QED BY <1>0, <1>1, <2>1, <2>2, <2>3, BeginDoes
          DEF TypeOK, RingTypeOK, HandlerRecord, Records, NoRecord
<1>2. ASSUME NEW h \in Handlers,
             handler' \in [Handlers -> HandlerRecord], handler[h].at # "idle",
             unwritten' \subseteq unwritten \cup {handler[h].rec},
             storing' \in {storing, handler[h].rec, NoRecord},
             rows' \subseteq rows \cup {handler[h].rec},
             sessionRows' \subseteq sessionRows \cup {of[handler[h].rec]},
             answered' \subseteq answered \cup {handler[h].rec},
             refused' \subseteq refused \cup {handler[h].rec},
             pushed' \in {pushed, Append(pushed, handler[h].rec)},
             UNCHANGED <<printed, jsonl, records, crashes, of, boot, dropped>>
      PROVE  TypeOK'
  <2>1. handler[h].rec \in Records /\ of[handler[h].rec] \in Sessions
    BY <1>2, AtWork
  <2>2. pushed' \in Seq(Records) /\ boot' \in 0 .. Len(pushed')
    <3>1. pushed \in Seq(Records) /\ boot \in 0 .. Len(pushed) /\ boot' = boot
      BY <1>2 DEF TypeOK
    <3>2. /\ Append(pushed, handler[h].rec) \in Seq(Records)
          /\ Len(Append(pushed, handler[h].rec)) = Len(pushed) + 1
      BY <2>1, <3>1
    <3> QED BY <1>2, <3>1, <3>2
  <2> QED BY <1>0, <1>2, <2>1, <2>2 DEF TypeOK, RingTypeOK, HandlerRecord, Records, NoRecord
<1>3. ASSUME NEW h \in Handlers, PushRecord(h)
      PROVE  TypeOK'
  BY <1>2, <1>3, StepDoes DEF PushRecord, Step
<1>4. ASSUME NEW h \in Handlers, SpawnWriter(h)
      PROVE  TypeOK'
  <2>1. Step(h, "hook", "upsert")
    BY <1>4 DEF SpawnWriter, Hooked
  <2> QED BY <1>2, <1>4, <2>1, StepDoes DEF SpawnWriter, Hooked, Step
<1>5. ASSUME NEW h \in Handlers, Upsert(h)
      PROVE  TypeOK'
  <2>1. Step(h, "upsert", "insert")
    BY <1>5 DEF Upsert, Locked
  <2> QED BY <1>2, <1>5, <2>1, StepDoes DEF Upsert, Locked, Exec, AddSession, Step
<1>6. ASSUME NEW h \in Handlers, Insert(h)
      PROVE  TypeOK'
  <2>1. Step(h, "insert", "answer")
    BY <1>6 DEF Insert
  <2> QED BY <1>2, <1>6, <2>1, StepDoes DEF Insert, Exec, AddRow, Step
<1>7. ASSUME NEW h \in Handlers, Answer(h)
      PROVE  TypeOK'
  <2>1. Step(h, "answer", "idle")
    BY <1>7 DEF Answer
  <2> QED BY <1>2, <1>7, <2>1, StepDoes DEF Answer, Step
<1>8. ASSUME NEW r \in Records, WriteLine(r)
      PROVE  TypeOK'
  BY <1>0, <1>8 DEF WriteLine, TypeOK, RingTypeOK, Records, NoRecord
<1>9. ASSUME Crash
      PROVE  TypeOK'
  <2>1. handler' \in [Handlers -> HandlerRecord]
    BY <1>9 DEF Crash, HandlerRecord
  <2>2. boot' \in 0 .. Len(pushed') /\ crashes' \in 0 .. MaxCrashes
    BY <1>0, <1>9 DEF Crash, TypeOK
  <2> QED BY <1>0, <1>9, <2>1, <2>2
          DEF Crash, diskVars, TypeOK, RingTypeOK, HandlerRecord, Records, NoRecord
<1>10. CASE UNCHANGED vars
  BY <1>0, <1>10 DEF vars, memoryVars, diskVars, ghostVars, TypeOK, RingTypeOK, HandlerRecord,
     Records, NoRecord
<1> QED BY <1>1, <1>3, <1>4, <1>5, <1>6, <1>7, <1>8, <1>9, <1>10 DEF Next, Log

LEMMA NumberedStep ==
  ASSUME Core, [Next]_vars
  PROVE  Numbered'
<1> USE DEF Core
<1>0. records \in Nat /\ NoRecord \notin 1 .. records
  BY TrailAssumption DEF TypeOK, NoRecord
<1>1. ASSUME NEW h \in Handlers, NEW s \in Sessions, PrintLine(h, s)
      PROVE  Numbered'
  <2>1. \A g \in Handlers : IF handler'[g].at = "idle" THEN handler'[g].rec = NoRecord
                                                       ELSE handler'[g].rec \in 1 .. records + 1
    <3>1. ASSUME NEW g \in Handlers, g # h
          PROVE  IF handler'[g].at = "idle" THEN handler'[g].rec = NoRecord
                                            ELSE handler'[g].rec \in 1 .. records + 1
      BY <1>0, <1>1, <3>1, BeginDoes DEF Numbered
    <3>2. handler'[h].at # "idle" /\ handler'[h].rec \in 1 .. records + 1
      BY <1>0, <1>1, BeginDoes
    <3> QED BY <3>1, <3>2
  <2>2. \A r \in 1 .. records + 1 : of'[r] \in Sessions
    <3>1. of'[records + 1] \in Sessions
      BY <1>1, BeginDoes
    <3>2. ASSUME NEW r \in 1 .. records
          PROVE  of'[r] \in Sessions
      <4>1. r \in Records /\ r # records + 1 /\ of[r] \in Sessions
        BY <1>0, TrailAssumption DEF Records, TypeOK, Numbered
      <4> QED BY <1>1, <4>1, BeginDoes
    <3> QED BY <1>0, <3>1, <3>2
  <2> QED BY <1>1, <2>1, <2>2, BeginDoes DEF Numbered
<1>2. ASSUME NEW h \in Handlers, NEW from \in {"push", "hook", "upsert", "insert", "answer"},
             NEW to \in {"push", "hook", "upsert", "insert", "answer", "idle"}, Step(h, from, to)
      PROVE  Numbered'
  <2>1. UNCHANGED <<records, of>>
    BY <1>2 DEF Step
  <2> QED BY <1>2, <2>1, StepDoes DEF Numbered
<1>3. ASSUME NEW h \in Handlers,
             PushRecord(h) \/ SpawnWriter(h) \/ Upsert(h) \/ Insert(h) \/ Answer(h)
      PROVE  Numbered'
  BY <1>2, <1>3 DEF PushRecord, SpawnWriter, Hooked, Upsert, Locked, Insert, Answer
<1>4. CASE Crash
  BY <1>4 DEF Crash, Numbered
<1>5. CASE UNCHANGED <<handler, records, of>>
  BY <1>5 DEF Numbered
<1> QED BY <1>1, <1>3, <1>4, <1>5 DEF Next, Log, WriteLine, vars, memoryVars, ghostVars

LEMMA InitCore == Init => Core
<1> SUFFICES ASSUME Init
             PROVE  Core
  OBVIOUS
<1>1. TypeOK
  BY TrailAssumption, EmptyRingTypeOK DEF Init, TypeOK, Records, NoRecord
<1>2. Numbered
  BY DEF Init, Numbered
<1> QED BY <1>1, <1>2 DEF Core

LEMMA CoreStep == Core /\ [Next]_vars => Core'
BY TypeStep, NumberedStep DEF Core

\* Every variable stays within its type, and every index within the buffer.
THEOREM TrailTypeOK == Spec => []TypeOK
<1>1. Core => TypeOK
  BY DEF Core
<1> QED BY <1>1, InitCore, CoreStep, PTL DEF Spec

-----------------------------------------------------------------------------
(* The ring keeps the newest *)

Least(a, b) == IF a < b THEN a ELSE b

\* As RingIsNewest states it, with the buffer's own indices.
RingKeeps ==
  /\ ring.count = Least(Len(pushed) - boot, Capacity)
  /\ \A i \in 1 .. ring.count :
       ring.buf[(ring.head - i + Capacity) % Capacity] = pushed[Len(pushed) - i + 1]

LEMMA RingKeepsStep ==
  ASSUME Core, RingKeeps, [Next]_vars
  PROVE  RingKeeps'
<1> USE DEF Core
<1>0. /\ Capacity \in Nat \ {0} /\ boot \in 0 .. Len(pushed) /\ pushed \in Seq(Records)
      /\ Len(pushed) \in Nat /\ ring.count \in 0 .. Capacity
  BY TrailAssumption DEF TypeOK
<1>1. ASSUME NEW h \in Handlers, PushRecord(h)
      PROVE  RingKeeps'
  <2> DEFINE rec == handler[h].rec
             n == Len(pushed)
             at(r, i) == r.buf[(r.head - i + Capacity) % Capacity]
  <2>1. ring' = Pushed(ring, rec) /\ pushed' = Append(pushed, rec) /\ boot' = boot
    BY <1>1 DEF PushRecord, Step
  <2>2. rec \in Records
    BY <1>1, AtWork DEF PushRecord, Step
  <2>3. /\ n \in Nat /\ Len(pushed') = n + 1 /\ pushed'[n + 1] = rec
        /\ \A j \in 1 .. n : pushed'[j] = pushed[j]
    BY <1>0, <2>1, <2>2
  <2>4. /\ ring'.count = IF ring.count < Capacity THEN ring.count + 1 ELSE Capacity
        /\ at(ring', 1) = rec
        /\ \A i \in 1 .. Capacity - 1 : at(ring', i + 1) = at(ring, i)
    <3>1. /\ ring.head \in 0 .. Capacity - 1 /\ ring.count \in 0 .. Capacity
          /\ ring.buf \in [0 .. Capacity - 1 -> Records \cup {NoRecord}]
      BY DEF TypeOK
    <3> HIDE DEF rec
    <3> QED BY ONLY <2>1, <2>2, <3>1, PushedDoes
  <2>5. \A i \in 1 .. ring.count : at(ring, i) = pushed[n - i + 1]
    BY DEF RingKeeps
  <2> HIDE DEF at, rec, n
  <2>6. ring'.count = Least(n + 1 - boot, Capacity)
    BY <1>0, <2>3, <2>4 DEF RingKeeps, Least, n
  <2>7. ASSUME NEW i \in 1 .. ring'.count
        PROVE  at(ring', i) = pushed'[n + 1 - i + 1]
    <3>1. CASE i = 1
      BY <2>3, <2>4, <3>1
    <3>2. CASE i # 1
      <4> DEFINE k == i - 1
      <4>1. k \in 1 .. Capacity - 1 /\ k \in 1 .. ring.count /\ i = k + 1
        BY <1>0, <2>4, <3>2
      <4>2. n - k + 1 \in 1 .. n /\ n + 1 - i + 1 = n - k + 1
        BY <1>0, <2>3, <4>1 DEF RingKeeps, Least, n
      <4>3. at(ring', k + 1) = at(ring, k) /\ at(ring, k) = pushed[n - k + 1]
        BY <2>4, <2>5, <4>1
      <4>4. pushed'[n - k + 1] = pushed[n - k + 1]
        BY <2>3, <4>2
      <4> HIDE DEF k
      <4> QED BY <4>1, <4>2, <4>3, <4>4
    <3> QED BY <3>1, <3>2
  <2>8. \A i \in 1 .. ring'.count : at(ring', i) = pushed'[Len(pushed') - i + 1]
    BY <2>3, <2>7
  <2>9. \A i \in 1 .. ring'.count :
          ring'.buf[(ring'.head - i + Capacity) % Capacity] = pushed'[Len(pushed') - i + 1]
    BY <2>8 DEF at
  <2>10. ring'.count = Least(Len(pushed') - boot', Capacity)
    BY <1>0, <2>1, <2>3, <2>6 DEF Least, n
  <2> QED BY <2>9, <2>10 DEF RingKeeps, Least
<1>2. CASE Crash
  <2>1. ring' = EmptyRing /\ pushed' = pushed /\ boot' = Len(pushed)
    BY <1>2 DEF Crash
  <2>2. ring'.count = 0
    BY <2>1, EmptyRingTypeOK
  <2>3. Len(pushed') - boot' = 0
    BY <1>0, <2>1
  <2> QED BY <1>0, <2>2, <2>3 DEF RingKeeps, Least
<1>3. CASE UNCHANGED <<ring, pushed, boot>>
  BY <1>3 DEF RingKeeps
<1>4. (\E h \in Handlers : PushRecord(h)) \/ Crash \/ UNCHANGED <<ring, pushed, boot>>
  BY DEF Next, Log, PrintLine, SpawnWriter, Hooked, Upsert, Locked, Insert, Answer, Step, WriteLine,
     vars, memoryVars, ghostVars
<1> QED BY <1>1, <1>2, <1>3, <1>4

\* Whatever its capacity, and however often the process restarts, the ring answers a query with
\* exactly the newest records pushed since the last restart, as many as it has room for, newest
\* first: the first half of RecordTellsTheStory.
THEOREM TrailRingIsNewest == Spec => []RingIsNewest
<1> DEFINE Inv == Core /\ RingKeeps
<1>1. Init => Inv
  <2> SUFFICES ASSUME Init
               PROVE  RingKeeps
    BY InitCore
  <2>1. ring.count = 0 /\ Len(pushed) = 0 /\ boot = 0
    BY EmptyRingTypeOK DEF Init
  <2> QED BY <2>1, TrailAssumption DEF RingKeeps, Least
<1>2. Inv /\ [Next]_vars => Inv'
  BY CoreStep, RingKeepsStep
<1>3. Inv => RingIsNewest
  BY DEF Core, RingKeeps, Least, RingIsNewest, Query
<1> QED BY <1>1, <1>2, <1>3, PTL DEF Spec

-----------------------------------------------------------------------------
(* A governance record *)

LEMMA NatSet ==
  ASSUME NEW T \in SUBSET Nat, 0 \in T, \A n \in T : n + 1 \in T
  PROVE  T = Nat
<1> DEFINE rest == Nat \ T
<1> SUFFICES ASSUME rest # {} PROVE FALSE OBVIOUS
<1>1. IsWellFoundedOn(OpToRel(<, Nat), Nat) BY NatLessThanWellFounded
<1>2. rest \in SUBSET Nat OBVIOUS
<1>3. PICK m \in rest : \A k \in rest : ~(<<k, m>> \in OpToRel(<, Nat)) BY <1>1, <1>2, WFMin
<1>4. m \in Nat /\ m \notin T OBVIOUS
<1>5. m # 0 /\ m - 1 \in Nat /\ m - 1 < m /\ (m - 1) + 1 = m BY ONLY <1>4, 0 \in T
<1>6. \A k \in rest : ~(k < m) BY <1>3 DEF OpToRel
<1>7. m - 1 \in T BY <1>5, <1>6
<1> QED BY ONLY \A n \in T : n + 1 \in T, <1>4, <1>5, <1>7

LEMMA SeqInduct ==
  ASSUME NEW W, NEW T, <<>> \in T, \A s \in Seq(W), e \in W : s \in T => Append(s, e) \in T
  PROVE  Seq(W) \subseteq T
<1> DEFINE A == {n \in Nat : \A s \in Seq(W) : Len(s) = n => s \in T}
<1>1. 0 \in A
  <2>1. \A s \in Seq(W) : Len(s) = 0 => s = <<>> OBVIOUS
  <2> QED BY <2>1
<1>2. ASSUME NEW n \in A PROVE n + 1 \in A
  <2>1. n \in Nat /\ \A s \in Seq(W) : Len(s) = n => s \in T OBVIOUS
  <2>2. ASSUME NEW s \in Seq(W), Len(s) = n + 1 PROVE s \in T
    <3>1. /\ SubSeq(s, 1, n) \in Seq(W) /\ Len(SubSeq(s, 1, n)) = n
          /\ \A i \in 1 .. n : SubSeq(s, 1, n)[i] = s[i]
      BY <2>1, <2>2
    <3>2. s[n + 1] \in W BY <2>1, <2>2
    <3> DEFINE f == SubSeq(s, 1, n)
    <3>3. f \in T BY <2>1, <3>1
    <3>4. s = Append(f, s[n + 1])
      <4> HIDE DEF f
      <4>1. f \in Seq(W) /\ Len(f) = n /\ \A i \in 1 .. n : f[i] = s[i] BY <3>1 DEF f
      <4>2. /\ Append(f, s[n + 1]) \in Seq(W) /\ Len(Append(f, s[n + 1])) = n + 1
            /\ \A i \in 1 .. n : Append(f, s[n + 1])[i] = f[i]
            /\ Append(f, s[n + 1])[n + 1] = s[n + 1]
        BY <2>1, <3>2, <4>1
      <4>3. \A i \in 1 .. n + 1 : Append(f, s[n + 1])[i] = s[i]
        <5>1. \A i \in 1 .. n + 1 : i \in 1 .. n \/ i = n + 1 BY <2>1
        <5> QED BY <4>1, <4>2, <5>1
      <4> QED BY <2>1, <2>2, <4>2, <4>3
    <3> HIDE DEF f
    <3>5. f \in Seq(W) BY <3>1 DEF f
    <3> QED BY <3>2, <3>3, <3>4, <3>5
  <2> QED BY <2>1, <2>2
<1> HIDE DEF A
<1>3. A \in SUBSET Nat BY DEF A
<1>4. A = Nat BY <1>1, <1>2, <1>3, NatSet
<1> QED BY <1>4 DEF A

\* The records kept of s, one by one.
Keeps(kept, W, s, X) ==
  /\ kept \in [0 .. Len(s) -> Seq(W)] /\ kept[0] = <<>>
  /\ \A i \in 1 .. Len(s) :
       kept[i] = IF s[i] \in X THEN Append(kept[i - 1], s[i]) ELSE kept[i - 1]

\* For a record more, there is one more.
LEMMA KeepsIs ==
  ASSUME NEW W, NEW s \in Seq(W), NEW e \in W, NEW X, NEW kept, Keeps(kept, W, s, X)
  PROVE  LET more == [i \in 0 .. Len(s) + 1 |->
                        IF i <= Len(s) THEN kept[i]
                        ELSE IF e \in X THEN Append(kept[Len(s)], e) ELSE kept[Len(s)]]
         IN Keeps(more, W, Append(s, e), X)
<1> DEFINE n == Len(s)
           t == Append(s, e)
           last == IF e \in X THEN Append(kept[n], e) ELSE kept[n]
           more == [i \in 0 .. n + 1 |-> IF i <= n THEN kept[i] ELSE last]
<1>1. /\ n \in Nat /\ Len(t) = n + 1 /\ t[n + 1] = e /\ \A i \in 1 .. n : t[i] = s[i]
  OBVIOUS
<1>2. /\ kept \in [0 .. n -> Seq(W)] /\ kept[0] = <<>>
      /\ \A i \in 1 .. n : kept[i] = IF s[i] \in X THEN Append(kept[i - 1], s[i]) ELSE kept[i - 1]
  BY DEF Keeps
<1> HIDE DEF t, n
<1>3. kept[n] \in Seq(W) BY <1>1, <1>2
<1>4. last \in Seq(W) BY <1>3
<1> HIDE DEF last
<1>5. \A i \in 0 .. n + 1 : i <= n => i \in 0 .. n BY <1>1
<1>6. more \in [0 .. n + 1 -> Seq(W)] BY <1>2, <1>4, <1>5
<1>7. more[0] = <<>> /\ more[n + 1] = last BY <1>1, <1>2
<1>8. ASSUME NEW i \in 1 .. n + 1
      PROVE  more[i] = IF t[i] \in X THEN Append(more[i - 1], t[i]) ELSE more[i - 1]
  <2>1. i - 1 \in 0 .. n + 1 /\ i - 1 <= n /\ i \in 0 .. n + 1 BY <1>1
  <2>2. more[i - 1] = kept[i - 1] BY <2>1
  <2>3. CASE i \in 1 .. n
    <3>1. more[i] = kept[i] BY <1>1, <2>1, <2>3
    <3> HIDE DEF more
    <3> QED BY <1>1, <1>2, <2>2, <2>3, <3>1
  <2>4. CASE i = n + 1
    <3>1. i - 1 = n BY <1>1, <2>4
    <3> HIDE DEF more
    <3> QED BY <1>1, <1>7, <2>2, <2>4, <3>1 DEF last
  <2>5. i \in 1 .. n \/ i = n + 1 BY <1>1
  <2> QED BY <2>3, <2>4, <2>5
<1> HIDE DEF more
<1>9. Keeps(more, W, t, X) BY <1>1, <1>6, <1>7, <1>8 DEF Keeps
<1> QED BY <1>9 DEF more, last, t, n

\* Filtered by Filtered's recursion.
LEMMA FilteredBy ==
  ASSUME NEW W, NEW s \in Seq(W), NEW X, NEW kept, Keeps(kept, W, s, X)
  PROVE  Filtered(s, X) = kept[Len(s)]
<1> DEFINE n == Len(s)
           Eq(f) == f = [i \in 0 .. n |-> IF i = 0 THEN <<>>
                           ELSE IF s[i] \in X THEN Append(f[i - 1], s[i]) ELSE f[i - 1]]
           scan == CHOOSE f : Eq(f)
<1>1. n \in Nat OBVIOUS
<1>2. Filtered(s, X) = scan[n] BY DEF Filtered
<1>3. /\ kept \in [0 .. n -> Seq(W)] /\ kept[0] = <<>>
      /\ \A i \in 1 .. n : kept[i] = IF s[i] \in X THEN Append(kept[i - 1], s[i]) ELSE kept[i - 1]
  BY DEF Keeps
<1> HIDE DEF n
<1>4. \A i \in 0 .. n : i = 0 \/ (i \in 1 .. n /\ i # 0) BY <1>1
<1>5. Eq(kept)
  <2>1. \A i \in 0 .. n : kept[i] = IF i = 0 THEN <<>>
                        ELSE IF s[i] \in X THEN Append(kept[i - 1], s[i]) ELSE kept[i - 1]
    BY <1>3, <1>4
  <2>2. kept = [i \in 0 .. n |-> kept[i]] BY <1>3
  <2> QED BY <2>1, <2>2
<1>6. Eq(scan) BY <1>5
<1> HIDE DEF scan
<1>7. scan[0] = <<>> /\ \A i \in 1 .. n : scan[i] = IF s[i] \in X THEN Append(scan[i - 1], s[i])
                                                                  ELSE scan[i - 1]
  <2>1. 0 \in 0 .. n /\ \A i \in 1 .. n : i \in 0 .. n /\ i # 0 BY <1>1
  <2> QED BY <1>6, <2>1
<1> DEFINE T == {i \in Nat : i <= n => scan[i] = kept[i]}
<1>8. 0 \in T BY <1>3, <1>7
<1>9. ASSUME NEW i \in T PROVE i + 1 \in T
  <2>1. i \in Nat /\ (i <= n => scan[i] = kept[i]) OBVIOUS
  <2>2. ASSUME i + 1 <= n PROVE scan[i + 1] = kept[i + 1]
    <3>1. i + 1 \in 1 .. n /\ (i + 1) - 1 = i /\ scan[i] = kept[i] BY <1>1, <2>1, <2>2
    <3> HIDE DEF Eq
    <3> QED BY <1>3, <1>7, <3>1
  <2> QED BY <2>1, <2>2
<1> HIDE DEF T, Eq
<1>10. T \in SUBSET Nat BY DEF T
<1>11. T = Nat BY <1>8, <1>9, <1>10, NatSet
<1>12. scan[n] = kept[n]
  <2>1. n \in T BY <1>1, <1>11
  <2> QED BY <1>1, <2>1 DEF T
<1> QED BY <1>2, <1>12 DEF n

LEMMA KeepsAll ==
  ASSUME NEW W, NEW s \in Seq(W), NEW X
  PROVE  \E kept : Keeps(kept, W, s, X)
<1> DEFINE T == {q \in Seq(W) : \E kept : Keeps(kept, W, q, X)}
<1>1. <<>> \in T
  <2> DEFINE z == [i \in 0 .. 0 |-> <<>>]
  <2>1. <<>> \in Seq(W) /\ Len(<<>>) = 0 OBVIOUS
  <2>2. z \in [0 .. 0 -> Seq(W)] /\ z[0] = <<>> OBVIOUS
  <2> HIDE DEF z
  <2>3. Keeps(z, W, <<>>, X) BY <2>1, <2>2 DEF Keeps
  <2> QED BY <2>1, <2>3
<1>2. ASSUME NEW q \in Seq(W), NEW e \in W, q \in T PROVE Append(q, e) \in T
  <2>1. PICK kept : Keeps(kept, W, q, X) BY <1>2
  <2>2. PICK more : Keeps(more, W, Append(q, e), X) BY <2>1, KeepsIs
  <2>3. Append(q, e) \in Seq(W) OBVIOUS
  <2> QED BY <2>2, <2>3
<1> HIDE DEF T
<1>3. Seq(W) \subseteq T BY <1>1, <1>2, SeqInduct
<1>4. s \in T BY <1>3
<1> QED BY <1>4 DEF T

\* Record by record, at the end.
LEMMA FilteredIs ==
  ASSUME NEW W, NEW s \in Seq(W), NEW e \in W, NEW X
  PROVE  /\ Filtered(s, X) \in Seq(W)
         /\ Filtered(Append(s, e), X)
              = IF e \in X THEN Append(Filtered(s, X), e) ELSE Filtered(s, X)
<1>1. PICK kept : Keeps(kept, W, s, X) BY KeepsAll
<1>2. Filtered(s, X) = kept[Len(s)] BY <1>1, FilteredBy
<1> DEFINE n == Len(s)
           t == Append(s, e)
           more == [i \in 0 .. n + 1 |->
                      IF i <= n THEN kept[i]
                      ELSE IF e \in X THEN Append(kept[n], e) ELSE kept[n]]
<1>3. t \in Seq(W) /\ Len(t) = n + 1 /\ n \in Nat OBVIOUS
<1>4. Keeps(more, W, t, X) BY <1>1, KeepsIs
<1>5. more[n + 1] = IF e \in X THEN Append(kept[n], e) ELSE kept[n] BY <1>3
<1>6. kept[n] \in Seq(W) BY <1>1, <1>3 DEF Keeps
<1> HIDE DEF more, t, n
<1>7. Filtered(t, X) = more[n + 1] BY <1>3, <1>4, FilteredBy
<1> QED BY <1>2, <1>5, <1>6, <1>7 DEF t, n

LEMMA FilteredNothing ==
  ASSUME NEW X PROVE Filtered(<<>>, X) = <<>>
<1>1. <<>> \in Seq({}) /\ Len(<<>>) = 0 OBVIOUS
<1>2. PICK kept : Keeps(kept, {}, <<>>, X) BY <1>1, KeepsAll
<1>3. Filtered(<<>>, X) = kept[Len(<<>>)] BY <1>1, <1>2, FilteredBy
<1> QED BY <1>1, <1>2, <1>3 DEF Keeps

\* And at the front.
LEMMA FilteredFirst ==
  ASSUME NEW W, NEW s \in Seq(W), NEW e \in W, NEW X
  PROVE  Filtered(<<e>> \o s, X)
           = IF e \in X THEN <<e>> \o Filtered(s, X) ELSE Filtered(s, X)
<1> DEFINE T == {q \in Seq(W) : Filtered(<<e>> \o q, X)
                    = IF e \in X THEN <<e>> \o Filtered(q, X) ELSE Filtered(q, X)}
<1>1. <<>> \in T
  <2>1. <<>> \in Seq(W) /\ <<e>> \o <<>> = <<e>> /\ <<e>> = Append(<<>>, e) OBVIOUS
  <2>2. Filtered(<<>>, X) = <<>> BY FilteredNothing
  <2>a. Filtered(Append(<<>>, e), X) = IF e \in X THEN Append(Filtered(<<>>, X), e)
                                                ELSE Filtered(<<>>, X)
    <3> DEFINE z == <<>>
    <3>1. z \in Seq(W) BY <2>1
    <3> HIDE DEF z, T
    <3>2. Filtered(Append(z, e), X) = IF e \in X THEN Append(Filtered(z, X), e) ELSE Filtered(z, X)
      BY <3>1, FilteredIs
    <3> QED BY <3>2 DEF z
  <2>3. Filtered(Append(<<>>, e), X) = IF e \in X THEN Append(<<>>, e) ELSE <<>>
    BY ONLY <2>2, <2>a
  <2> QED BY <2>1, <2>2, <2>3
<1>2. ASSUME NEW q \in Seq(W), NEW d \in W, q \in T PROVE Append(q, d) \in T
  <2>1. /\ <<e>> \o q \in Seq(W) /\ Append(q, d) \in Seq(W)
        /\ <<e>> \o Append(q, d) = Append(<<e>> \o q, d)
    OBVIOUS
  <2>2. Filtered(q, X) \in Seq(W) BY FilteredIs
  <2>3. Filtered(Append(q, d), X) = IF d \in X THEN Append(Filtered(q, X), d) ELSE Filtered(q, X)
    BY FilteredIs
  <2>4. Filtered(Append(<<e>> \o q, d), X)
          = IF d \in X THEN Append(Filtered(<<e>> \o q, X), d) ELSE Filtered(<<e>> \o q, X)
    <3> DEFINE p == <<e>> \o q
    <3>1. p \in Seq(W) BY <2>1
    <3> HIDE DEF p, T
    <3>2. Filtered(Append(p, d), X) = IF d \in X THEN Append(Filtered(p, X), d) ELSE Filtered(p, X)
      BY <3>1, FilteredIs
    <3> QED BY <3>2 DEF p
  <2>5. Filtered(<<e>> \o q, X) = IF e \in X THEN <<e>> \o Filtered(q, X) ELSE Filtered(q, X)
    BY <1>2
  <2>6. Append(<<e>> \o Filtered(q, X), d) = <<e>> \o Append(Filtered(q, X), d) BY <2>2
  <2>7. Filtered(<<e>> \o Append(q, d), X)
          = IF e \in X THEN <<e>> \o Filtered(Append(q, d), X) ELSE Filtered(Append(q, d), X)
    BY <2>1, <2>3, <2>4, <2>5, <2>6
  <2> QED BY <2>1, <2>7
<1> HIDE DEF T
<1>3. Seq(W) \subseteq T BY <1>1, <1>2, SeqInduct
<1>4. s \in T BY <1>3
<1> QED BY <1>4 DEF T

\* Backwards and backwards again.
LEMMA Backwards ==
  ASSUME NEW W, NEW s \in Seq(W), NEW e \in W
  PROVE  /\ Reverse(s) \in Seq(W) /\ Len(Reverse(s)) = Len(s)
         /\ Reverse(Append(s, e)) = <<e>> \o Reverse(s)
         /\ Reverse(<<e>> \o s) = Append(Reverse(s), e)
<1> DEFINE n == Len(s)
<1>1. n \in Nat /\ \A i \in 1 .. n : s[i] \in W OBVIOUS
<1>2. Reverse(s) = [i \in 1 .. n |-> s[n - i + 1]] BY DEF Reverse
<1>3. \A i \in 1 .. n : n - i + 1 \in 1 .. n BY <1>1
<1>4. Reverse(s) \in [1 .. n -> W] BY <1>1, <1>2, <1>3
<1>5. Reverse(s) \in Seq(W) /\ Len(Reverse(s)) = n BY <1>1, <1>4
<1>6. Reverse(Append(s, e)) = <<e>> \o Reverse(s)
  <2> DEFINE t == Append(s, e)
             r == Reverse(s)
  <2>1. Len(t) = n + 1 /\ t[n + 1] = e /\ \A i \in 1 .. n : t[i] = s[i] OBVIOUS
  <2>2. r \in Seq(W) /\ Len(r) = n /\ \A i \in 1 .. n : r[i] = s[n - i + 1] BY <1>2, <1>5
  <2>3. Reverse(t) = [i \in 1 .. n + 1 |-> t[(n + 1) - i + 1]] BY <2>1 DEF Reverse
  <2> HIDE DEF t, r, n
  <2>4. /\ <<e>> \o r \in Seq(W) /\ Len(<<e>> \o r) = n + 1 /\ (<<e>> \o r)[1] = e
        /\ \A i \in 2 .. n + 1 : (<<e>> \o r)[i] = r[i - 1]
    BY <1>1, <2>2
  <2>5. ASSUME NEW i \in 1 .. n + 1 PROVE t[(n + 1) - i + 1] = (<<e>> \o r)[i]
    <3>1. CASE i = 1 BY <1>1, <2>1, <2>4, <3>1
    <3>2. CASE i \in 2 .. n + 1
      <4>1. i - 1 \in 1 .. n /\ (n + 1) - i + 1 \in 1 .. n /\ (n + 1) - i + 1 = n - (i - 1) + 1
        BY <1>1, <3>2
      <4> QED BY <2>1, <2>2, <2>4, <3>2, <4>1
    <3>3. i = 1 \/ i \in 2 .. n + 1 BY <1>1
    <3> QED BY <3>1, <3>2, <3>3
  <2>6. <<e>> \o r = [i \in 1 .. n + 1 |-> (<<e>> \o r)[i]] BY <1>1, <2>4
  <2>7. Reverse(t) = <<e>> \o r BY <2>3, <2>5, <2>6
  <2> QED BY <2>7 DEF t, r
<1>7. Reverse(<<e>> \o s) = Append(Reverse(s), e)
  <2> DEFINE t == <<e>> \o s
             r == Reverse(s)
  <2>1. Len(t) = n + 1 /\ t[1] = e /\ \A i \in 1 .. n : t[i + 1] = s[i] OBVIOUS
  <2>2. r \in Seq(W) /\ Len(r) = n /\ \A i \in 1 .. n : r[i] = s[n - i + 1] BY <1>2, <1>5
  <2>3. Reverse(t) = [i \in 1 .. n + 1 |-> t[(n + 1) - i + 1]] BY <2>1 DEF Reverse
  <2> HIDE DEF t, r, n
  <2>4. /\ Append(r, e) \in Seq(W) /\ Len(Append(r, e)) = n + 1 /\ Append(r, e)[n + 1] = e
        /\ \A i \in 1 .. n : Append(r, e)[i] = r[i]
    BY <1>1, <2>2
  <2>5. ASSUME NEW i \in 1 .. n + 1 PROVE t[(n + 1) - i + 1] = Append(r, e)[i]
    <3>1. CASE i = n + 1
      <4>1. (n + 1) - i + 1 = 1 BY <1>1, <3>1
      <4> QED BY <2>1, <2>4, <3>1, <4>1
    <3>2. CASE i \in 1 .. n
      <4>1. n - i + 1 \in 1 .. n /\ (n + 1) - i + 1 = (n - i + 1) + 1 BY <1>1, <3>2
      <4>2. t[(n - i + 1) + 1] = s[n - i + 1] BY <2>1, <4>1
      <4>3. Append(r, e)[i] = s[n - i + 1] BY <2>2, <2>4, <3>2
      <4> QED BY <4>1, <4>2, <4>3
    <3>3. i = n + 1 \/ i \in 1 .. n BY <1>1
    <3> QED BY <3>1, <3>2, <3>3
  <2>6. Append(r, e) = [i \in 1 .. n + 1 |-> Append(r, e)[i]]
    <3> DEFINE x == Append(r, e)
    <3>1. x \in Seq(W) /\ Len(x) = n + 1 BY <2>4
    <3> HIDE DEF x
    <3>2. x = [i \in 1 .. n + 1 |-> x[i]] BY <1>1, <3>1
    <3> QED BY <3>2 DEF x
  <2>7. Reverse(t) = Append(r, e) BY <2>3, <2>5, <2>6
  <2> QED BY <2>7 DEF t, r
<1> QED BY <1>5, <1>6, <1>7

\* Filtered newest first and turned round, it is filtered oldest first.
LEMMA FilteredBackwards ==
  ASSUME NEW W, NEW s \in Seq(W), NEW X
  PROVE  Reverse(Filtered(Reverse(s), X)) = Filtered(s, X)
<1> DEFINE T == {q \in Seq(W) : /\ Reverse(Filtered(Reverse(q), X)) = Filtered(q, X)
                                /\ Filtered(Reverse(q), X) \in Seq(W)}
<1>1. <<>> \in T
  <2>1. <<>> \in Seq(W) /\ Reverse(<<>>) = <<>> BY DEF Reverse
  <2>2. Filtered(<<>>, X) = <<>> BY FilteredNothing
  <2> QED BY <2>1, <2>2
<1>2. ASSUME NEW q \in Seq(W), NEW e \in W, q \in T PROVE Append(q, e) \in T
  <2> DEFINE r == Reverse(q)
             f == Filtered(r, X)
  <2>1. r \in Seq(W) /\ Reverse(Append(q, e)) = <<e>> \o r BY Backwards
  <2>2. f \in Seq(W) /\ Reverse(f) = Filtered(q, X) BY <1>2
  <2>3. Filtered(<<e>> \o r, X) = IF e \in X THEN <<e>> \o f ELSE f BY <2>1, FilteredFirst
  <2>4. Reverse(<<e>> \o f) = Append(Reverse(f), e) BY <2>2, Backwards
  <2>5. Filtered(Append(q, e), X) = IF e \in X THEN Append(Filtered(q, X), e) ELSE Filtered(q, X)
    BY FilteredIs
  <2>6. <<e>> \o f \in Seq(W) /\ Append(q, e) \in Seq(W) BY <2>2
  <2> HIDE DEF f, r
  <2>7. /\ Reverse(Filtered(Reverse(Append(q, e)), X)) = Filtered(Append(q, e), X)
        /\ Filtered(Reverse(Append(q, e)), X) \in Seq(W)
    <3>1. CASE e \in X BY <2>1, <2>2, <2>3, <2>4, <2>5, <2>6, <3>1
    <3>2. CASE e \notin X BY <2>1, <2>2, <2>3, <2>5, <3>2
    <3> QED BY <3>1, <3>2
  <2> QED BY <2>6, <2>7
<1> HIDE DEF T
<1>3. Seq(W) \subseteq T BY <1>1, <1>2, SeqInduct
<1>4. s \in T BY <1>3
<1> QED BY <1>4 DEF T

\* The window a governance record is drawn from is what the ring keeps, turned round.
LEMMA QueryIsTheWindow ==
  ASSUME TypeOK, RingIsNewest
  PROVE  LET from == IF Len(pushed) - Capacity > boot THEN Len(pushed) - Capacity ELSE boot
             window == SubSeq(pushed, from + 1, Len(pushed))
         IN  window \in Seq(Records) /\ Query(ring) = Reverse(window)
<1> DEFINE m == Len(pushed)
           from == IF m - Capacity > boot THEN m - Capacity ELSE boot
           window == SubSeq(pushed, from + 1, m)
           kept == IF m - boot < Capacity THEN m - boot ELSE Capacity
<1>1. Capacity \in Nat \ {0} BY TrailAssumption
<1>2. pushed \in Seq(Records) /\ m \in Nat /\ boot \in 0 .. m BY DEF TypeOK
<1>3. ring.count = kept /\ \A i \in 1 .. kept : Query(ring)[i] = pushed[m - i + 1]
  BY DEF RingIsNewest
<1> HIDE DEF m
<1>4. from \in 0 .. m /\ kept \in Nat /\ from + kept = m BY <1>1, <1>2
<1>5. Query(ring) = [i \in 1 .. kept |-> Query(ring)[i]] BY <1>3 DEF Query
<1> HIDE DEF from, kept
<1>6. /\ window \in Seq(Records) /\ Len(window) = kept
      /\ \A i \in 1 .. kept : window[i] = pushed[from + i]
  <2>1. from + 1 \in 1 .. m + 1 /\ m - (from + 1) + 1 = kept BY <1>2, <1>4
  <2>2. \A i \in 1 .. kept : (from + 1) + i - 1 = from + i BY <1>4
  <2>3. pushed \in Seq(Records) /\ Len(pushed) = m BY <1>2 DEF m
  <2> QED BY <2>1, <2>2, <2>3, <1>2, <1>4
<1> HIDE DEF window
<1>7. Reverse(window) = [i \in 1 .. kept |-> window[kept - i + 1]] BY <1>6 DEF Reverse
<1>8. ASSUME NEW i \in 1 .. kept PROVE window[kept - i + 1] = Query(ring)[i]
  <2>1. kept - i + 1 \in 1 .. kept /\ from + (kept - i + 1) = m - i + 1 BY <1>4
  <2> QED BY <1>3, <1>6, <2>1
<1>9. Query(ring) = Reverse(window) BY <1>5, <1>7, <1>8
<1> QED BY <1>6, <1>9 DEF window, from, m

\* A governance record tells what its session did, in the order it was done: all that was
\* pushed since the restart and not overwritten; ring, queries and records agree.
THEOREM TrailRecordTellsTheStory == Spec => []RecordTellsTheStory
<1>1. TypeOK /\ RingIsNewest => RecordOfSession
  <2> SUFFICES ASSUME TypeOK, RingIsNewest PROVE RecordOfSession OBVIOUS
  <2> DEFINE from == IF Len(pushed) - Capacity > boot THEN Len(pushed) - Capacity ELSE boot
             window == SubSeq(pushed, from + 1, Len(pushed))
  <2>1. window \in Seq(Records) /\ Query(ring) = Reverse(window) BY QueryIsTheWindow
  <2> HIDE DEF window
  <2>2. ASSUME NEW s \in Sessions PROVE Steps(s) = Filtered(window, RecordsOf(s))
    <3>1. Reverse(Filtered(Reverse(window), RecordsOf(s))) = Filtered(window, RecordsOf(s))
      BY <2>1, FilteredBackwards
    <3> QED BY <2>1, <3>1 DEF Steps, QuerySession
  <2> QED BY <2>2 DEF RecordOfSession, window
<1>2. TypeOK /\ RingIsNewest => RecordTellsTheStory BY <1>1 DEF RecordTellsTheStory
<1> QED BY <1>2, TrailTypeOK, TrailRingIsNewest, PTL

-----------------------------------------------------------------------------
(* What is acted on is on the record *)

\* What has become of the record of a handler, stage by stage.
OnItsWay ==
  \A h \in Handlers : LET r == handler[h].rec IN
    /\ handler[h].at # "idle" /\ Printing => r \in printed
    /\ handler[h].at \in {"upsert", "insert", "answer"} => r \in jsonl \cup unwritten \cup dropped
    /\ handler[h].at = "insert" => of[r] \in sessionRows \/ r \in refused
    /\ handler[h].at = "answer" => r \in rows \/ r \in refused

\* No row but of a record that was begun.
RowsBegun == rows \subseteq 1 .. records

LEMMA OnItsWayStep ==
  ASSUME Core, OnItsWay, RowsBegun, AnsweredIsDurable, [Next]_vars
  PROVE  OnItsWay' /\ RowsBegun' /\ AnsweredIsDurable'
<1> USE DEF Core
<1> DEFINE Kept == /\ printed \subseteq printed' /\ rows \subseteq rows'
                   /\ sessionRows \subseteq sessionRows' /\ refused \subseteq refused'
                   /\ jsonl \cup unwritten \cup dropped
                        \subseteq jsonl' \cup unwritten' \cup dropped'
                   /\ \A r \in 1 .. records : of'[r] = of[r]
<1>0. /\ records \in Nat /\ MaxRecords \in Nat /\ records <= MaxRecords
      /\ handler \in [Handlers -> HandlerRecord]
  BY TrailAssumption DEF TypeOK, HandlerRecord
\* Nothing that was recorded is lost.
<1>1. Kept
  <2>1. ASSUME NEW h \in Handlers, NEW s \in Sessions, PrintLine(h, s)
        PROVE  Kept
    <3>1. \A r \in 1 .. records : r \in Records /\ r # records + 1
      BY <1>0 DEF Records
    <3>2. \A r \in 1 .. records : of'[r] = of[r]
      BY <2>1, <3>1, BeginDoes
    <3> QED BY <2>1, <3>2 DEF PrintLine
  <2>2. ASSUME NEW h \in Handlers,
               PushRecord(h) \/ SpawnWriter(h) \/ Upsert(h) \/ Insert(h) \/ Answer(h)
        PROVE  Kept
    BY <2>2 DEF PushRecord, SpawnWriter, Hooked, Upsert, Locked, Insert, Answer, Exec, AddSession,
       AddRow, Step
  <2>3. ASSUME NEW r \in Records, WriteLine(r)
        PROVE  Kept
    BY <2>3 DEF WriteLine
  <2>4. CASE Crash
    BY <2>4 DEF Crash, diskVars
  <2>5. CASE UNCHANGED vars
    BY <2>5 DEF vars, memoryVars, diskVars, ghostVars
  <2> QED BY <2>1, <2>2, <2>3, <2>4, <2>5 DEF Next, Log
<1> HIDE DEF Kept
<1> DEFINE Done(at, r) ==
      /\ at # "idle" /\ Printing => r \in printed'
      /\ at \in {"upsert", "insert", "answer"} => r \in jsonl' \cup unwritten' \cup dropped'
      /\ at = "insert" => of'[r] \in sessionRows' \/ r \in refused'
      /\ at = "answer" => r \in rows' \/ r \in refused'
<1>2. ASSUME NEW g \in Handlers, handler'[g] = handler[g]
      PROVE  Done(handler'[g].at, handler'[g].rec)
  BY <1>1, <1>2, AtWork DEF OnItsWay, Kept
<1>3. ASSUME NEW h \in Handlers, NEW s \in Sessions, PrintLine(h, s)
      PROVE  Done(handler'[h].at, handler'[h].rec)
  BY <1>3, BeginDoes DEF PrintLine
<1>4. ASSUME NEW h \in Handlers,
             PushRecord(h) \/ SpawnWriter(h) \/ Upsert(h) \/ Insert(h) \/ Answer(h)
      PROVE  Done(handler'[h].at, handler'[h].rec)
  <2> DEFINE r == handler[h].rec
  <2>1. handler[h].at # "idle" /\ Printing => r \in printed'
    BY <1>1 DEF OnItsWay, Kept
  <2>2. handler[h].at \in {"upsert", "insert"} => r \in jsonl' \cup unwritten' \cup dropped'
    BY <1>1 DEF OnItsWay, Kept
  <2>3. CASE PushRecord(h)
    <3>1. Step(h, "push", "hook")
      BY <2>3 DEF PushRecord
    <3> QED BY <2>1, <3>1, StepDoes
  <2>4. CASE SpawnWriter(h)
    <3>1. Step(h, "hook", "upsert") /\ r \in unwritten'
      BY <2>4 DEF SpawnWriter, Hooked
    <3> QED BY <2>1, <3>1, StepDoes
  <2>5. CASE Upsert(h)
    <3>1. Step(h, "upsert", "insert") /\ of' = of /\ (of[r] \in sessionRows' \/ r \in refused')
      BY <2>5 DEF Upsert, Locked, Exec, AddSession, Step
    <3> QED BY <2>1, <2>2, <3>1, StepDoes
  <2>6. CASE Insert(h)
    <3>1. Step(h, "insert", "answer") /\ (r \in rows' \/ r \in refused')
      BY <2>6 DEF Insert, Exec, AddRow
    <3> QED BY <2>1, <2>2, <3>1, StepDoes
  <2>7. CASE Answer(h)
    <3>1. Step(h, "answer", "idle")
      BY <2>7 DEF Answer
    <3> QED BY <3>1, StepDoes
  <2> QED BY <1>4, <2>3, <2>4, <2>5, <2>6, <2>7
<1>5. \A g \in Handlers : Done(handler'[g].at, handler'[g].rec)
  <2>1. ASSUME NEW g \in Handlers, NEW h \in Handlers, Log(h), g # h
        PROVE  handler'[g] = handler[g]
    <3>1. CASE \E s \in Sessions : PrintLine(h, s)
      BY <2>1, <3>1, BeginDoes
    <3>2. ASSUME NEW from, NEW to, Step(h, from, to)
          PROVE  handler'[g] = handler[g]
      BY <2>1, <3>2 DEF Step, TypeOK
    <3> QED BY <2>1, <3>1, <3>2 DEF Log, PushRecord, SpawnWriter, Hooked, Upsert, Locked, Insert,
            Answer
  <2>2. ASSUME NEW g \in Handlers, Crash
        PROVE  Done(handler'[g].at, handler'[g].rec)
    <3>1. handler'[g].at = "idle"
      BY <2>2 DEF Crash
    <3> QED BY <3>1
  <2>3. ASSUME NEW g \in Handlers, UNCHANGED handler
        PROVE  Done(handler'[g].at, handler'[g].rec)
    BY <1>2, <2>3
  <2>4. (\E h \in Handlers : Log(h)) \/ Crash \/ UNCHANGED handler
    BY DEF Next, WriteLine, vars, memoryVars
  <2>5. ASSUME NEW g \in Handlers, NEW h \in Handlers, Log(h)
        PROVE  Done(handler'[g].at, handler'[g].rec)
    BY <1>2, <1>3, <1>4, <2>1, <2>5 DEF Log
  <2> QED BY <2>2, <2>3, <2>4, <2>5
<1>6. OnItsWay'
  BY <1>5 DEF OnItsWay
\* A row is added by an insert, whose record's session row was tried before.
<1>7. ASSUME NEW r \in rows'
      PROVE  r \in 1 .. records /\ (of'[r] \in sessionRows' \/ r \in refused')
  <2>1. CASE r \in rows
    BY <1>1, <2>1 DEF RowsBegun, AnsweredIsDurable, Kept
  <2>2. CASE \E h \in Handlers : Insert(h) /\ r = handler[h].rec
    <3>1. PICK h \in Handlers : Insert(h) /\ r = handler[h].rec
      BY <2>2
    <3>2. handler[h].at = "insert"
      BY <3>1 DEF Insert, Step
    <3>3. r \in 1 .. records
      BY <3>1, <3>2, AtWork
    <3> QED BY <1>1, <3>1, <3>2, <3>3 DEF OnItsWay, Kept
  <2>3. rows' = rows \/ \E h \in Handlers : Insert(h) /\ rows' = rows \cup {handler[h].rec}
    BY DEF Next, Log, PrintLine, PushRecord, SpawnWriter, Hooked, Upsert, Locked, Insert, Exec,
       AddSession, AddRow, Answer, WriteLine, Crash, vars, diskVars
  <2> QED BY <1>7, <2>1, <2>2, <2>3
<1>8. RowsBegun'
  <2>1. records' = records \/ records' = records + 1
    BY DEF Next, Log, PrintLine, PushRecord, SpawnWriter, Hooked, Upsert, Locked, Insert, Answer,
       Step, WriteLine, Crash, vars, ghostVars
  <2> QED BY <1>0, <1>7, <2>1 DEF RowsBegun
<1>9. ASSUME NEW r \in answered'
      PROVE  /\ Printing => r \in printed'
             /\ r \in rows' \/ r \in refused'
             /\ r \in jsonl' \cup unwritten' \cup dropped'
  <2>1. CASE r \in answered
    BY <1>1, <2>1 DEF AnsweredIsDurable, Kept
  <2>2. CASE \E h \in Handlers : Answer(h) /\ r = handler[h].rec
    <3>1. PICK h \in Handlers : Answer(h) /\ r = handler[h].rec
      BY <2>2
    <3>2. handler[h].at = "answer"
      BY <3>1 DEF Answer, Step
    <3> QED BY <1>1, <3>1, <3>2 DEF OnItsWay, Kept
  <2>3. \/ answered' = answered
        \/ \E h \in Handlers : Answer(h) /\ answered' = answered \cup {handler[h].rec}
    BY DEF Next, Log, PrintLine, PushRecord, SpawnWriter, Hooked, Upsert, Locked, Insert,
       Answer, WriteLine, Crash, vars, ghostVars
  <2> QED BY <1>9, <2>1, <2>2, <2>3
<1>10. AnsweredIsDurable'
  BY <1>7, <1>9 DEF AnsweredIsDurable
<1> QED BY <1>6, <1>8, <1>10

\* A decision an agent acts on is on the record first, across every crash and for whatever
\* statement or write fails: printed if lines are printed, its row stored unless SQLite refused it,
\* its JSONL line written, under way or lost with the process; and no row lacks its session's.
THEOREM TrailAnsweredIsDurable == Spec => []AnsweredIsDurable
<1> DEFINE Inv == Core /\ OnItsWay /\ RowsBegun /\ AnsweredIsDurable
<1>1. Init => Inv
  <2>1. Init => OnItsWay /\ RowsBegun /\ AnsweredIsDurable
    BY DEF Init, OnItsWay, RowsBegun, AnsweredIsDurable
  <2> QED BY <2>1, InitCore
<1>2. Inv /\ [Next]_vars => Inv'
  BY CoreStep, OnItsWayStep
<1> QED BY <1>1, <1>2, PTL DEF Spec

=============================================================================
