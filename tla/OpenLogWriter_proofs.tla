------------------------- MODULE OpenLogWriter_proofs -------------------------
(***************************************************************************)
(* The writer implements the append-only log, for any number of processes, *)
(* keys, appends and crashes, as long as a torn write does not lose just   *)
(* the newline.                                                            *)
(***************************************************************************)
EXTENDS OpenLogWriter, SequenceTheorems, TLAPS

\* The model's variables start within their types.
LEMMA TypeInit == Init => TypeOK
<1> SUFFICES ASSUME Init PROVE TypeOK
  OBVIOUS
<1> USE OpenLogWriterAssumption DEF OpenLogWriterAssumption, Init
<1>1. log \in Seq(Lines) /\ acked \in Seq(Ids) /\ queue \in [Procs -> Seq(Requests)]
  OBVIOUS
<1>2. keyFile \in Kids \cup {None, "torn"}
  OBVIOUS
<1>3. mem \in [seen : Seq(Records), kid : Kids \cup {None},
               cp : Checkpoints \cup {None}, trusted : SUBSET Kids]
  BY DEF NoMem
<1>4. nextId \in 1 .. MaxAppends + 1 /\ crashes \in 0 .. MaxCrashes
        /\ damages \in 0 .. MaxDamages
  OBVIOUS
<1>5. QED
  BY <1>1, <1>2, <1>3, <1>4 DEF TypeOK, Phases

\* The head of a non-empty sequence, and what is left of it.
LEMMA HeadTail ==
  ASSUME NEW S, NEW q \in Seq(S), q # <<>>
  PROVE  Head(q) \in S /\ Tail(q) \in Seq(S)
  OBVIOUS

\* The record an append signs, and the file a write of it leaves, have their types.
LEMMA WriteType ==
  ASSUME TypeOK, LockShape, NEW p \in Procs, At(p, "write"),
         NEW t \in {"none", "cut", "bare", "full"}
  PROVE  NewRecord \in Records /\ Written(NewRecord, t) \in Seq(Lines)
<1> USE OpenLogWriterAssumption DEF OpenLogWriterAssumption
<1>1. Request \in Requests
  <2>1. queue[p] \in Seq(Requests) /\ queue[p] # <<>> /\ Request = Head(queue[p])
    BY DEF At, LockShape, TypeOK, Request
  <2>2. QED
    BY <2>1, HeadTail
<1>2. HeadOf(mem.seen) \in 0 .. MaxAppends
  <2>1. mem.seen \in Seq(Records)
    BY DEF TypeOK
  <2>2. CASE mem.seen = <<>>
    BY <2>2 DEF HeadOf
  <2>3. CASE mem.seen # <<>>
    <3>1. mem.seen[Len(mem.seen)] \in Records
      BY <2>1, <2>3
    <3>2. QED
      BY <2>3, <3>1 DEF HeadOf, Records, Ids
  <2>4. QED
    BY <2>2, <2>3
<1>3. NewRecord \in Records
  BY <1>1, <1>2 DEF NewRecord, Records, Requests, At, LockShape
<1>4. Written(NewRecord, t) \in Seq(Lines)
  <2>1. \A f \in {"whole", "cut"} : [record |-> NewRecord, form |-> f] \in Lines
    BY <1>3 DEF Lines
  <2>2. log \in Seq(Lines)
    BY DEF TypeOK
  <2>3. [log EXCEPT ![Len(log)].form = "glued"] \in Seq(Lines)
    <3>1. \A l \in Lines : [l EXCEPT !.form = "glued"] \in Lines
      BY DEF Lines
    <3>2. CASE log = <<>>
      <4>1. [log EXCEPT ![Len(log)].form = "glued"] = log
        BY <2>2, <3>2
      <4>2. QED
        BY <2>2, <4>1
    <3>3. CASE log # <<>>
      <4> DEFINE n == Len(log)
                 line == [log[n] EXCEPT !.form = "glued"]
      <4>1. n \in 1 .. Len(log) /\ log[n] \in Lines
        BY <2>2, <3>3
      <4>2. line \in Lines
        BY <3>1, <4>1
      <4>3. [log EXCEPT ![n] = line] \in Seq(Lines)
        <5> HIDE DEF line, n
        <5>1. QED
          BY <2>2, <4>1, <4>2, ExceptSeq
      <4>4. [log EXCEPT ![n].form = "glued"] = [log EXCEPT ![n] = line]
        OBVIOUS
      <4>5. QED
        BY <4>3, <4>4
    <3>4. QED
      BY <3>2, <3>3
  <2>4. QED
    BY <2>1, <2>2, <2>3 DEF Written
<1>5. QED
  BY <1>3, <1>4
\* What readStrict returns is a sequence of records.
LEMMA RecordsType == ASSUME TypeOK PROVE RecordsOf(log) \in Seq(Records)
<1>1. log \in Seq(Lines) /\ Len(log) \in Nat /\ DOMAIN log = 1 .. Len(log)
  BY LenProperties DEF TypeOK
<1>2. ASSUME NEW i \in 1 .. Len(log) PROVE log[i].record \in Records
  <2>1. log[i] \in Lines
    BY <1>1, ElementOfSeq
  <2>2. QED
    BY <2>1 DEF Lines
<1>3. RecordsOf(log) \in [1 .. Len(log) -> Records]
  BY <1>1, <1>2 DEF RecordsOf
<1>4. QED
  BY <1>1, <1>3, SeqDef

\* What every step keeps, whoever touches the files.
Basic == TypeOK /\ LockShape /\ QueueIds

\* Each request still queued was queued before, one place further back if a head
\* settled, and queues keep their types.
QueueShift(p) ==
    \A q \in Procs : \A i \in DOMAIN queue'[q] :
        /\ i \in Nat \ {0}
        /\ \E j \in DOMAIN queue[q] :
              queue'[q][i] = queue[q][j] /\ j = IF q = p THEN i + 1 ELSE i

\* The head of a queue settles, whether its append ran or timed out.
LEMMA PopQueue ==
  ASSUME Basic, NEW p \in Procs, queue[p] # <<>>, nextId' = nextId,
         queue' = [queue EXCEPT ![p] = Tail(@)]
  PROVE  queue' \in [Procs -> Seq(Requests)] /\ QueueShift(p) /\ QueueIds'
<1>1. queue \in [Procs -> Seq(Requests)] /\ queue[p] \in Seq(Requests)
  BY DEF Basic, TypeOK
<1>2. Tail(queue[p]) \in Seq(Requests)
  BY <1>1, HeadTail
<1>3. queue' \in [Procs -> Seq(Requests)]
  BY <1>1, <1>2
<1>4. /\ DOMAIN Tail(queue[p]) = 1 .. Len(queue[p]) - 1
      /\ \A i \in 1 .. Len(queue[p]) - 1 : Tail(queue[p])[i] = queue[p][i + 1]
      /\ DOMAIN queue[p] = 1 .. Len(queue[p])
      /\ Len(queue[p]) \in Nat
  BY <1>1, HeadTailProperties, LenProperties
<1>5. \A q \in Procs : queue'[q] = IF q = p THEN Tail(queue[p]) ELSE queue[q]
  BY <1>1
<1>6. QueueShift(p)
  <2> SUFFICES ASSUME NEW q \in Procs, NEW i \in DOMAIN queue'[q]
               PROVE  /\ i \in Nat \ {0}
                      /\ \E j \in DOMAIN queue[q] :
                            queue'[q][i] = queue[q][j] /\ j = IF q = p THEN i + 1 ELSE i
    BY DEF QueueShift
  <2>1. CASE q = p
    <3>1. queue'[q] = Tail(queue[p])
      BY <1>5, <2>1
    <3>2. i \in 1 .. Len(queue[p]) - 1
      BY <1>4, <3>1
    <3>3. i + 1 \in DOMAIN queue[p] /\ i \in Nat \ {0}
      BY <1>4, <3>2
    <3>4. queue'[q][i] = queue[p][i + 1]
      BY <1>4, <3>1, <3>2
    <3>5. QED
      BY <2>1, <3>3, <3>4
  <2>2. CASE q # p
    <3>1. queue'[q] = queue[q] /\ queue[q] \in Seq(Requests)
      BY <1>5, <2>2, <1>1
    <3>2. i \in DOMAIN queue[q] /\ i \in Nat \ {0}
      BY <3>1, LenProperties
    <3>3. QED
      BY <2>2, <3>1, <3>2
  <2>3. QED
    BY <2>1, <2>2
<1>7. \A q \in Procs : \A i \in DOMAIN queue'[q] : queue'[q][i].id < nextId'
  BY <1>6 DEF QueueShift, Basic, QueueIds
<1>8. ASSUME NEW q \in Procs, NEW r \in Procs,
             NEW i \in DOMAIN queue'[q], NEW j \in DOMAIN queue'[r],
             queue'[q][i].id = queue'[r][j].id
      PROVE  q = r /\ i = j
  <2>1. PICK k \in DOMAIN queue[q] :
           queue'[q][i] = queue[q][k] /\ k = IF q = p THEN i + 1 ELSE i
    BY <1>6 DEF QueueShift
  <2>2. PICK l \in DOMAIN queue[r] :
           queue'[r][j] = queue[r][l] /\ l = IF r = p THEN j + 1 ELSE j
    BY <1>6 DEF QueueShift
  <2>3. q = r /\ k = l
    BY <1>8, <2>1, <2>2 DEF Basic, QueueIds
  <2>4. i \in Nat /\ j \in Nat
    BY <1>6 DEF QueueShift
  <2>5. QED
    BY <2>1, <2>2, <2>3, <2>4
<1>9. QED
  BY <1>3, <1>6, <1>7, <1>8 DEF QueueIds

\* Leaving the lock keeps the types of what leaving it changes.
LEMMA ReleaseStep ==
  ASSUME Basic, NEW p \in Procs, holder = p, Release(p), nextId' = nextId
  PROVE  /\ LockShape' /\ QueueIds' /\ QueueShift(p)
         /\ queue' \in [Procs -> Seq(Requests)]
         /\ holder' \in Procs \cup {None} /\ phase' \in Phases
         /\ mem' \in [seen : Seq(Records), kid : Kids \cup {None},
                      cp : Checkpoints \cup {None}, trusted : SUBSET Kids]
<1>1. queue[p] # <<>>
  BY OpenLogWriterAssumption DEF Basic, LockShape, OpenLogWriterAssumption
<1>2. queue' \in [Procs -> Seq(Requests)] /\ QueueShift(p) /\ QueueIds'
  BY <1>1, PopQueue DEF Release
<1>3. LockShape'
  BY DEF Release, LockShape
<1>4. QED
  BY <1>2, <1>3 DEF Release, NoMem, Phases

\* The steps of an append inside the lock that leave its queue alone.
Inner(p) ==
    \/ ReadLog(p) \/ LoadKey(p) \/ CreateKey(p) \/ FillKey(p) \/ LoadTrust(p)
    \/ PinKey(p) \/ Check(p) \/ WriteLine(p) \/ WriteContinuity(p)

\* The steps inside the lock that neither release it nor touch a queue.
LEMMA InnerBasic ==
    ASSUME Basic, NEW p \in Procs, Inner(p)
    PROVE  Basic'
<1> USE OpenLogWriterAssumption DEF OpenLogWriterAssumption, Stay, At, disk
<1>1. LockShape' /\ QueueIds'
  <2>1. UNCHANGED <<holder, queue, nextId>>
    BY DEF Inner, ReadLog, LoadKey, CreateKey, FillKey, LoadTrust, PinKey, Check,
       WriteLine, WriteContinuity
  <2>2. holder = p /\ holder # None /\ phase' # "free"
    BY DEF Inner, ReadLog, LoadKey, CreateKey, FillKey, LoadTrust, PinKey, Check,
       WriteLine, WriteContinuity
  <2>3. phase' \in {"trust", "check", "write", "checkpoint"} => mem'.kid \in Kids
    <3>1. CASE ReadLog(p) \/ CreateKey(p)
      BY <3>1 DEF ReadLog, CreateKey
    <3>2. CASE LoadKey(p) \/ FillKey(p)
      BY <3>2 DEF LoadKey, FillKey, Basic, TypeOK
    <3>3. CASE LoadTrust(p) \/ PinKey(p)
      BY <3>3 DEF LoadTrust, PinKey, Basic, TypeOK, LockShape
    <3>4. CASE Check(p) \/ WriteLine(p) \/ WriteContinuity(p)
      BY <3>4 DEF Check, WriteLine, WriteContinuity, Basic, LockShape
    <3>5. QED
      BY <3>1, <3>2, <3>3, <3>4 DEF Inner
  <2>4. QED
    BY <2>1, <2>2, <2>3 DEF Basic, LockShape, QueueIds
<1>2. TypeOK'
  <2> USE DEF Basic, Phases
  <2>1. CASE ReadLog(p)
    BY <2>1, RecordsType DEF ReadLog, TypeOK
  <2>2. CASE LoadKey(p)
    BY <2>2 DEF LoadKey, TypeOK
  <2>3. CASE CreateKey(p)
    BY <2>3 DEF CreateKey, TypeOK
  <2>4. CASE FillKey(p)
    <3>1. PICK k \in Kids : keyFile' = k /\ mem' = [mem EXCEPT !.kid = k, !.cp = checkpoint]
      BY <2>4 DEF FillKey
    <3>2. mem' \in [seen : Seq(Records), kid : Kids \cup {None},
                    cp : Checkpoints \cup {None}, trusted : SUBSET Kids]
      BY <3>1 DEF TypeOK
    <3>3. QED
      BY <2>4, <3>1, <3>2 DEF FillKey, TypeOK
  <2>5. CASE LoadTrust(p)
    <3>1. Pinned \in SUBSET Kids
      BY <2>5 DEF LoadTrust, Pinned, TypeOK
    <3>2. QED
      BY <2>5, <3>1 DEF LoadTrust, TypeOK
  <2>6. CASE PinKey(p)
    BY <2>6 DEF PinKey, TypeOK, LockShape
  <2>7. CASE Check(p)
    BY <2>7 DEF Check, TypeOK
  <2>8. CASE WriteLine(p)
    BY <2>8, WriteType DEF WriteLine, TypeOK
  <2>9. CASE WriteContinuity(p)
    <3>1. queue[p] \in Seq(Requests) /\ queue[p] # <<>> /\ Request = Head(queue[p])
      BY <2>9 DEF WriteContinuity, LockShape, TypeOK, Request
    <3>2. Request.id \in Ids
      <4>1. Request \in Requests
        BY <3>1, HeadTail
      <4>2. QED
        BY <4>1 DEF Requests
    <3>3. Len(mem.seen) + 1 \in Nat \ {0}
      BY DEF TypeOK
    <3>4. mem.kid \in Kids
      BY <2>9 DEF WriteContinuity, LockShape
    <3>5. checkpoint' \in Checkpoints
      BY <2>9, <3>2, <3>3, <3>4 DEF WriteContinuity, Checkpoints
    <3>6. QED
      BY <2>9, <3>5 DEF WriteContinuity, TypeOK
  <2>10. QED
    BY <2>1, <2>2, <2>3, <2>4, <2>5, <2>6, <2>7, <2>8, <2>9 DEF Inner
<1>3. QED
  BY <1>1, <1>2 DEF Basic
\* The holder's append throws before anything more is written.
Refusing(p) ==
    RefuseMalformed(p) \/ RefuseKey(p) \/ RefuseTrust(p) \/ RefuseCheck(p)

\* A refusal: the head of the queue leaves it with the lock.
LEMMA RefuseBasic ==
    ASSUME Basic, NEW p \in Procs, Refusing(p)
    PROVE  Basic' /\ QueueShift(p)
<1>1. holder = p /\ Release(p) /\ UNCHANGED <<disk, acked>> /\ Stay
  BY DEF Refusing, RefuseMalformed, RefuseKey, RefuseTrust, RefuseCheck, Refuse, At
<1>2. LockShape' /\ QueueIds' /\ QueueShift(p)
  BY <1>1, ReleaseStep DEF Stay
<1>3. TypeOK'
  BY <1>1, ReleaseStep DEF Basic, TypeOK, Stay, disk
<1>4. QED
  BY <1>2, <1>3 DEF Basic

\* The end of an append: the head of the queue leaves it with the lock.
LEMMA SettleBasic ==
    ASSUME Basic, NEW p \in Procs, Settle(p)
    PROVE  Basic' /\ QueueShift(p)
<1>1. holder = p /\ Release(p) /\ UNCHANGED disk /\ Stay
  BY DEF Settle, At
<1>2. LockShape' /\ QueueIds' /\ QueueShift(p)
  BY <1>1, ReleaseStep DEF Stay
<1>3. acked' \in Seq(Ids)
  <2>1. queue[p] \in Seq(Requests) /\ queue[p] # <<>>
    BY <1>1, OpenLogWriterAssumption
    DEF Basic, TypeOK, LockShape, OpenLogWriterAssumption
  <2>2. Request \in Requests
    BY <1>1, <2>1, HeadTail DEF Request
  <2>3. Request.id \in Ids
    BY <2>2 DEF Requests
  <2>4. QED
    BY <2>3 DEF Settle, Basic, TypeOK
<1>4. TypeOK'
  BY <1>1, <1>3, ReleaseStep DEF Basic, TypeOK, Stay, disk
<1>5. QED
  BY <1>2, <1>4 DEF Basic

\* A write that fails: the same, with what it left on disk.
LEMMA IoFaultBasic ==
    ASSUME Basic, NEW p \in Procs, IoFault(p)
    PROVE  Basic' /\ QueueShift(p)
<1>1. holder = p /\ Release(p) /\ UNCHANGED acked /\ Stay
  BY DEF IoFault
<1>2. LockShape' /\ QueueIds' /\ QueueShift(p)
  BY <1>1, ReleaseStep DEF Stay
<1>3. /\ log' \in Seq(Lines) /\ newline' \in BOOLEAN
      /\ keyFile' \in Kids \cup {None, "torn"}
      /\ trust' = trust /\ checkpoint' = checkpoint
  <2>1. CASE phase = "write"
    <3>1. PICK t \in Tails : log' = Written(NewRecord, t) /\ newline' = NewlineAfter(t)
      BY <2>1 DEF IoFault
    <3>2. t \in {"none", "cut", "bare", "full"}
      BY OpenLogWriterAssumption DEF OpenLogWriterAssumption
    <3>3. log' \in Seq(Lines)
      BY <1>1, <2>1, <3>1, <3>2, WriteType DEF At, Basic
    <3>4. newline' \in BOOLEAN
      BY <3>1, <3>2 DEF NewlineAfter, Basic, TypeOK
    <3>5. QED
      BY <2>1, <3>3, <3>4 DEF IoFault, Basic, TypeOK, disk
  <2>2. CASE phase # "write"
    BY <2>2 DEF IoFault, Basic, TypeOK, disk
  <2>3. QED
    BY <2>1, <2>2
<1>4. TypeOK'
  BY <1>1, <1>3, ReleaseStep DEF Basic, TypeOK, Stay
<1>5. QED
  BY <1>2, <1>4 DEF Basic
\* A new call gets an identity nobody has.
LEMMA CallBasic ==
  ASSUME Basic, NEW p \in Procs, NEW b \in Actors, Call(p, b)
  PROVE  /\ Basic'
         /\ \A q \in Procs : \A i \in DOMAIN queue'[q] :
               \/ i \in DOMAIN queue[q] /\ queue'[q][i] = queue[q][i]
               \/ queue'[q][i].id = nextId /\ q = p /\ i = Len(queue[p]) + 1
<1> DEFINE r == [id |-> nextId, bound |-> b]
<1>1. queue \in [Procs -> Seq(Requests)] /\ queue[p] \in Seq(Requests)
  BY DEF Basic, TypeOK
<1>2. r \in Requests
  BY OpenLogWriterAssumption
  DEF OpenLogWriterAssumption, Call, Basic, TypeOK, Requests, Ids
<1>3. /\ Append(queue[p], r) \in Seq(Requests)
      /\ DOMAIN Append(queue[p], r) = 1 .. Len(queue[p]) + 1
      /\ \A i \in 1 .. Len(queue[p]) : Append(queue[p], r)[i] = queue[p][i]
      /\ Append(queue[p], r)[Len(queue[p]) + 1] = r
      /\ DOMAIN queue[p] = 1 .. Len(queue[p]) /\ Len(queue[p]) \in Nat
  <2> HIDE DEF r
  <2>1. QED
    BY <1>1, <1>2, AppendProperties, LenProperties
<1>4. queue' = [queue EXCEPT ![p] = Append(queue[p], r)]
  BY DEF Call
<1>5. queue' \in [Procs -> Seq(Requests)]
  <2> HIDE DEF r
  <2>1. QED
    BY <1>1, <1>3, <1>4
<1>6. \A q \in Procs : queue'[q] = IF q = p THEN Append(queue[p], r) ELSE queue[q]
  <2> HIDE DEF r
  <2>1. QED
    BY <1>1, <1>4
<1>7. ASSUME NEW q \in Procs, NEW i \in DOMAIN queue'[q]
      PROVE  \/ i \in DOMAIN queue[q] /\ queue'[q][i] = queue[q][i]
             \/ queue'[q][i].id = nextId /\ q = p /\ i = Len(queue[p]) + 1
  <2>1. CASE q = p
    <3>1. queue'[q] = Append(queue[p], r)
      BY <1>6, <2>1
    <3>2. i \in 1 .. Len(queue[p]) + 1
      BY <1>3, <3>1
    <3>3. CASE i = Len(queue[p]) + 1
      <4>1. queue'[q][i] = r
        BY <1>3, <3>1, <3>3
      <4>2. QED
        BY <2>1, <3>3, <4>1
    <3>4. CASE i \in 1 .. Len(queue[p])
      BY <1>3, <2>1, <3>1, <3>4
    <3>5. QED
      BY <1>3, <3>2, <3>3, <3>4
  <2>2. CASE q # p
    BY <1>6, <2>2
  <2>3. QED
    BY <2>1, <2>2
<1>8. nextId \in Nat /\ nextId' = nextId + 1 /\ nextId' \in 1 .. MaxAppends + 1
  BY OpenLogWriterAssumption DEF OpenLogWriterAssumption, Call, Basic, TypeOK
<1>9. QueueIds'
  <2>1. \A q \in Procs : \A i \in DOMAIN queue[q] :
           queue[q][i].id \in Nat /\ queue[q][i].id < nextId
    <3>1. ASSUME NEW q \in Procs, NEW i \in DOMAIN queue[q] PROVE queue[q][i] \in Requests
      <4>1. queue[q] \in Seq(Requests)
        BY <1>1
      <4>2. QED
        BY <4>1, LenProperties, ElementOfSeq
    <3>2. QED
      BY <3>1 DEF Basic, QueueIds, Requests, Ids
  <2>2. \A q \in Procs : \A i \in DOMAIN queue'[q] : queue'[q][i].id < nextId'
    BY <1>7, <1>8, <2>1
  <2>3. \A q, t \in Procs : \A i \in DOMAIN queue'[q], j \in DOMAIN queue'[t] :
           queue'[q][i].id = queue'[t][j].id => q = t /\ i = j
    BY <1>7, <1>8, <2>1 DEF Basic, QueueIds
  <2>4. QED
    BY <2>2, <2>3 DEF QueueIds
<1>10. LockShape'
  <2>1. UNCHANGED <<holder, phase, mem>>
    BY DEF Call
  <2>2. ASSUME holder # None PROVE queue'[holder] # <<>>
    <3>1. holder \in Procs /\ queue[holder] # <<>>
      BY <2>2 DEF Basic, TypeOK, LockShape
    <3>2. CASE holder = p
      <4>1. queue'[p] = Append(queue[p], r)
        BY <1>6
      <4>2. queue'[p] # <<>>
        <5> HIDE DEF r
        <5>1. QED
          BY <1>1, <1>2, <4>1, AppendProperties
      <4>3. QED
        BY <3>2, <4>2
    <3>3. CASE holder # p
      BY <1>6, <3>1, <3>3
    <3>4. QED
      BY <3>2, <3>3
  <2>3. QED
    BY <2>1, <2>2 DEF Basic, LockShape
<1>11. TypeOK'
  BY <1>5, <1>8 DEF Call, Basic, TypeOK, disk
<1>12. QED
  BY <1>7, <1>9, <1>10, <1>11 DEF Basic

\* The lock is taken.
LEMMA EnterBasic ==
    ASSUME Basic, NEW p \in Procs, Enter(p)
    PROVE  Basic'
  BY OpenLogWriterAssumption
  DEF OpenLogWriterAssumption, Enter, Basic, TypeOK, LockShape, QueueIds, Stay, disk, Phases

\* The wait for the lock is given up: the head leaves the queue.
LEMMA TimeOutBasic ==
    ASSUME Basic, NEW p \in Procs, TimeOut(p)
    PROVE  Basic' /\ QueueShift(p)
<1>1. /\ queue[p] # <<>> /\ nextId' = nextId
      /\ queue' = [queue EXCEPT ![p] = Tail(@)]
      /\ UNCHANGED <<conf, disk, holder, phase, mem, acked, crashes, damages>>
      /\ holder # p
  BY DEF TimeOut, Stay
<1>2. queue' \in [Procs -> Seq(Requests)] /\ QueueShift(p) /\ QueueIds'
  BY <1>1, PopQueue
<1>3. TypeOK'
  BY <1>1, <1>2 DEF Basic, TypeOK, disk
<1>4. LockShape'
  BY <1>1 DEF Basic, LockShape, TypeOK
<1>5. QED
  BY <1>2, <1>3, <1>4 DEF Basic

\* A process that dies takes its queue with it.
QueueLoss(p) ==
    \A q \in Procs : \A i \in DOMAIN queue'[q] :
        q # p /\ i \in DOMAIN queue[q] /\ queue'[q][i] = queue[q][i]

\* A death: the whole queue is gone, and the lock if it was held.
LEMMA CrashBasic ==
    ASSUME Basic, NEW p \in Procs, Crash(p)
    PROVE  Basic' /\ QueueLoss(p)
<1>1. queue \in [Procs -> Seq(Requests)]
  BY DEF Basic, TypeOK
<1>2. queue' = [queue EXCEPT ![p] = <<>>]
  BY DEF Crash
<1>3. queue' \in [Procs -> Seq(Requests)] /\ queue'[p] = <<>>
        /\ \A q \in Procs : q # p => queue'[q] = queue[q]
  BY <1>1, <1>2
<1>4. QueueLoss(p)
  BY <1>3 DEF QueueLoss
<1>5. QueueIds'
  <2>1. nextId' = nextId
    BY DEF Crash
  <2>2. QED
    BY <1>4, <2>1 DEF QueueLoss, Basic, QueueIds
<1>6. LockShape'
  <2>1. CASE holder = p
    BY <2>1 DEF Crash, LockShape
  <2>2. CASE holder # p
    <3>1. UNCHANGED <<holder, phase, mem>>
      BY <2>2 DEF Crash
    <3>2. holder # None => queue'[holder] # <<>>
      BY <1>3, <2>2 DEF Basic, LockShape, TypeOK
    <3>3. QED
      BY <3>1, <3>2 DEF Basic, LockShape
  <2>3. QED
    BY <2>1, <2>2
<1>7. log' \in Seq(Lines) /\ newline' \in BOOLEAN
  <2>1. CASE holder = p /\ phase = "write"
    <3>1. PICK t \in Tails : log' = Written(NewRecord, t) /\ newline' = NewlineAfter(t)
      BY <2>1 DEF Crash
    <3>2. t \in {"none", "cut", "bare", "full"}
      BY OpenLogWriterAssumption DEF OpenLogWriterAssumption
    <3>3. log' \in Seq(Lines)
      BY <2>1, <3>1, <3>2, WriteType DEF At, Basic
    <3>4. newline' \in BOOLEAN
      BY <3>1, <3>2 DEF NewlineAfter, Basic, TypeOK
    <3>5. QED
      BY <3>3, <3>4
  <2>2. CASE ~(holder = p /\ phase = "write")
    BY <2>2 DEF Crash, Basic, TypeOK
  <2>3. QED
    BY <2>1, <2>2
<1>8. crashes' \in 0 .. MaxCrashes
  BY OpenLogWriterAssumption DEF OpenLogWriterAssumption, Crash, Basic, TypeOK
<1>9. /\ holder' \in Procs \cup {None} /\ phase' \in Phases
      /\ mem' \in [seen : Seq(Records), kid : Kids \cup {None},
                   cp : Checkpoints \cup {None}, trusted : SUBSET Kids]
  <2>1. NoMem \in [seen : Seq(Records), kid : Kids \cup {None},
                   cp : Checkpoints \cup {None}, trusted : SUBSET Kids]
    BY DEF NoMem
  <2>2. QED
    BY <2>1 DEF Crash, Basic, TypeOK, Phases
<1>10. TypeOK'
  BY <1>3, <1>7, <1>8, <1>9 DEF Crash, Basic, TypeOK
<1>11. QED
  BY <1>4, <1>5, <1>6, <1>10 DEF Basic

\* Somebody else's change of the files.
LEMMA DamageBasic ==
    ASSUME Basic, Damage
    PROVE  Basic'
<1>1. UNCHANGED <<conf, holder, phase, mem, queue, nextId, crashes>>
  BY DEF Damage
<1>2. damages' \in 0 .. MaxDamages
  BY OpenLogWriterAssumption DEF OpenLogWriterAssumption, Damage, Basic, TypeOK
<1>3. acked' \in Seq(Ids)
  BY DEF Damage, Basic, TypeOK
<1>4. log' \in Seq(Lines)
  <2>1. \A n \in 0 .. Len(log) - 1 : SubSeq(log, 1, n) \in Seq(Lines)
    BY DEF Basic, TypeOK
  <2>2. QED
    BY <2>1 DEF Damage, Basic, TypeOK
<1>5. TypeOK'
  BY <1>1, <1>2, <1>3, <1>4 DEF Damage, Basic, TypeOK
<1>6. QED
  BY <1>1, <1>5 DEF Basic, LockShape, QueueIds

\* Whatever happens, types, lock shape and identities are kept.
LEMMA BasicStep == Basic /\ [Next]_vars => Basic'
<1> SUFFICES ASSUME Basic, [Next]_vars PROVE Basic'
  OBVIOUS
<1>1. ASSUME NEW p \in Procs, Step(p) PROVE Basic'
  BY <1>1, EnterBasic, TimeOutBasic, InnerBasic, RefuseBasic, SettleBasic
  DEF Step, Inner, Refusing
<1>2. ASSUME NEW p \in Procs, NEW b \in Actors, Call(p, b) PROVE Basic'
  BY <1>2, CallBasic
<1>3. ASSUME NEW p \in Procs, IoFault(p) \/ Crash(p) PROVE Basic'
  BY <1>3, IoFaultBasic, CrashBasic
<1>4. CASE Damage
  BY <1>4, DamageBasic
<1>5. CASE UNCHANGED vars
  BY <1>5 DEF vars, disk, Basic, TypeOK, LockShape, QueueIds
<1>6. QED
  BY <1>1, <1>2, <1>3, <1>4, <1>5 DEF Next
-----------------------------------------------------------------------------
(* While nobody else touches the files. *)

\* The log as a function of its positions.
LEMMA LogShape ==
  ASSUME Basic
  PROVE  Len(log) \in Nat /\ DOMAIN log = 1 .. Len(log) /\ log \in Seq(Lines)
  BY LenProperties DEF Basic, TypeOK

\* Every request still queued was queued before, and none of them is the head of
\* p's queue of then.
Kept(p) ==
    \A q \in Procs : \A i \in DOMAIN queue'[q] :
        \E j \in DOMAIN queue[q] :
            queue'[q][i] = queue[q][j] /\ (j = 1 => i = 1 /\ q # p)

\* A queue that only lost requests has no new ones, in no new order.
LEMMA ShiftKeeps ==
    ASSUME NEW p, QueueShift(p) \/ QueueLoss(p)
    PROVE  Kept(p)
  BY DEF QueueShift, QueueLoss, Kept

\* When p's head settles or p dies, the queues and an unchanged log still have
\* nothing in common but the record of another holder's head.
LEMMA KeptIntact ==
  ASSUME Basic, IntactInv, NEW p \in Procs, Kept(p),
         log' = log, nextId' = nextId,
         holder = p \/ UNCHANGED <<holder, phase>>
  PROVE  LogIds'
<1>1. ASSUME NEW q \in Procs, NEW i \in DOMAIN queue'[q], NEW k \in DOMAIN log',
             queue'[q][i].id = log'[k].record.id
      PROVE  q = holder' /\ i = 1 /\ phase' \in {"checkpoint", "settle"}
  <2>1. PICK j \in DOMAIN queue[q] :
           queue'[q][i] = queue[q][j] /\ (j = 1 => i = 1 /\ q # p)
    BY DEF Kept
  <2>2. q = holder /\ j = 1 /\ phase \in {"checkpoint", "settle"}
    BY <1>1, <2>1 DEF IntactInv, LogIds
  <2>3. QED
    BY <2>1, <2>2
<1>2. QED
  BY <1>1 DEF IntactInv, LogIds

\* What was acknowledged before is still in the log and not queued again.
LEMMA KeptAcked ==
  ASSUME IntactInv, NEW p \in Procs, Kept(p), log' = log, acked' = acked
  PROVE  AckedInLog'
<1>1. ASSUME NEW i \in DOMAIN acked', NEW q \in Procs, NEW j \in DOMAIN queue'[q]
      PROVE  queue'[q][j].id # acked'[i]
  <2>1. PICK k \in DOMAIN queue[q] : queue'[q][j] = queue[q][k]
    BY DEF Kept
  <2>2. QED
    BY <2>1 DEF IntactInv, AckedInLog
<1>2. QED
  BY <1>1 DEF IntactInv, AckedInLog

\* The append ends without a change of the files.
LEMMA LeaveIntact ==
  ASSUME Basic, IntactInv, NEW p \in Procs, Kept(p),
         UNCHANGED <<log, newline, checkpoint, nextId, acked>>,
         \/ holder = p /\ holder' = None /\ phase' = "free"
         \/ /\ UNCHANGED <<holder, phase, mem>> /\ holder # p
            /\ \A q \in Procs : q # p => queue'[q] = queue[q]
  PROVE  IntactInv'
<1>1. LogIds' /\ AckedInLog'
  BY KeptIntact, KeptAcked
<1>2. TornAtEnd' /\ CheckpointNamesRecord'
  BY DEF IntactInv, TornAtEnd, CheckpointNamesRecord, Malformed
<1>3. SeenIsLog'
  <2>1. CASE phase' = "free"
    BY <2>1 DEF SeenIsLog
  <2>2. CASE /\ UNCHANGED <<holder, phase, mem>> /\ holder # p
             /\ \A q \in Procs : q # p => queue'[q] = queue[q]
    <3>1. phase # "free" => queue'[holder] = queue[holder]
      BY <2>2 DEF Basic, LockShape, TypeOK
    <3>2. QED
      BY <2>2, <3>1 DEF IntactInv, SeenIsLog
  <2>3. QED
    BY <2>1, <2>2
<1>4. QED
  BY <1>1, <1>2, <1>3 DEF IntactInv
\* Before the write nothing queued is in the log, so the steps up to it keep the
\* invariant.
LEMMA ReadingIntact ==
  ASSUME Basic, IntactInv, NEW p \in Procs,
         \/ ReadLog(p) \/ LoadKey(p) \/ CreateKey(p) \/ FillKey(p) \/ LoadTrust(p)
         \/ PinKey(p) \/ Check(p)
  PROVE  IntactInv'
<1>1. /\ UNCHANGED <<log, newline, checkpoint, holder, queue, acked, nextId>>
      /\ phase \in {"read", "key", "fill", "trust", "check"}
      /\ phase' \in {"key", "fill", "trust", "check", "write"}
  BY DEF ReadLog, LoadKey, CreateKey, FillKey, LoadTrust, PinKey, Check, At, Stay, disk
<1>2. ~Malformed(log)
  BY DEF IntactInv, TornAtEnd, ReadLog, LoadKey, CreateKey, FillKey, LoadTrust, PinKey,
     Check, At
<1>3. Len(mem'.seen) = Len(log)
  <2>1. CASE ReadLog(p)
    <3>1. mem'.seen = RecordsOf(log)
      BY <2>1 DEF ReadLog, Basic, TypeOK
    <3>2. RecordsOf(log) = [i \in 1 .. Len(log) |-> log[i].record]
      BY LogShape DEF RecordsOf
    <3>3. Len(RecordsOf(log)) = Len(log)
      BY <3>2, LogShape
    <3>4. QED
      BY <3>1, <3>3
  <2>2. CASE ~ReadLog(p)
    <3>1. mem'.seen = mem.seen /\ phase \in {"key", "fill", "trust", "check"}
      BY <2>2 DEF LoadKey, CreateKey, FillKey, LoadTrust, PinKey, Check, At, Basic, TypeOK
    <3>2. QED
      BY <3>1 DEF IntactInv, SeenIsLog
  <2>3. QED
    BY <2>1, <2>2
<1>4. QED
  BY <1>1, <1>2, <1>3
  DEF IntactInv, TornAtEnd, LogIds, SeenIsLog, CheckpointNamesRecord, AckedInLog, Malformed

\* What a write of the holder's record does to a log that ends in a newline.
LEMMA WrittenLog ==
  ASSUME Basic, NEW p \in Procs, At(p, "write"),
         NEW t \in {"none", "cut", "bare", "full"}, newline \/ t = "none"
  PROVE  LET f == IF t = "cut" THEN "cut" ELSE "whole"
             n == Len(log)
         IN  \/ t = "none" /\ Written(NewRecord, t) = log /\ NewlineAfter(t) = newline
             \/ /\ t # "none"
                /\ NewlineAfter(t) = (t = "full")
                /\ DOMAIN Written(NewRecord, t) = 1 .. n + 1
                /\ Len(Written(NewRecord, t)) = n + 1
                /\ \A i \in 1 .. n : Written(NewRecord, t)[i] = log[i]
                /\ Written(NewRecord, t)[n + 1] = [record |-> NewRecord, form |-> f]
<1>1. CASE t = "none"
  BY <1>1 DEF Written, NewlineAfter
<1>2. CASE t # "none"
  <2> DEFINE line == [record |-> NewRecord, form |-> IF t = "cut" THEN "cut" ELSE "whole"]
  <2>1. newline = TRUE
    BY <1>2 DEF Basic, TypeOK
  <2>2. Written(NewRecord, t) = Append(log, line)
    BY <1>2, <2>1 DEF Written
  <2>3. line \in Lines
    BY WriteType DEF Lines, Basic
  <2>4. /\ DOMAIN Append(log, line) = 1 .. Len(log) + 1
        /\ Len(Append(log, line)) = Len(log) + 1
        /\ \A i \in 1 .. Len(log) : Append(log, line)[i] = log[i]
        /\ Append(log, line)[Len(log) + 1] = line
    <3> HIDE DEF line
    <3>1. QED
      BY <2>3, LogShape, AppendProperties, LenProperties
  <2>5. NewlineAfter(t) = (t = "full")
    BY <1>2 DEF NewlineAfter
  <2>6. QED
    BY <1>2, <2>2, <2>4, <2>5
<1>3. QED
  BY <1>1, <1>2
\* The holder's request is at the head of its queue.
LEMMA HeadRequest ==
  ASSUME Basic, NEW p \in Procs, holder = p
  PROVE  /\ 1 \in DOMAIN queue[p] /\ Request = queue[p][1] /\ Request.id \in Ids
         /\ Request.id < nextId
<1>1. queue[p] \in Seq(Requests) /\ queue[p] # <<>>
  BY OpenLogWriterAssumption DEF Basic, TypeOK, LockShape, OpenLogWriterAssumption
<1>2. 1 \in DOMAIN queue[p] /\ Head(queue[p]) = queue[p][1] /\ Head(queue[p]) \in Requests
  BY <1>1, LenProperties, EmptySeq, HeadTailProperties
<1>3. QED
  BY <1>2 DEF Request, Requests, Basic, QueueIds

\* A write adds one record with an identity the log did not have; whatever part of
\* it arrives, nothing before it changes.
LEMMA WriteIntact ==
  ASSUME Basic, IntactInv, NEW p \in Procs, At(p, "write"),
         NEW t \in {"none", "cut", "bare", "full"}, newline \/ t = "none",
         log' = Written(NewRecord, t), newline' = NewlineAfter(t),
         UNCHANGED <<checkpoint, nextId, acked>>
  PROVE  /\ \A i \in DOMAIN log' : log'[i].form # "whole" => i = Len(log') /\ t = "cut"
         /\ ~newline' => /\ log' # <<>> /\ t # "full"
                         /\ \A i \in DOMAIN acked' : acked'[i] # log'[Len(log')].record.id
         /\ \A i, j \in DOMAIN log' : log'[i].record.id = log'[j].record.id => i = j
         /\ \A i \in DOMAIN log' : log'[i].record.id < nextId'
         /\ \A i \in DOMAIN log' : \/ i \in DOMAIN log /\ log'[i] = log[i]
                                   \/ log'[i].record.id = Request.id
         /\ CheckpointNamesRecord'
         /\ \A i \in DOMAIN acked' : \E j \in DOMAIN log' :
               log'[j].record.id = acked'[i] /\ log'[j].form = "whole"
<1>1. ~Malformed(log)
  BY DEF IntactInv, TornAtEnd, At
<1>2. CASE t = "none"
  <2>1. log' = log /\ newline' = newline
    BY <1>2, WrittenLog
  <2>2. QED
    BY <1>1, <2>1
    DEF IntactInv, TornAtEnd, LogIds, CheckpointNamesRecord, AckedInLog, Malformed
<1>3. CASE t # "none"
  <2> DEFINE n == Len(log)
             f == IF t = "cut" THEN "cut" ELSE "whole"
  <2>1. /\ newline' = (t = "full")
        /\ DOMAIN log' = 1 .. n + 1 /\ Len(log') = n + 1
        /\ \A i \in 1 .. n : log'[i] = log[i]
        /\ log'[n + 1] = [record |-> NewRecord, form |-> f]
    BY <1>3, WrittenLog
  <2>2. n \in Nat /\ DOMAIN log = 1 .. n
    BY LogShape
  <2>3. log'[n + 1].record.id = Request.id /\ log'[n + 1].form = f
    BY <2>1 DEF NewRecord
  <2>4. \A i \in 1 .. n : log[i].record.id # Request.id
    BY HeadRequest, <2>2 DEF IntactInv, LogIds, At
  <2>5. \A i \in DOMAIN log' : log'[i].form # "whole" => i = Len(log') /\ t = "cut"
    BY <1>1, <2>1, <2>2, <2>3 DEF Malformed
  <2>6. ~newline' => /\ log' # <<>> /\ t # "full"
                     /\ \A i \in DOMAIN acked' : acked'[i] # log'[Len(log')].record.id
    <3>1. log' # <<>>
      BY <2>1, <2>2
    <3>2. \A i \in DOMAIN acked : acked[i] # Request.id
      BY HeadRequest DEF IntactInv, AckedInLog, At
    <3>3. QED
      BY <2>1, <2>3, <3>1, <3>2
  <2>7. \A i, j \in DOMAIN log' : log'[i].record.id = log'[j].record.id => i = j
    BY <2>1, <2>2, <2>3, <2>4 DEF IntactInv, LogIds
  <2>8. \A i \in DOMAIN log' : log'[i].record.id < nextId'
    BY <2>1, <2>2, <2>3, HeadRequest DEF IntactInv, LogIds, At
  <2>9. \A i \in DOMAIN log' : \/ i \in DOMAIN log /\ log'[i] = log[i]
                               \/ log'[i].record.id = Request.id
    BY <2>1, <2>2, <2>3
  <2>10. CheckpointNamesRecord'
    <3>1. checkpoint # None => checkpoint.count \in 1 .. n
      BY <2>2 DEF IntactInv, CheckpointNamesRecord, Basic, TypeOK, Checkpoints
    <3>2. QED
      BY <2>1, <2>2, <3>1 DEF IntactInv, CheckpointNamesRecord
  <2>11. \A i \in DOMAIN acked' : \E j \in DOMAIN log' :
            log'[j].record.id = acked'[i] /\ log'[j].form = "whole"
    <3> SUFFICES ASSUME NEW i \in DOMAIN acked
                 PROVE  \E j \in DOMAIN log' :
                           log'[j].record.id = acked[i] /\ log'[j].form = "whole"
      OBVIOUS
    <3>1. PICK j \in DOMAIN log : log[j].record.id = acked[i] /\ log[j].form = "whole"
      BY DEF IntactInv, AckedInLog
    <3>2. j \in DOMAIN log' /\ log'[j] = log[j]
      BY <2>1, <2>2
    <3>3. QED
      BY <3>1, <3>2
  <2>12. QED
    BY <2>5, <2>6, <2>7, <2>8, <2>9, <2>10, <2>11
<1>4. QED
  BY <1>2, <1>3

\* A write that was cut off, or completed by a process that then fails: the append
\* ends, and its request is forgotten.
LEMMA BrokenWriteIntact ==
  ASSUME Basic, IntactInv, NEW p \in Procs, At(p, "write"), Kept(p),
         NEW t \in {"none", "cut", "bare", "full"}, newline \/ t = "none",
         log' = Written(NewRecord, t), newline' = NewlineAfter(t),
         UNCHANGED <<checkpoint, nextId, acked>>, holder' = None, phase' = "free"
  PROVE  IntactInv'
<1>1. TornAtEnd' /\ SeenIsLog' /\ CheckpointNamesRecord'
  BY WriteIntact DEF TornAtEnd, SeenIsLog
<1>2. ASSUME NEW q \in Procs, NEW i \in DOMAIN queue'[q], NEW k \in DOMAIN log'
      PROVE  queue'[q][i].id # log'[k].record.id
  <2>1. PICK j \in DOMAIN queue[q] :
           queue'[q][i] = queue[q][j] /\ (j = 1 => i = 1 /\ q # p)
    BY DEF Kept
  <2>2. CASE k \in DOMAIN log /\ log'[k] = log[k]
    BY <2>1, <2>2 DEF IntactInv, LogIds, At
  <2>3. CASE log'[k].record.id = Request.id
    <3>1. 1 \in DOMAIN queue[p] /\ Request.id = queue[p][1].id
      BY HeadRequest DEF At
    <3>2. queue[q][j].id = queue[p][1].id => q = p /\ j = 1
      BY <3>1 DEF Basic, QueueIds
    <3>3. QED
      BY <2>1, <2>3, <3>1, <3>2
  <2>4. QED
    BY <2>2, <2>3, WriteIntact
<1>3. LogIds'
  BY <1>2, WriteIntact DEF LogIds
<1>4. AckedInLog'
  <2>1. ASSUME NEW i \in DOMAIN acked', NEW q \in Procs, NEW j \in DOMAIN queue'[q]
        PROVE  queue'[q][j].id # acked'[i]
    <3>1. PICK k \in DOMAIN queue[q] : queue'[q][j] = queue[q][k]
      BY DEF Kept
    <3>2. QED
      BY <3>1 DEF IntactInv, AckedInLog
  <2>2. QED
    BY <2>1, WriteIntact DEF AckedInLog
<1>5. QED
  BY <1>1, <1>3, <1>4 DEF IntactInv

\* The whole line is written: the log is ahead of its checkpoint by the record of
\* the running head.
LEMMA WriteLineIntact ==
  ASSUME Basic, IntactInv, newline, NEW p \in Procs, WriteLine(p)
  PROVE  IntactInv'
<1>1. /\ At(p, "write") /\ phase' = "checkpoint"
      /\ log' = Written(NewRecord, "full") /\ newline' = NewlineAfter("full")
      /\ UNCHANGED <<checkpoint, holder, mem, queue, acked, nextId>>
  BY DEF WriteLine, Stay, NewlineAfter
<1>2. holder = p
  BY <1>1 DEF At
<1>3. /\ \A i \in DOMAIN log' : log'[i].form = "whole"
      /\ newline'
      /\ \A i, j \in DOMAIN log' : log'[i].record.id = log'[j].record.id => i = j
      /\ \A i \in DOMAIN log' : log'[i].record.id < nextId'
      /\ \A i \in DOMAIN log' : \/ i \in DOMAIN log /\ log'[i] = log[i]
                                \/ log'[i].record.id = Request.id
      /\ CheckpointNamesRecord'
      /\ \A i \in DOMAIN acked' : \E j \in DOMAIN log' :
            log'[j].record.id = acked'[i] /\ log'[j].form = "whole"
  BY <1>1, WriteIntact
<1>4. TornAtEnd'
  BY <1>3 DEF TornAtEnd, Malformed
<1>5. LogIds'
  <2>1. ASSUME NEW q \in Procs, NEW i \in DOMAIN queue[q], NEW k \in DOMAIN log',
               queue[q][i].id = log'[k].record.id
        PROVE  q = p /\ i = 1
    <3>1. CASE k \in DOMAIN log /\ log'[k] = log[k]
      BY <1>1, <2>1, <3>1 DEF IntactInv, LogIds, At
    <3>2. CASE log'[k].record.id = Request.id
      <4>1. 1 \in DOMAIN queue[p] /\ Request.id = queue[p][1].id
        BY <1>2, HeadRequest
      <4>2. QED
        BY <2>1, <3>2, <4>1 DEF Basic, QueueIds
    <3>3. QED
      BY <1>3, <3>1, <3>2
  <2>2. QED
    BY <1>1, <1>2, <1>3, <2>1 DEF LogIds
<1>6. SeenIsLog'
  <2>1. Len(mem.seen) = Len(log)
    BY <1>1 DEF IntactInv, SeenIsLog, At
  <2>2. /\ Len(log') = Len(log) + 1
        /\ log'[Len(log) + 1] = [record |-> NewRecord, form |-> "whole"]
    BY <1>1, WrittenLog
  <2>3. log'[Len(log')].record.id = Request.id
    BY <2>2 DEF NewRecord
  <2>4. Request = Head(queue'[holder'])
    BY <1>1 DEF Request
  <2>5. QED
    BY <1>1, <2>1, <2>2, <2>3, <2>4 DEF SeenIsLog
<1>7. AckedInLog'
  BY <1>1, <1>3 DEF IntactInv, AckedInLog
<1>8. QED
  BY <1>3, <1>4, <1>5, <1>6, <1>7 DEF IntactInv

\* The checkpoint then names that record.
LEMMA WriteContinuityIntact ==
  ASSUME Basic, IntactInv, NEW p \in Procs, WriteContinuity(p)
  PROVE  IntactInv'
<1>1. /\ At(p, "checkpoint") /\ phase' = "settle"
      /\ checkpoint' = [count |-> Len(mem.seen) + 1, head |-> Request.id, kid |-> mem.kid]
      /\ UNCHANGED <<log, newline, holder, mem, queue, acked, nextId>>
  BY DEF WriteContinuity, Stay
<1>2. ~Malformed(log)
  BY <1>1 DEF IntactInv, TornAtEnd, At
<1>3. Len(log) = Len(mem.seen) + 1 /\ log[Len(log)].record.id = Request.id
  BY <1>1 DEF IntactInv, SeenIsLog, At, Request
<1>4. Len(log) \in DOMAIN log
  <2>1. Len(mem.seen) \in Nat
    BY LenProperties DEF Basic, TypeOK
  <2>2. QED
    BY <1>3, <2>1, LogShape
<1>5. CheckpointNamesRecord'
  <2>1. log[Len(log)].form = "whole"
    BY <1>2, <1>4 DEF Malformed
  <2>2. checkpoint'.count = Len(log) /\ checkpoint'.head = Request.id
    BY <1>1, <1>3
  <2>3. Len(log) <= Len(log)
    BY LogShape
  <2>4. QED
    BY <1>1, <1>3, <2>1, <2>2, <2>3 DEF CheckpointNamesRecord
<1>6. QED
  BY <1>1, <1>2, <1>5
  DEF IntactInv, TornAtEnd, LogIds, SeenIsLog, AckedInLog, Malformed, At

\* An append resolves only when its record is in the log and covered by the
\* checkpoint.
LEMMA SettleIntact ==
  ASSUME Basic, IntactInv, damages = 0, NEW p \in Procs, Settle(p)
  PROVE  IntactInv'
<1>1. /\ At(p, "settle") /\ holder' = None /\ phase' = "free"
      /\ UNCHANGED <<log, newline, checkpoint, nextId>>
      /\ acked' = Append(acked, Request.id)
  BY DEF Settle, Release, Stay, disk
<1>2. Kept(p) /\ holder = p
  BY SettleBasic, ShiftKeeps DEF Settle, At
<1>3. LogIds'
  BY <1>1, <1>2, KeptIntact
<1>4. TornAtEnd' /\ CheckpointNamesRecord' /\ SeenIsLog'
  BY <1>1 DEF IntactInv, TornAtEnd, CheckpointNamesRecord, SeenIsLog, Malformed, At
<1>5. /\ 1 \in DOMAIN queue[p] /\ Request.id = queue[p][1].id /\ Request.id \in Ids
  BY <1>2, HeadRequest
<1>6. /\ DOMAIN acked' = 1 .. Len(acked) + 1 /\ DOMAIN acked = 1 .. Len(acked)
      /\ Len(acked) \in Nat
      /\ \A i \in 1 .. Len(acked) : acked'[i] = acked[i]
      /\ acked'[Len(acked) + 1] = Request.id
  <2>1. acked \in Seq(Ids)
    BY DEF Basic, TypeOK
  <2>2. QED
    BY <1>1, <1>5, <2>1, AppendProperties, LenProperties
<1>7. ASSUME NEW i \in DOMAIN acked'
      PROVE  /\ \E j \in DOMAIN log' :
                   log'[j].record.id = acked'[i] /\ log'[j].form = "whole"
             /\ \A q \in Procs : \A j \in DOMAIN queue'[q] : queue'[q][j].id # acked'[i]
  <2>1. CASE i \in DOMAIN acked
    <3>1. acked'[i] = acked[i]
      BY <1>6, <2>1
    <3>2. ASSUME NEW q \in Procs, NEW j \in DOMAIN queue'[q]
          PROVE  queue'[q][j].id # acked[i]
      <4>1. PICK k \in DOMAIN queue[q] : queue'[q][j] = queue[q][k]
        BY <1>2 DEF Kept
      <4>2. QED
        BY <2>1, <4>1 DEF IntactInv, AckedInLog
    <3>3. QED
      BY <1>1, <2>1, <3>1, <3>2 DEF IntactInv, AckedInLog
  <2>2. CASE i = Len(acked) + 1
    <3>1. acked'[i] = Request.id
      BY <1>6, <2>2
    <3>2. ~Malformed(log) /\ log[Len(log)].record.id = Request.id
            /\ Len(log) = Len(mem.seen) + 1
      BY <1>1 DEF IntactInv, TornAtEnd, SeenIsLog, At, Request
    <3>3. Len(log) \in DOMAIN log
      <4>1. Len(mem.seen) \in Nat
        BY LenProperties DEF Basic, TypeOK
      <4>2. QED
        BY <3>2, <4>1, LogShape
    <3>4. log[Len(log)].form = "whole"
      BY <3>2, <3>3 DEF Malformed
    <3>5. ASSUME NEW q \in Procs, NEW j \in DOMAIN queue'[q]
          PROVE  queue'[q][j].id # Request.id
      <4>1. PICK k \in DOMAIN queue[q] :
               queue'[q][j] = queue[q][k] /\ (k = 1 => j = 1 /\ q # p)
        BY <1>2 DEF Kept
      <4>2. QED
        BY <1>5, <4>1 DEF Basic, QueueIds
    <3>6. QED
      BY <1>1, <3>1, <3>2, <3>3, <3>4, <3>5
  <2>3. QED
    BY <1>6, <2>1, <2>2
<1>8. AckedInLog'
  BY <1>7 DEF AckedInLog
<1>9. QED
  BY <1>3, <1>4, <1>8 DEF IntactInv

\* A call joins the queue behind the running head.
LEMMA CallHead ==
  ASSUME Basic, NEW p \in Procs, NEW b \in Actors, Call(p, b)
  PROVE  phase # "free" => Head(queue'[holder]) = Head(queue[holder])
<1> SUFFICES ASSUME phase # "free" PROVE Head(queue'[holder]) = Head(queue[holder])
  OBVIOUS
<1>1. holder \in Procs /\ queue[holder] # <<>> /\ queue[holder] \in Seq(Requests)
  BY DEF Basic, LockShape, TypeOK
<1>2. queue' = [queue EXCEPT ![p] = Append(queue[p], [id |-> nextId, bound |-> b])]
        /\ queue \in [Procs -> Seq(Requests)]
  BY DEF Call, Basic, TypeOK
<1>3. CASE holder = p
  <2> DEFINE r == [id |-> nextId, bound |-> b]
  <2>1. queue'[holder] = Append(queue[p], r)
    BY <1>2, <1>3
  <2>2. r \in Requests
    BY OpenLogWriterAssumption
    DEF OpenLogWriterAssumption, Call, Basic, TypeOK, Requests, Ids
  <2>3. Head(Append(queue[p], r)) = Head(queue[p])
    <3> HIDE DEF r
    <3>1. QED
      BY <1>1, <1>3, <2>2
  <2>4. QED
    BY <1>3, <2>1, <2>3
<1>4. CASE holder # p
  BY <1>1, <1>2, <1>4
<1>5. QED
  BY <1>3, <1>4

\* A new call has an identity that neither the log nor the acknowledged have.
LEMMA CallIntact ==
  ASSUME Basic, IntactInv, NEW p \in Procs, NEW b \in Actors, Call(p, b)
  PROVE  IntactInv'
<1>1. UNCHANGED <<log, newline, checkpoint, holder, phase, mem, acked>>
        /\ nextId' = nextId + 1 /\ nextId \in Nat
  BY OpenLogWriterAssumption DEF OpenLogWriterAssumption, Call, disk, Basic, TypeOK
<1>2. \A k \in DOMAIN log : log[k].record.id < nextId /\ log[k].record.id \in Nat
  <2>1. \A k \in DOMAIN log : log[k] \in Lines
    BY LogShape
  <2>2. QED
    BY <2>1 DEF IntactInv, LogIds, Lines, Records, Ids
<1>3. TornAtEnd' /\ CheckpointNamesRecord'
  BY <1>1 DEF IntactInv, TornAtEnd, CheckpointNamesRecord, Malformed
<1>4. LogIds'
  <2>1. ASSUME NEW q \in Procs, NEW i \in DOMAIN queue'[q], NEW k \in DOMAIN log,
               queue'[q][i].id = log[k].record.id
        PROVE  q = holder /\ i = 1 /\ phase \in {"checkpoint", "settle"}
    <3>1. i \in DOMAIN queue[q] /\ queue'[q][i] = queue[q][i]
      BY <1>1, <1>2, <2>1, CallBasic
    <3>2. QED
      BY <2>1, <3>1 DEF IntactInv, LogIds
  <2>2. QED
    BY <1>1, <1>2, <2>1 DEF IntactInv, LogIds
<1>5. SeenIsLog'
  <2>1. phase # "free" => Head(queue'[holder]) = Head(queue[holder])
    BY CallHead
  <2>2. QED
    BY <1>1, <2>1 DEF IntactInv, SeenIsLog
<1>6. AckedInLog'
  <2>1. \A i \in DOMAIN acked : acked[i] # nextId
    BY <1>2 DEF IntactInv, AckedInLog
  <2>2. QED
    BY <1>1, <2>1, CallBasic DEF IntactInv, AckedInLog
<1>7. QED
  BY <1>3, <1>4, <1>5, <1>6 DEF IntactInv

\* The files are in order, or a record has run into the one before it.
Ordered == IF RunTogether THEN SpoiltInv ELSE IntactInv

\* Lines that do not change do not run together.
LEMMA LinesKept == ASSUME log' = log PROVE RunTogether' = RunTogether
  BY DEF RunTogether

\* A write behind a newline starts a line of its own.
LEMMA WriteApart ==
  ASSUME Basic, ~RunTogether, NEW p \in Procs, At(p, "write"),
         NEW t \in {"none", "cut", "bare", "full"}, newline \/ t = "none",
         log' = Written(NewRecord, t)
  PROVE  ~RunTogether'
<1>1. CASE t = "none"
  BY <1>1, WrittenLog, LinesKept
<1>2. CASE t # "none"
  BY <1>2, WrittenLog, LogShape DEF RunTogether
<1>3. QED
  BY <1>1, <1>2

\* A write behind a line without its newline spoils that line and nothing else.
LEMMA SharedLine ==
  ASSUME Basic, IntactInv, NEW p \in Procs, At(p, "write"),
         NEW t \in {"none", "cut", "bare", "full"}, ~(newline \/ t = "none"),
         log' = Written(NewRecord, t)
  PROVE  /\ DOMAIN log' = 1 .. Len(log) /\ Len(log') = Len(log) /\ Len(log) \in Nat \ {0}
         /\ \A i \in 1 .. Len(log) : log'[i].record = log[i].record
         /\ \A i \in 1 .. Len(log) : i # Len(log) => log'[i] = log[i]
         /\ log'[Len(log)].form = "glued"
<1> DEFINE n == Len(log)
<1>1. n \in Nat /\ DOMAIN log = 1 .. n /\ log \in Seq(Lines) /\ log # <<>>
  BY LogShape DEF IntactInv, TornAtEnd
<1>2. n # 0
  BY <1>1
<1>3. log' = [log EXCEPT ![n].form = "glued"]
  BY DEF Written
<1>4. log[n] \in Lines
  BY <1>1, <1>2
<1>5. /\ DOMAIN log' = 1 .. n /\ \A i \in 1 .. n : i # n => log'[i] = log[i]
      /\ log'[n] = [log[n] EXCEPT !.form = "glued"]
  BY <1>1, <1>2, <1>3
<1>6. log'[n].form = "glued" /\ log'[n].record = log[n].record
  BY <1>4, <1>5 DEF Lines
<1>7. log' \in Seq(Lines)
  BY WriteType DEF Basic
<1>8. Len(log') = n
  BY <1>1, <1>5, <1>7, LenProperties
<1>9. QED
  BY <1>1, <1>2, <1>5, <1>6, <1>8

\* What was acknowledged before is on the lines before it.
LEMMA WriteSpoils ==
  ASSUME Basic, IntactInv, NEW p \in Procs, At(p, "write"),
         NEW t \in {"none", "cut", "bare", "full"}, ~(newline \/ t = "none"),
         log' = Written(NewRecord, t), acked' = acked,
         \/ phase' = "checkpoint" /\ UNCHANGED <<holder, queue>>
         \/ phase' = "free"
  PROVE  RunTogether' /\ SpoiltInv'
<1> DEFINE n == Len(log)
<1>1. /\ DOMAIN log' = 1 .. n /\ Len(log') = n /\ n \in Nat \ {0}
      /\ \A i \in 1 .. n : log'[i].record = log[i].record
      /\ \A i \in 1 .. n : i # n => log'[i] = log[i]
      /\ log'[n].form = "glued"
  BY SharedLine
<1>2. ~Malformed(log) /\ DOMAIN log = 1 .. n
  BY LogShape DEF IntactInv, TornAtEnd, At
<1>3. RunTogether'
  <2>1. n \in DOMAIN log' /\ log'[n].form = "glued"
    <3> HIDE DEF n
    <3>1. QED
      BY <1>1
  <2>2. QED
    BY <2>1 DEF RunTogether
<1>4. \A i \in DOMAIN log' : log'[i].form = "whole" <=> i # Len(log')
  BY <1>1, <1>2 DEF Malformed
<1>5. phase' = "checkpoint" =>
        \A i \in DOMAIN log' : log'[i].record.id # Head(queue'[holder']).id
  <2>1. \A i \in DOMAIN log : log[i].record.id # Request.id
    BY HeadRequest DEF IntactInv, LogIds, At
  <2>2. QED
    BY <1>1, <1>2, <2>1 DEF Request
<1>6. ASSUME NEW i \in DOMAIN acked
      PROVE  \E j \in DOMAIN log' : log'[j].record.id = acked[i] /\ log'[j].form = "whole"
  <2>1. PICK j \in DOMAIN log : log[j].record.id = acked[i]
    BY DEF IntactInv, AckedInLog
  <2>2. newline = FALSE
    BY DEF Basic, TypeOK
  <2>3. j # n
    BY <2>1, <2>2 DEF IntactInv, TornAtEnd
  <2>4. j \in DOMAIN log' /\ log'[j].record = log[j].record /\ log'[j].form = "whole"
    <3> HIDE DEF n
    <3>1. QED
      BY <1>1, <1>2, <1>4, <2>3
  <2>5. QED
    BY <2>1, <2>4
<1>7. QED
  BY <1>3, <1>4, <1>5, <1>6 DEF SpoiltInv

\* The whole line is written, behind a newline or not.
LEMMA WriteLineOrdered ==
  ASSUME Basic, IntactInv, ~RunTogether, NEW p \in Procs, WriteLine(p)
  PROVE  Ordered'
<1>1. /\ At(p, "write") /\ phase' = "checkpoint"
      /\ log' = Written(NewRecord, "full") /\ UNCHANGED <<holder, queue, acked>>
  BY DEF WriteLine
<1>2. CASE newline
  BY <1>1, <1>2, WriteLineIntact, WriteApart DEF Ordered
<1>3. CASE ~newline
  BY <1>1, <1>3, WriteSpoils DEF Ordered
<1>4. QED
  BY <1>2, <1>3

\* An append that is refused, fails or times out, and a process that dies, leave
\* the files to the next one in order.
LEMMA EndIntact ==
  ASSUME Basic, IntactInv, ~RunTogether, NEW p \in Procs,
         Refusing(p) \/ IoFault(p) \/ Crash(p) \/ TimeOut(p)
  PROVE  Ordered'
<1>1. Kept(p)
  BY RefuseBasic, IoFaultBasic, CrashBasic, TimeOutBasic, ShiftKeeps
<1>2. UNCHANGED <<checkpoint, nextId, acked>>
  BY DEF Refusing, RefuseMalformed, RefuseKey, RefuseTrust, RefuseCheck, Refuse,
     IoFault, Crash, TimeOut, Stay, disk
<1>3. CASE (IoFault(p) \/ Crash(p)) /\ At(p, "write")
  <2>1. PICK t \in Tails : log' = Written(NewRecord, t) /\ newline' = NewlineAfter(t)
    BY <1>3 DEF IoFault, Crash, At
  <2>2. t \in {"none", "cut", "bare", "full"}
    BY OpenLogWriterAssumption DEF OpenLogWriterAssumption
  <2>3. holder' = None /\ phase' = "free"
    BY <1>3 DEF IoFault, Crash, Release, At
  <2>4. CASE newline \/ t = "none"
    <3>1. IntactInv'
      BY <1>1, <1>2, <1>3, <2>1, <2>2, <2>3, <2>4, BrokenWriteIntact
    <3>2. ~RunTogether'
      BY <1>3, <2>1, <2>2, <2>4, WriteApart
    <3>3. QED
      BY <3>1, <3>2 DEF Ordered
  <2>5. CASE ~(newline \/ t = "none")
    BY <1>1, <1>2, <1>3, <2>1, <2>2, <2>3, <2>5, WriteSpoils DEF Ordered
  <2>6. QED
    BY <2>4, <2>5
<1>4. CASE ~((IoFault(p) \/ Crash(p)) /\ At(p, "write"))
  <2> SUFFICES IntactInv' /\ log' = log
    BY LinesKept DEF Ordered
  <2>1. UNCHANGED <<log, newline>>
    BY <1>4 DEF Refusing, RefuseMalformed, RefuseKey, RefuseTrust, RefuseCheck, Refuse,
       IoFault, Crash, TimeOut, disk, At
  <2>2. CASE holder = p /\ ~TimeOut(p)
    <3>1. holder' = None /\ phase' = "free"
      BY <2>2 DEF Refusing, RefuseMalformed, RefuseKey, RefuseTrust, RefuseCheck, Refuse,
         IoFault, Crash, Release
    <3>2. QED
      BY <1>1, <1>2, <2>1, <2>2, <3>1, LeaveIntact
  <2>3. CASE holder # p \/ TimeOut(p)
    <3>1. (Crash(p) \/ TimeOut(p)) /\ holder # p
      BY <2>3 DEF Refusing, RefuseMalformed, RefuseKey, RefuseTrust, RefuseCheck,
         IoFault, TimeOut, At
    <3>2. UNCHANGED <<holder, phase, mem>>
      BY <3>1 DEF Crash, TimeOut
    <3>3. \A q \in Procs : q # p => queue'[q] = queue[q]
      BY <3>1 DEF Crash, TimeOut, Basic, TypeOK
    <3>4. QED
      BY <1>1, <1>2, <2>1, <3>1, <3>2, <3>3, LeaveIntact
  <2>4. QED
    BY <2>2, <2>3
<1>5. QED
  BY <1>3, <1>4

\* Taking the free lock disturbs nothing: no request is in the log then.
LEMMA EnterIntact ==
  ASSUME Basic, IntactInv, NEW p \in Procs, Enter(p)
  PROVE  IntactInv'
<1>1. /\ UNCHANGED <<log, newline, checkpoint, queue, acked, nextId>>
      /\ phase = "free" /\ phase' = "read"
  BY DEF Enter, Stay, disk, Basic, LockShape
<1>2. QED
  BY <1>1
  DEF IntactInv, TornAtEnd, LogIds, SeenIsLog, CheckpointNamesRecord, AckedInLog, Malformed

\* While nobody else touches the files every step keeps them in order.
LEMMA IntactStep ==
  ASSUME Basic, IntactInv, ~RunTogether, damages = 0, damages' = 0, [Next]_vars
  PROVE  Ordered'
<1>1. ASSUME IntactInv', log' = log PROVE Ordered'
  BY <1>1, LinesKept DEF Ordered
<1>2. ASSUME NEW p \in Procs, Step(p) PROVE Ordered'
  <2>1. CASE WriteLine(p)
    BY <2>1, WriteLineOrdered
  <2>2. CASE Enter(p) \/ ReadLog(p) \/ LoadKey(p) \/ CreateKey(p) \/ FillKey(p)
               \/ LoadTrust(p) \/ PinKey(p) \/ Check(p) \/ WriteContinuity(p) \/ Settle(p)
    <3>1. log' = log
      BY <2>2 DEF Enter, ReadLog, LoadKey, CreateKey, FillKey, LoadTrust, PinKey, Check,
         WriteContinuity, Settle, disk
    <3>2. IntactInv'
      BY <2>2, EnterIntact, ReadingIntact, WriteContinuityIntact, SettleIntact
    <3>3. QED
      BY <1>1, <3>1, <3>2
  <2>3. CASE Refusing(p) \/ TimeOut(p)
    BY <2>3, EndIntact
  <2>4. QED
    BY <1>2, <2>1, <2>2, <2>3 DEF Step, Refusing
<1>3. ASSUME NEW p \in Procs, NEW b \in Actors, Call(p, b) PROVE Ordered'
  BY <1>1, <1>3, CallIntact DEF Call, disk
<1>4. ASSUME NEW p \in Procs, IoFault(p) \/ Crash(p) PROVE Ordered'
  BY <1>4, EndIntact
<1>5. ~Damage
  BY DEF Damage
<1>6. CASE UNCHANGED vars
  BY <1>1, <1>6 DEF vars, disk, IntactInv, TornAtEnd, LogIds, SeenIsLog,
     CheckpointNamesRecord, AckedInLog, Malformed
<1>7. QED
  BY <1>2, <1>3, <1>4, <1>5, <1>6 DEF Next

\* Once two records share a line nothing more is written, and the append that wrote there
\* ends.
LEMMA SpoiltKept ==
  ASSUME SpoiltInv, RunTogether, log' = log, acked' = acked,
         \/ phase' \in {"free", "read"}
         \/ /\ phase \in {"checkpoint", "settle"} /\ phase' \in {"checkpoint", "settle"}
            /\ Head(queue'[holder']) = Head(queue[holder])
  PROVE  SpoiltInv' /\ RunTogether'
  BY DEF SpoiltInv, RunTogether

\* In particular the lock is taken, held and left as before.
LEMMA SpoiltStep ==
  ASSUME Basic, SpoiltInv, RunTogether, damages = 0, damages' = 0, [Next]_vars
  PROVE  SpoiltInv' /\ RunTogether'
<1>1. Malformed(log)
  BY DEF RunTogether, Malformed
<1>2. ASSUME NEW p \in Procs, Settle(p) PROVE SpoiltInv' /\ RunTogether'
  <2>1. /\ phase = "settle" /\ phase' = "free" /\ log' = log /\ At(p, "settle")
        /\ acked' = Append(acked, Request.id)
    BY <1>2 DEF Settle, Release, Stay, disk, At
  <2>2. /\ DOMAIN acked' = 1 .. Len(acked) + 1 /\ Len(acked') = Len(acked) + 1
        /\ DOMAIN acked = 1 .. Len(acked) /\ Len(acked) \in Nat
        /\ \A i \in 1 .. Len(acked) : acked'[i] = acked[i]
    <3>1. acked \in Seq(Ids) /\ Request.id \in Ids
      BY <2>1, HeadRequest DEF Basic, TypeOK, At
    <3>2. QED
      BY <2>1, <3>1, AppendProperties, LenProperties
  <2>3. \A i \in DOMAIN acked : \E j \in DOMAIN log :
           log[j].record.id = acked[i] /\ log[j].form = "whole"
    BY <2>1 DEF SpoiltInv
  <2>4. \A i \in DOMAIN acked' : \/ i \in DOMAIN acked /\ acked'[i] = acked[i]
                                \/ i = Len(acked')
    BY <2>2
  <2>5. ASSUME NEW i \in DOMAIN acked'
        PROVE  \/ \E j \in DOMAIN log' : log'[j].record.id = acked'[i] /\ log'[j].form = "whole"
               \/ i = Len(acked')
    <3>1. CASE i = Len(acked')
      BY <3>1
    <3>2. CASE i \in DOMAIN acked /\ acked'[i] = acked[i]
      BY <2>1, <2>3, <3>2
    <3>3. QED
      BY <2>4, <2>5, <3>1, <3>2
  <2>6. RunTogether' /\ \A i \in DOMAIN log' : log'[i].form = "whole" <=> i # Len(log')
    BY <2>1 DEF SpoiltInv, RunTogether
  <2>7. QED
    BY <2>1, <2>5, <2>6 DEF SpoiltInv
<1>3. ASSUME NEW p \in Procs, Step(p), ~Settle(p) PROVE SpoiltInv' /\ RunTogether'
  <2>1. phase \in {"free", "read", "checkpoint", "settle"}
    BY DEF SpoiltInv
  <2>2. Enter(p) \/ TimeOut(p) \/ RefuseMalformed(p) \/ WriteContinuity(p)
    BY <1>1, <1>3, <2>1 DEF Step, ReadLog, LoadKey, RefuseKey, CreateKey, FillKey, LoadTrust,
       PinKey, RefuseTrust, Check, RefuseCheck, WriteLine, At
  <2>3. log' = log /\ acked' = acked
    BY <2>2 DEF Enter, TimeOut, RefuseMalformed, WriteContinuity, Refuse, disk
  <2>4. CASE Enter(p) \/ RefuseMalformed(p)
    BY <2>3, <2>4, SpoiltKept DEF Enter, RefuseMalformed, Refuse, Release
  <2>5. CASE WriteContinuity(p)
    BY <2>3, <2>5, SpoiltKept DEF WriteContinuity, At
  <2>6. CASE TimeOut(p)
    <3>1. UNCHANGED <<holder, phase>> /\ (phase # "free" => queue'[holder] = queue[holder])
      BY <2>6 DEF TimeOut, Basic, TypeOK, LockShape
    <3>2. QED
      BY <2>1, <2>3, <3>1, SpoiltKept
  <2>7. QED
    BY <2>2, <2>4, <2>5, <2>6
<1>4. ASSUME NEW p \in Procs, NEW b \in Actors, Call(p, b)
      PROVE  SpoiltInv' /\ RunTogether'
  <2>1. UNCHANGED <<log, acked, holder, phase>> /\ phase \in {"free", "read", "checkpoint", "settle"}
    BY <1>4 DEF Call, disk, SpoiltInv
  <2>2. phase # "free" => Head(queue'[holder]) = Head(queue[holder])
    BY <1>4, CallHead
  <2>3. QED
    BY <2>1, <2>2, SpoiltKept
<1>5. ASSUME NEW p \in Procs, IoFault(p) \/ Crash(p) PROVE SpoiltInv' /\ RunTogether'
  <2>1. phase \in {"free", "read", "checkpoint", "settle"}
    BY DEF SpoiltInv
  <2>2. log' = log /\ acked' = acked
    BY <1>5, <2>1 DEF IoFault, Crash, disk
  <2>3. CASE holder = p
    BY <1>5, <2>2, <2>3, SpoiltKept DEF IoFault, Crash, Release
  <2>4. CASE holder # p
    <3>1. UNCHANGED <<holder, phase>> /\ (phase # "free" => queue'[holder] = queue[holder])
      BY <1>5, <2>4 DEF IoFault, Crash, Basic, TypeOK, LockShape
    <3>2. QED
      BY <2>1, <2>2, <3>1, SpoiltKept
  <2>5. QED
    BY <2>3, <2>4
<1>6. ~Damage
  BY DEF Damage
<1>7. CASE UNCHANGED vars
  BY <1>7, SpoiltKept DEF vars, disk, SpoiltInv
<1>8. QED
  BY <1>2, <1>3, <1>4, <1>5, <1>6, <1>7 DEF Next

\* Interference is not taken back.
LEMMA DamagesGrow == ASSUME Basic, [Next]_vars, damages' = 0 PROVE damages = 0
<1>1. damages \in Nat
  BY OpenLogWriterAssumption DEF OpenLogWriterAssumption, Basic, TypeOK
<1>2. ASSUME NEW p \in Procs, Step(p) \/ IoFault(p) \/ Crash(p) \/ \E b \in Actors : Call(p, b)
      PROVE  damages' = damages
  BY <1>2 DEF Step, Enter, TimeOut, ReadLog, RefuseMalformed, LoadKey, RefuseKey, CreateKey,
     FillKey, LoadTrust, PinKey, RefuseTrust, Check, RefuseCheck, WriteLine,
     WriteContinuity, Settle, Refuse, Stay, IoFault, Crash, Call
<1>3. CASE Damage
  BY <1>1, <1>3 DEF Damage
<1>4. QED
  BY <1>2, <1>3 DEF Next, vars

\* What a record's acknowledgement rests on: every step keeps WriterInv.
LEMMA WriterStep ==
  ASSUME WriterInv, [Next]_vars PROVE WriterInv'
<1>1. Basic /\ Basic'
  BY BasicStep DEF Basic, WriterInv
<1>2. ASSUME damages' = 0 PROVE Ordered'
  <2>1. damages = 0
    BY <1>1, <1>2, DamagesGrow
  <2>2. CASE RunTogether
    BY <1>1, <1>2, <2>1, <2>2, SpoiltStep DEF WriterInv, Ordered
  <2>3. CASE ~RunTogether
    BY <1>1, <1>2, <2>1, <2>3, IntactStep DEF WriterInv
  <2>4. QED
    BY <2>2, <2>3
<1>3. QED
  BY <1>1, <1>2 DEF WriterInv, Basic, Ordered

\* A new log is in order.
LEMMA WriterInit == Init => WriterInv
<1> SUFFICES ASSUME Init PROVE WriterInv
  OBVIOUS
<1>1. TypeOK
  BY TypeInit
<1>2. LockShape
  BY DEF Init, LockShape
<1>3. \A p \in Procs : queue[p] = <<>>
  BY DEF Init
<1>4. QueueIds
  BY <1>3 DEF QueueIds
<1>5. IntactInv
  BY <1>3 DEF Init, IntactInv, TornAtEnd, LogIds, SeenIsLog, CheckpointNamesRecord,
     AckedInLog, Malformed
<1>6. ~RunTogether
  BY DEF Init, RunTogether
<1>7. QED
  BY <1>1, <1>2, <1>4, <1>5, <1>6 DEF WriterInv

\* OpenLogWriter.append, for any number of processes, keys, appends, refusals, failed
\* writes and crashes: while nobody else touches the files, what was acknowledged is in the
\* log, whole and once, and the checkpoint names a record at its place.  Only where a failed
\* write lost its newline alone can the next record run into that line; then everything
\* before it stays whole and at most the last acknowledged record is lost.
THEOREM WriterInvariant == Spec => []WriterInv
<1>1. Init => WriterInv
  BY WriterInit
<1>2. WriterInv /\ [Next]_vars => WriterInv'
  BY WriterStep
<1>3. QED
  BY <1>1, <1>2, PTL DEF Spec
-----------------------------------------------------------------------------
(* The refinement. *)

\* The durable entries are those of the log's lines, without a torn last one.
LEMMA EntriesShape ==
  ASSUME Basic
  PROVE  LET n == Len(log) - (IF Malformed(log) THEN 1 ELSE 0) IN
         /\ Entries = [i \in 1 .. n |-> log[i].record.id]
         /\ n \in Nat /\ Entries \in Seq(Ids)
         /\ Len(Entries) = n /\ DOMAIN Entries = 1 .. n
<1> DEFINE n == Len(log) - (IF Malformed(log) THEN 1 ELSE 0)
<1>1. n \in Nat /\ 1 .. n \subseteq DOMAIN log
  <2>1. Malformed(log) => Len(log) # 0
    BY LogShape DEF Malformed
  <2>2. QED
    BY <2>1, LogShape
<1>2. Entries = [i \in 1 .. n |-> log[i].record.id]
  BY DEF Entries
<1>3. \A i \in 1 .. n : log[i].record.id \in Ids
  <2>1. \A i \in DOMAIN log : log[i] \in Lines
    BY LogShape
  <2>2. QED
    BY <1>1, <2>1 DEF Lines, Records
<1>4. Entries \in [1 .. n -> Ids]
  BY <1>2, <1>3
<1>5. Entries \in Seq(Ids) /\ Len(Entries) = n
  <2> HIDE DEF n
  <2>1. Entries \in Seq(Ids)
    BY <1>1, <1>4, SeqDef
  <2>2. QED
    BY <1>1, <1>4, <2>1, LenProperties
<1>6. QED
  BY <1>1, <1>2, <1>4, <1>5

\* A write of the running head's record behind a newline adds its identity to the entries
\* when all of the record arrives, and nothing when it does not.
LEMMA EntriesWritten ==
  ASSUME Basic, IntactInv, NEW p \in Procs, At(p, "write"),
         NEW t \in {"none", "cut", "bare", "full"}, newline \/ t = "none",
         log' = Written(NewRecord, t)
  PROVE  IF t \in {"bare", "full"} THEN Entries' = Append(Entries, Request.id)
         ELSE Entries' = Entries
<1> DEFINE n == Len(log)
<1>1. ~Malformed(log)
  BY DEF IntactInv, TornAtEnd, At
<1>2. n \in Nat /\ DOMAIN log = 1 .. n
  BY LogShape
<1>3. Entries = [i \in 1 .. n |-> log[i].record.id] /\ Len(Entries) = n
        /\ Entries \in Seq(Ids)
  BY <1>1, <1>2, EntriesShape
<1>4. CASE t = "none"
  BY <1>4, WrittenLog DEF Entries, Malformed
<1>5. CASE t # "none"
  <2>1. /\ DOMAIN log' = 1 .. n + 1 /\ Len(log') = n + 1
        /\ \A i \in 1 .. n : log'[i] = log[i]
        /\ log'[n + 1] = [record |-> NewRecord, form |-> IF t = "cut" THEN "cut" ELSE "whole"]
    BY <1>5, WrittenLog
  <2>2. CASE t = "cut"
    <3>1. Malformed(log)'
      BY <1>2, <2>1, <2>2 DEF Malformed
    <3>2. Entries' = [i \in 1 .. n + 1 - 1 |-> log'[i].record.id]
      BY <2>1, <3>1 DEF Entries
    <3>3. n + 1 - 1 = n
      BY <1>2
    <3>4. Entries' = [i \in 1 .. n |-> log[i].record.id]
      BY <2>1, <3>2, <3>3
    <3>5. QED
      BY <1>3, <2>2, <3>4
  <2>3. CASE t \in {"bare", "full"}
    <3>1. ~Malformed(log)'
      BY <1>1, <1>2, <2>1, <2>3 DEF Malformed
    <3>2. Entries' = [i \in 1 .. n + 1 |-> log'[i].record.id]
      <4>1. n + 1 - 0 = n + 1
        BY <1>2
      <4>2. QED
        BY <2>1, <3>1, <4>1 DEF Entries
    <3>3. log'[n + 1].record.id = Request.id
      BY <2>1 DEF NewRecord
    <3>4. Entries' = [i \in 1 .. n + 1 |-> IF i = n + 1 THEN Request.id ELSE Entries[i]]
      BY <1>2, <1>3, <2>1, <3>2, <3>3
    <3>5. Append(Entries, Request.id)
            = [i \in 1 .. n + 1 |-> IF i = n + 1 THEN Request.id ELSE Entries[i]]
      <4> DEFINE e == Request.id
      <4>1. e \in Ids
        BY HeadRequest DEF At
      <4>2. /\ DOMAIN Append(Entries, e) = 1 .. n + 1
            /\ \A i \in 1 .. n : Append(Entries, e)[i] = Entries[i]
            /\ Append(Entries, e)[n + 1] = e
        <5> HIDE DEF e
        <5>1. QED
          BY <1>3, <4>1, AppendProperties, LenProperties
      <4>3. Append(Entries, e) = [i \in 1 .. n + 1 |-> Append(Entries, e)[i]]
        BY <4>2
      <4>4. \A i \in 1 .. n + 1 :
               Append(Entries, e)[i] = IF i = n + 1 THEN e ELSE Entries[i]
        BY <1>2, <4>2
      <4>5. QED
        BY <4>3, <4>4
    <3>6. QED
      BY <2>3, <3>4, <3>5
  <2>4. QED
    BY <1>5, <2>2, <2>3
<1>6. QED
  BY <1>4, <1>5

\* The entries an append is about to add to are without it.
LEMMA RecordStep ==
  ASSUME Basic, IntactInv, ~RunTogether, damages' = damages, damages = 0,
         NEW p \in Procs, At(p, "write"), newline, NEW t \in {"bare", "full"},
         log' = Written(NewRecord, t), acked' = acked
  PROVE  Audit!Record(Request.id)
<1>1. Entries' = Append(Entries, Request.id) /\ RunTogether' = RunTogether
  BY EntriesWritten, WriteApart DEF RunTogether
<1>2. Request.id \in Ids
  BY HeadRequest DEF At
<1>3. Request.id \notin Audit!Recorded
  <2>1. \A k \in DOMAIN log : log[k].record.id # Request.id
    BY HeadRequest DEF IntactInv, LogIds, At
  <2>2. ~Malformed(log)
    BY DEF IntactInv, TornAtEnd, At
  <2>3. DOMAIN Entries = DOMAIN log /\ \A i \in DOMAIN log : Entries[i] = log[i].record.id
    BY <2>2, EntriesShape, LogShape
  <2>4. QED
    BY <2>1, <2>3 DEF Audit!Recorded
<1>4. QED
  BY <1>1, <1>2, <1>3 DEF Audit!Record

\* A record that runs into one without a newline takes it out of the entries.
LEMMA MergeStep ==
  ASSUME Basic, IntactInv, ~RunTogether, damages' = damages, NEW p \in Procs, At(p, "write"),
         NEW t \in {"none", "cut", "bare", "full"}, ~(newline \/ t = "none"),
         log' = Written(NewRecord, t), acked' = acked
  PROVE  Audit!Merge
<1> DEFINE n == Len(log)
<1>1. /\ DOMAIN log' = 1 .. n /\ Len(log') = n /\ n \in Nat \ {0}
      /\ \A i \in 1 .. n : log'[i].record = log[i].record
      /\ log'[n].form = "glued"
  BY SharedLine
<1>2. ~Malformed(log)
  BY DEF IntactInv, TornAtEnd, At
<1>3. /\ Entries = [i \in 1 .. n |-> log[i].record.id] /\ Len(Entries) = n
      /\ Entries \in Seq(Ids) /\ DOMAIN Entries = 1 .. n
  <2>1. n - 0 = n
    BY <1>1
  <2>2. QED
    BY <1>2, <2>1, EntriesShape
<1>4. RunTogether' = TRUE /\ RunTogether = FALSE
  BY <1>1 DEF RunTogether
<1>5. Entries # <<>> /\ Entries[n] \notin Audit!Confirmed
  <2>1. Entries[n] = log[n].record.id /\ Entries # <<>>
    BY <1>1, <1>3
  <2>2. newline = FALSE
    BY DEF Basic, TypeOK
  <2>3. \A i \in DOMAIN acked : acked[i] # log[n].record.id
    BY <2>2 DEF IntactInv, TornAtEnd
  <2>4. QED
    BY <2>1, <2>3 DEF Audit!Confirmed
<1>6. Entries' = SubSeq(Entries, 1, n - 1)
  <2>1. Malformed(log)'
    BY <1>1 DEF Malformed
  <2>2. Entries' = [i \in 1 .. n - 1 |-> log'[i].record.id]
    BY <1>1, <2>1 DEF Entries
  <2>3. Entries' = [i \in 1 .. n - 1 |-> Entries[i]]
    BY <1>1, <1>3, <2>2
  <2> DEFINE e == Entries
             f == [i \in 1 .. n - 1 |-> e[i]]
             g == SubSeq(e, 1, n - 1)
  <2>4. e \in Seq(Ids) /\ 1 \in 1 .. Len(e) + 1 /\ n - 1 \in 1 - 1 .. Len(e)
    BY <1>1, <1>3
  <2>5. /\ g \in Seq(Ids) /\ Len(g) = n - 1 /\ DOMAIN g = 1 .. n - 1
        /\ \A i \in 1 .. n - 1 : g[i] = e[i]
    <3> HIDE DEF e
    <3>1. QED
      BY <1>1, <2>4, SubSeqProperties, LenProperties
  <2>6. g = [i \in 1 .. n - 1 |-> g[i]]
    <3> HIDE DEF e
    <3>1. QED
      BY <2>5
  <2>7. g = f
    <3> HIDE DEF e, g
    <3>1. QED
      BY <2>5, <2>6
  <2>8. QED
    BY <2>3, <2>7
<1>7. QED
  BY <1>3, <1>4, <1>5, <1>6 DEF Audit!Merge

\* append() resolves with the record that shares the last line, which is no entry.
LEMMA SpoiltSettleStep ==
  ASSUME Basic, SpoiltInv, RunTogether, damages = 0, NEW p \in Procs, Settle(p)
  PROVE  Audit!AcknowledgeMerged(Request.id) /\ Request.id \in Ids
<1> DEFINE n == Len(log)
<1>1. /\ At(p, "settle") /\ phase = "settle" /\ log' = log /\ damages' = damages
      /\ acked' = Append(acked, Request.id)
  BY DEF Settle, Stay, disk, At
<1>2. Entries' = Entries /\ RunTogether' = RunTogether /\ RunTogether = TRUE
  BY <1>1, LinesKept DEF Entries, Malformed, RunTogether
<1>3. n \in Nat /\ DOMAIN log = 1 .. n /\ Malformed(log)
  BY LogShape DEF RunTogether, Malformed
<1>4. Entries = [i \in 1 .. n - 1 |-> log[i].record.id] /\ DOMAIN Entries = 1 .. n - 1
  BY <1>3, EntriesShape
<1>5. Request.id \in Ids
  BY <1>1, HeadRequest DEF At
<1>6. Request.id \notin Audit!Recorded
  <2>1. \A i \in 1 .. n - 1 : i \in DOMAIN log
    BY <1>3
  <2>2. \A i \in DOMAIN log : log[i].record.id # Request.id
    BY <1>1 DEF SpoiltInv, Request
  <2>3. QED
    BY <1>4, <2>1, <2>2 DEF Audit!Recorded
<1>7. ASSUME NEW i \in DOMAIN acked PROVE acked[i] \in Audit!Recorded
  <2>1. PICK j \in DOMAIN log : log[j].record.id = acked[i] /\ log[j].form = "whole"
    BY <1>1 DEF SpoiltInv
  <2>2. j \in 1 .. n - 1
    BY <1>3, <2>1 DEF SpoiltInv
  <2>3. QED
    BY <1>4, <2>1, <2>2 DEF Audit!Recorded
<1>8. QED
  BY <1>1, <1>2, <1>5, <1>6, <1>7 DEF Audit!AcknowledgeMerged, Audit!Confirmed

\* append() resolves with a record among the entries, for the first time.
LEMMA AcknowledgeStep ==
  ASSUME Basic, IntactInv, ~RunTogether, damages = 0, NEW p \in Procs, Settle(p)
  PROVE  Audit!Acknowledge(Request.id) /\ Request.id \in Ids
<1>1. /\ At(p, "settle") /\ log' = log /\ damages' = damages
      /\ acked' = Append(acked, Request.id)
  BY DEF Settle, Stay, disk
<1>2. Entries' = Entries /\ RunTogether' = RunTogether
  BY <1>1 DEF Entries, Malformed, RunTogether
<1>3. 1 \in DOMAIN queue[p] /\ Request.id = queue[p][1].id /\ Request.id \in Ids
  BY <1>1, HeadRequest DEF At
<1>4. Request.id \in Audit!Recorded
  <2>1. ~Malformed(log) /\ log[Len(log)].record.id = Request.id
          /\ Len(log) = Len(mem.seen) + 1
    BY <1>1 DEF IntactInv, TornAtEnd, SeenIsLog, At, Request
  <2>2. Len(log) \in 1 .. Len(log)
    <3>1. Len(mem.seen) \in Nat
      BY LenProperties DEF Basic, TypeOK
    <3>2. QED
      BY <2>1, <3>1
  <2>3. Len(log) \in DOMAIN Entries /\ Entries[Len(log)] = Request.id
    BY <2>1, <2>2, EntriesShape, LogShape
  <2>4. QED
    BY <2>3 DEF Audit!Recorded
<1>5. Request.id \notin Audit!Confirmed
  BY <1>3 DEF IntactInv, AckedInLog, Audit!Confirmed
<1>6. QED
  BY <1>1, <1>2, <1>3, <1>4, <1>5 DEF Audit!Acknowledge

\* Every step of the writer is one of the append-only log, or none.
LEMMA AuditStep ==
  ASSUME WriterInv, [Next]_vars
  PROVE  [Audit!Next]_<<Entries, acked, RunTogether, damages = 0>>
<1>1. Basic
  BY DEF Basic, WriterInv
<1>2. CASE damages' # 0
  <2>1. (damages = 0)' = FALSE
    BY <1>2
  <2>2. QED
    BY <2>1 DEF Audit!Next, Audit!Interfere
<1>3. CASE damages' = 0
  <2>1. damages = 0 /\ IF RunTogether THEN SpoiltInv ELSE IntactInv
    BY <1>1, <1>3, DamagesGrow DEF WriterInv
  <2>2. ASSUME log' = log, acked' = acked
        PROVE  UNCHANGED <<Entries, acked, RunTogether, damages = 0>>
    BY <1>3, <2>1, <2>2, LinesKept DEF Entries, Malformed
  <2>3. ASSUME NEW p \in Procs, At(p, "write"), acked' = acked,
               NEW t \in {"none", "cut", "bare", "full"}, log' = Written(NewRecord, t)
        PROVE  [Audit!Next]_<<Entries, acked, RunTogether, damages = 0>>
    <3>1. ~RunTogether /\ IntactInv
      BY <2>1, <2>3 DEF SpoiltInv, At
    <3>2. CASE ~(newline \/ t = "none")
      BY <1>1, <1>3, <2>1, <2>3, <3>1, <3>2, MergeStep DEF Audit!Next
    <3>3. CASE (newline \/ t = "none") /\ t \in {"bare", "full"}
      <4>1. Audit!Record(Request.id) /\ Request.id \in Ids
        BY <1>1, <1>3, <2>1, <2>3, <3>1, <3>3, RecordStep, HeadRequest DEF At
      <4>2. QED
        BY <2>1, <4>1 DEF Audit!Next
    <3>4. CASE (newline \/ t = "none") /\ t \notin {"bare", "full"}
      <4>1. Entries' = Entries /\ ~RunTogether'
        BY <1>1, <2>1, <2>3, <3>1, <3>4, EntriesWritten, WriteApart
      <4>2. QED
        BY <1>3, <2>1, <2>3, <3>1, <4>1 DEF RunTogether
    <3>5. QED
      BY <3>2, <3>3, <3>4
  <2>4. ASSUME NEW p \in Procs, Settle(p)
        PROVE  [Audit!Next]_<<Entries, acked, RunTogether, damages = 0>>
    BY <1>1, <2>1, <2>4, AcknowledgeStep, SpoiltSettleStep DEF Audit!Next
  <2>5. ASSUME NEW p \in Procs, WriteLine(p)
        PROVE  [Audit!Next]_<<Entries, acked, RunTogether, damages = 0>>
    BY <2>3, <2>5 DEF WriteLine
  <2>6. ASSUME NEW p \in Procs, IoFault(p) \/ Crash(p)
        PROVE  [Audit!Next]_<<Entries, acked, RunTogether, damages = 0>>
    <3>1. acked' = acked
      BY <2>6 DEF IoFault, Crash
    <3>2. CASE At(p, "write")
      <4>1. PICK t \in Tails : log' = Written(NewRecord, t)
        BY <2>6, <3>2 DEF IoFault, Crash, At
      <4>2. t \in {"none", "cut", "bare", "full"}
        BY OpenLogWriterAssumption DEF OpenLogWriterAssumption
      <4>3. QED
        BY <2>3, <3>1, <3>2, <4>1, <4>2
    <3>3. CASE ~At(p, "write")
      <4>1. log' = log
        BY <2>6, <3>3 DEF IoFault, Crash, At, disk
      <4>2. QED
        BY <2>2, <3>1, <4>1
    <3>4. QED
      BY <3>2, <3>3
  <2>7. ASSUME NEW p \in Procs, Step(p), ~Settle(p), ~WriteLine(p)
        PROVE  log' = log /\ acked' = acked
    BY <2>7 DEF Step, Enter, TimeOut, ReadLog, RefuseMalformed, LoadKey, RefuseKey,
       CreateKey, FillKey, LoadTrust, PinKey, RefuseTrust, Check, RefuseCheck,
       WriteContinuity, Refuse, disk
  <2>8. ASSUME NEW p \in Procs, NEW b \in Actors, Call(p, b)
        PROVE  log' = log /\ acked' = acked
    BY <2>8 DEF Call, disk
  <2>9. ~Damage
    BY <1>3, <2>1 DEF Damage
  <2>10. CASE UNCHANGED vars
    BY <2>2, <2>10 DEF vars, disk
  <2>11. QED
    BY <2>2, <2>4, <2>5, <2>6, <2>7, <2>8, <2>9, <2>10 DEF Next
<1>4. QED
  BY <1>2, <1>3

\* The files, the lock and the queues of any number of crashing processes implement the
\* log of AuditLog: an entry is durable before it is acknowledged, and stays, but for the
\* one whose newline was lost and the one that runs into it (appendLocked).
THEOREM WriterImplementsAuditLog == Spec => AuditSpec
<1>1. Init => Audit!Init
  <2> SUFFICES ASSUME Init PROVE Audit!Init
    OBVIOUS
  <2>1. log = <<>> /\ acked = <<>> /\ damages = 0
    BY DEF Init
  <2>2. ~Malformed(log) /\ Len(log) = 0
    BY <2>1 DEF Malformed
  <2>3. Entries = <<>>
    BY <2>2 DEF Entries
  <2>4. RunTogether = FALSE
    BY <2>1 DEF RunTogether
  <2>5. QED
    BY <2>1, <2>3, <2>4 DEF Audit!Init
<1>2. WriterInv /\ [Next]_vars => [Audit!Next]_<<Entries, acked, RunTogether, damages = 0>>
  BY AuditStep
<1>3. Spec => []WriterInv
  BY WriterInvariant
<1>4. QED
  BY <1>1, <1>2, <1>3, PTL DEF Spec, AuditSpec, Audit!Spec
-----------------------------------------------------------------------------
(* What assertReady foresees. *)

\* Before execution, what the next append would accept is let through.
LEMMA AcceptedIsReady == ASSUME ~conf.adoption, WouldAccept PROVE ReadyOk
<1> DEFINE records == RecordsOf(log)
<1>1. CASE Pinned = None
  <2>1. MayPin(records, checkpoint) /\ ~Malformed(log)
    BY <1>1 DEF WouldAccept
  <2>2. QED
    BY <1>1, <2>1 DEF ReadyOk
<1>2. CASE Pinned # None
  <2>1. /\ ~Malformed(log) /\ ~EvidenceGone(records, checkpoint)
        /\ keyFile \in Pinned
        /\ ContinuityAllows(records, checkpoint, keyFile, Pinned)
        /\ ChainOk(records, Pinned)
    BY <1>2 DEF WouldAccept
  <2>2. CASE checkpoint = None
    <3>1. records = <<>>
      BY <2>1, <2>2 DEF ContinuityAllows
    <3>2. ~Local
      BY <1>2, <2>1, <2>2, <3>1 DEF EvidenceGone, Pinned
    <3>3. QED
      BY <1>2, <2>1, <2>2, <3>1, <3>2 DEF ReadyOk
  <2>3. CASE checkpoint # None
    <3>1. ContinuityOk(records, checkpoint, Pinned)
      BY <2>1, <2>3 DEF ContinuityAllows
    <3>2. QED
      BY <1>2, <2>1, <2>3, <3>1 DEF ReadyOk
  <2>4. QED
    BY <2>2, <2>3
<1>3. QED
  BY <1>1, <1>2

\* And what is let through is accepted, if the signing key fits the log.
LEMMA ReadyIsAccepted == ASSUME ~conf.adoption, ReadyOk, KeyFits PROVE WouldAccept
<1> DEFINE records == RecordsOf(log)
<1>1. CASE Pinned = None
  <2>1. ~Malformed(log) /\ MayPin(records, checkpoint)
    BY <1>1 DEF ReadyOk
  <2>2. checkpoint = None /\ records = <<>>
    BY <2>1 DEF MayPin
  <2>3. ~EvidenceGone(records, checkpoint)
    BY <1>1 DEF EvidenceGone, Pinned
  <2>4. ContinuityAllows(records, checkpoint, keyFile, {keyFile})
    BY <2>2 DEF ContinuityAllows
  <2>5. ChainOk(records, {keyFile})
    BY <2>2 DEF ChainOk
  <2>6. keyFile # "torn"
    BY DEF KeyFits
  <2>7. QED
    <3> HIDE DEF records
    <3>1. QED
      BY <1>1, <2>1, <2>3, <2>4, <2>5, <2>6 DEF WouldAccept, records
<1>2. CASE Pinned # None
  <2>1. keyFile # "torn" /\ keyFile \in Pinned
          /\ (checkpoint # None => keyFile = checkpoint.kid)
    BY <1>2 DEF KeyFits
  <2>2. ~Malformed(log) /\ ChainOk(records, Pinned)
    BY <1>2 DEF ReadyOk
  <2>3. CASE checkpoint = None
    <3>1. records = <<>> /\ ~Local
      BY <1>2, <2>3 DEF ReadyOk
    <3>2. ~EvidenceGone(records, checkpoint)
      BY <3>1 DEF EvidenceGone
    <3>3. ContinuityAllows(records, checkpoint, keyFile, Pinned)
      BY <2>3, <3>1 DEF ContinuityAllows
    <3>4. QED
      BY <1>2, <2>1, <2>2, <3>2, <3>3 DEF WouldAccept
  <2>4. CASE checkpoint # None
    <3>1. ContinuityOk(records, checkpoint, Pinned)
      BY <1>2, <2>4 DEF ReadyOk
    <3>2. ~EvidenceGone(records, checkpoint)
      BY <2>4 DEF EvidenceGone
    <3>3. ContinuityAllows(records, checkpoint, keyFile, Pinned)
      BY <2>1, <2>4, <3>1 DEF ContinuityAllows
    <3>4. QED
      BY <1>2, <2>1, <2>2, <3>2, <3>3 DEF WouldAccept
  <2>5. QED
    BY <2>3, <2>4
<1>3. QED
  BY <1>1, <1>2

\* The two checks agree on any files, in whatever way they came about.
LEMMA ReadyAgrees == ReadyMatchesAppend
  BY AcceptedIsReady, ReadyIsAccepted DEF ReadyMatchesAppend

\* OpenLogWriter.assertReady against append: whatever happened to the files, a
\* command whose outcome could be logged is let through, and when one is let
\* through only the signing key can make its append refuse.
THEOREM WriterReadyMatches == Spec => []ReadyMatchesAppend
  BY ReadyAgrees, PTL
-----------------------------------------------------------------------------
(* The log stays usable. *)

\* What the writers agree on while nobody else touches the files: the holder reads
\* the log as it is, one key signs everything, it is among the pinned ones, and
\* the records are linked.
UsableInv ==
    /\ phase \in {"key", "fill", "trust", "check", "write"} => mem.seen = RecordsOf(log)
    /\ phase = "fill" => keyFile = "torn"
    /\ phase \in {"trust", "check", "write", "checkpoint"} => mem.kid = keyFile
    /\ phase \in {"check", "write", "checkpoint"} => Pinned # None /\ mem.kid \in Pinned
    /\ log # <<>> \/ checkpoint # None =>
          keyFile \in Kids /\ Pinned # None /\ keyFile \in Pinned
    /\ \A i \in DOMAIN log :
          /\ log[i].record.kid = keyFile
          /\ log[i].record.prev = IF i = 1 THEN 0 ELSE log[i - 1].record.id
    /\ checkpoint # None => checkpoint.kid = keyFile

\* The steps up to the write that leave the files alone.
LEMMA ReadingUsable ==
  ASSUME Basic, IntactInv, UsableInv, NEW p \in Procs,
         ReadLog(p) \/ LoadKey(p) \/ LoadTrust(p) \/ Check(p)
  PROVE  UsableInv'
<1>1. UNCHANGED <<conf, log, keyFile, trust, checkpoint>>
  BY DEF ReadLog, LoadKey, LoadTrust, Check, Stay, disk
<1>2. Pinned' = Pinned /\ RecordsOf(log)' = RecordsOf(log)
  BY <1>1 DEF Pinned, Local, RecordsOf
<1>3. CASE ReadLog(p)
  <2>1. phase' = "key" /\ mem'.seen = RecordsOf(log)
    BY <1>3 DEF ReadLog, Basic, TypeOK
  <2>2. QED
    BY <1>1, <1>2, <2>1 DEF UsableInv
<1>4. CASE LoadKey(p)
  <2>1. phase = "key" /\ phase' = "trust" /\ mem'.seen = mem.seen /\ mem'.kid = keyFile
    BY <1>4 DEF LoadKey, At, Basic, TypeOK
  <2>2. QED
    BY <1>1, <1>2, <2>1 DEF UsableInv
<1>5. CASE LoadTrust(p)
  <2>1. /\ phase = "trust" /\ phase' = "check"
        /\ mem'.seen = mem.seen /\ mem'.kid = mem.kid
        /\ Pinned # None /\ mem.kid \in Pinned
    BY <1>5 DEF LoadTrust, At, Basic, TypeOK
  <2>2. QED
    BY <1>1, <1>2, <2>1 DEF UsableInv
<1>6. CASE Check(p)
  <2>1. phase = "check" /\ phase' = "write" /\ mem' = mem
    BY <1>6 DEF Check, At
  <2>2. QED
    BY <1>1, <1>2, <2>1 DEF UsableInv
<1>7. QED
  BY <1>3, <1>4, <1>5, <1>6

\* A key, a trust file are made only for a log without records and checkpoint.
LEMMA MakingUsable ==
  ASSUME Basic, UsableInv, NEW p \in Procs,
         CreateKey(p) \/ FillKey(p) \/ PinKey(p)
  PROVE  UsableInv'
<1> USE OpenLogWriterAssumption DEF OpenLogWriterAssumption
<1>1. UNCHANGED <<conf, log, checkpoint>>
  BY DEF CreateKey, FillKey, PinKey, Stay
<1>2. RecordsOf(log)' = RecordsOf(log)
  BY <1>1 DEF RecordsOf
<1>3. log = <<>> /\ checkpoint = None
  <2>1. CASE CreateKey(p)
    BY <2>1 DEF CreateKey, UsableInv
  <2>2. CASE FillKey(p)
    BY <2>2 DEF FillKey, UsableInv, At
  <2>3. CASE PinKey(p)
    BY <2>3 DEF PinKey, UsableInv
  <2>4. QED
    BY <2>1, <2>2, <2>3
<1>4. CASE CreateKey(p)
  <2>1. /\ phase = "key" /\ phase' = "fill" /\ mem' = mem /\ keyFile' = "torn"
    BY <1>4 DEF CreateKey, At
  <2>2. QED
    BY <1>1, <1>2, <1>3, <2>1 DEF UsableInv
<1>5. CASE FillKey(p)
  <2>1. /\ phase = "fill" /\ phase' = "trust"
        /\ mem'.seen = mem.seen /\ mem'.kid = keyFile'
    BY <1>5 DEF FillKey, At, Basic, TypeOK
  <2>2. QED
    BY <1>1, <1>2, <1>3, <2>1 DEF UsableInv
<1>6. CASE PinKey(p)
  <2>1. /\ phase = "trust" /\ phase' = "check"
        /\ mem'.seen = mem.seen /\ mem'.kid = mem.kid /\ keyFile' = keyFile
        /\ trust' = {mem.kid} /\ Pinned = None /\ mem.kid \in Kids
    BY <1>6 DEF PinKey, At, Basic, TypeOK, LockShape
  <2>2. Pinned' = {mem.kid}
    BY <1>1, <2>1 DEF Pinned, Local
  <2>3. {mem.kid} # None
    BY <2>1
  <2>4. QED
    BY <1>1, <1>2, <1>3, <2>1, <2>2, <2>3 DEF UsableInv
<1>7. QED
  BY <1>4, <1>5, <1>6

\* The records stay linked and signed by one key, however much of a new one arrives.
LEMMA WriteUsable ==
  ASSUME Basic, UsableInv, NEW p \in Procs, At(p, "write"),
         NEW t \in {"none", "cut", "bare", "full"}, newline \/ t = "none",
         log' = Written(NewRecord, t)
  PROVE  /\ keyFile \in Kids /\ Pinned # None /\ keyFile \in Pinned
         /\ \A i \in DOMAIN log' :
               /\ log'[i].record.kid = keyFile
               /\ log'[i].record.prev = IF i = 1 THEN 0 ELSE log'[i - 1].record.id
<1> DEFINE n == Len(log)
<1>1. /\ mem.seen = RecordsOf(log) /\ mem.kid = keyFile /\ mem.kid \in Kids
      /\ Pinned # None /\ mem.kid \in Pinned
  BY DEF UsableInv, At, Basic, LockShape
<1>2. n \in Nat /\ DOMAIN log = 1 .. n
  BY LogShape
<1>3. HeadOf(mem.seen) = IF n = 0 THEN 0 ELSE log[n].record.id
  <2>1. mem.seen = [i \in 1 .. n |-> log[i].record]
    BY <1>1, <1>2 DEF RecordsOf
  <2>2. mem.seen \in Seq(Records) /\ Len(mem.seen) = n
    BY <1>1, <1>2, <2>1, RecordsType DEF Basic
  <2>3. CASE n = 0
    BY <2>2, <2>3 DEF HeadOf
  <2>4. CASE n # 0
    <3>1. mem.seen # <<>> /\ mem.seen[n] = log[n].record
      BY <1>2, <2>1, <2>2, <2>4
    <3>2. QED
      BY <2>2, <2>4, <3>1 DEF HeadOf
  <2>5. QED
    BY <2>3, <2>4
<1>4. \A i \in 1 .. n :
         /\ log[i].record.kid = keyFile
         /\ log[i].record.prev = IF i = 1 THEN 0 ELSE log[i - 1].record.id
  BY <1>2 DEF UsableInv
<1>5. CASE t = "none"
  <2>1. log' = log
    BY <1>5, WrittenLog
  <2>2. QED
    BY <1>1, <1>2, <1>4, <2>1
<1>6. CASE t # "none"
  <2>1. /\ DOMAIN log' = 1 .. n + 1
        /\ \A i \in 1 .. n : log'[i] = log[i]
        /\ log'[n + 1] = [record |-> NewRecord, form |-> IF t = "cut" THEN "cut" ELSE "whole"]
    BY <1>6, WrittenLog
  <2>2. NewRecord.kid = keyFile /\ NewRecord.prev = IF n = 0 THEN 0 ELSE log[n].record.id
    BY <1>1, <1>3 DEF NewRecord
  <2>3. ASSUME NEW i \in 1 .. n
        PROVE  /\ log'[i].record.kid = keyFile
               /\ log'[i].record.prev = IF i = 1 THEN 0 ELSE log'[i - 1].record.id
    <3>1. i = 1 \/ i - 1 \in 1 .. n
      BY <1>2
    <3>2. log'[i] = log[i] /\ (i # 1 => log'[i - 1] = log[i - 1])
      BY <2>1, <3>1
    <3>3. QED
      BY <1>4, <3>2
  <2>4. /\ log'[n + 1].record.kid = keyFile
        /\ log'[n + 1].record.prev = IF n + 1 = 1 THEN 0 ELSE log'[n + 1 - 1].record.id
    <3>1. log'[n + 1].record = NewRecord
      BY <2>1
    <3>2. n # 0 => log'[n] = log[n]
      BY <1>2, <2>1
    <3>3. n + 1 - 1 = n /\ (n + 1 = 1 <=> n = 0)
      BY <1>2
    <3>4. QED
      BY <2>2, <3>1, <3>2, <3>3
  <2>5. \A i \in 1 .. n + 1 : i \in 1 .. n \/ i = n + 1
    BY <1>2
  <2>6. QED
    BY <1>1, <2>1, <2>3, <2>4, <2>5
<1>7. QED
  BY <1>5, <1>6

\* The two writes of an append: the line, then the checkpoint.
LEMMA WritingUsable ==
  ASSUME Basic, IntactInv, UsableInv, ~RunTogether', NEW p \in Procs,
         WriteLine(p) \/ WriteContinuity(p)
  PROVE  UsableInv'
<1>1. UNCHANGED <<conf, keyFile, trust, mem>>
  BY DEF WriteLine, WriteContinuity, Stay
<1>2. Pinned' = Pinned
  BY <1>1 DEF Pinned, Local
<1>3. CASE WriteLine(p)
  <2>1. /\ At(p, "write") /\ phase = "write" /\ phase' = "checkpoint"
        /\ log' = Written(NewRecord, "full") /\ checkpoint' = checkpoint
    BY <1>3 DEF WriteLine, At
  <2>5. newline
    BY <2>1, SharedLine DEF RunTogether
  <2>2. /\ keyFile \in Kids /\ Pinned # None /\ keyFile \in Pinned
        /\ \A i \in DOMAIN log' :
              /\ log'[i].record.kid = keyFile
              /\ log'[i].record.prev = IF i = 1 THEN 0 ELSE log'[i - 1].record.id
    BY <2>1, <2>5, WriteUsable
  <2>3. mem.kid = keyFile /\ (checkpoint # None => checkpoint.kid = keyFile)
    BY <2>1 DEF UsableInv
  <2>4. QED
    BY <1>1, <1>2, <2>1, <2>2, <2>3 DEF UsableInv
<1>4. CASE WriteContinuity(p)
  <2>1. /\ phase = "checkpoint" /\ phase' = "settle" /\ log' = log
        /\ checkpoint'.kid = mem.kid
    BY <1>4 DEF WriteContinuity, At
  <2>2. mem.kid = keyFile /\ mem.kid \in Kids /\ Pinned # None /\ mem.kid \in Pinned
    BY <2>1 DEF UsableInv, Basic, LockShape
  <2>3. QED
    BY <1>1, <1>2, <2>1, <2>2 DEF UsableInv
<1>5. QED
  BY <1>3, <1>4

\* An append that ends, well or not: the key it made and did not fill is gone with
\* the log still empty, and of its record at most a piece stays.
LEMMA EndUsable ==
  ASSUME Basic, IntactInv, UsableInv, ~RunTogether', NEW p \in Procs,
         Refusing(p) \/ Settle(p) \/ IoFault(p) \/ Crash(p) \/ TimeOut(p)
  PROVE  UsableInv'
<1>1. UNCHANGED <<conf, trust, checkpoint>>
  BY DEF Refusing, RefuseMalformed, RefuseKey, RefuseTrust, RefuseCheck, Refuse, Settle,
     IoFault, Crash, TimeOut, Stay, disk
<1>2. Pinned' = Pinned
  BY <1>1 DEF Pinned, Local
<1>3. phase' = "free" \/ UNCHANGED <<phase, mem, log, keyFile>>
  BY DEF Refusing, RefuseMalformed, RefuseKey, RefuseTrust, RefuseCheck, Refuse, Settle,
     IoFault, Crash, TimeOut, Release, disk
<1>4. CASE (IoFault(p) \/ Crash(p)) /\ At(p, "write")
  <2>1. PICK t \in Tails : log' = Written(NewRecord, t)
    BY <1>4 DEF IoFault, Crash, At
  <2>2. t \in {"none", "cut", "bare", "full"}
    BY OpenLogWriterAssumption DEF OpenLogWriterAssumption
  <2>7. newline \/ t = "none"
    BY <1>4, <2>1, <2>2, SharedLine DEF RunTogether
  <2>3. phase' = "free" /\ keyFile' = keyFile
    BY <1>4 DEF IoFault, Crash, Release, At
  <2>4. /\ keyFile \in Kids /\ Pinned # None /\ keyFile \in Pinned
        /\ \A i \in DOMAIN log' :
              /\ log'[i].record.kid = keyFile
              /\ log'[i].record.prev = IF i = 1 THEN 0 ELSE log'[i - 1].record.id
    BY <1>4, <2>1, <2>2, <2>7, WriteUsable
  <2>5. checkpoint # None => checkpoint.kid = keyFile
    BY DEF UsableInv
  <2>6. QED
    BY <1>1, <1>2, <2>3, <2>4, <2>5 DEF UsableInv
<1>5. CASE IoFault(p) /\ At(p, "fill")
  <2>1. log' = log /\ phase' = "free"
    BY <1>5 DEF IoFault, Release, At
  <2>2. log = <<>> /\ checkpoint = None
    BY <1>5, OpenLogWriterAssumption DEF OpenLogWriterAssumption, UsableInv, At
  <2>3. QED
    BY <1>1, <1>2, <2>1, <2>2 DEF UsableInv
<1>6. CASE ~((IoFault(p) \/ Crash(p)) /\ At(p, "write")) /\ ~(IoFault(p) /\ At(p, "fill"))
  <2>1. log' = log /\ keyFile' = keyFile
    BY <1>6 DEF Refusing, RefuseMalformed, RefuseKey, RefuseTrust, RefuseCheck, Refuse,
       Settle, IoFault, Crash, TimeOut, disk, At
  <2>2. RecordsOf(log)' = RecordsOf(log)
    BY <2>1 DEF RecordsOf
  <2>3. CASE phase' = "free"
    BY <1>1, <1>2, <2>1, <2>3 DEF UsableInv
  <2>4. CASE UNCHANGED <<phase, mem>>
    BY <1>1, <1>2, <2>1, <2>2, <2>4 DEF UsableInv
  <2>5. QED
    BY <1>3, <2>3, <2>4
<1>7. QED
  BY <1>4, <1>5, <1>6

\* While nobody else touches the files every step keeps the log usable.
LEMMA UsableStep ==
  ASSUME Basic, IntactInv, UsableInv, ~RunTogether', damages = 0, damages' = 0,
         [Next]_vars
  PROVE  UsableInv'
<1>1. ASSUME NEW p \in Procs, Enter(p) PROVE UsableInv'
  <2>1. /\ UNCHANGED <<conf, log, keyFile, trust, checkpoint>> /\ phase' = "read"
    BY <1>1 DEF Enter, Stay, disk
  <2>2. Pinned' = Pinned
    BY <2>1 DEF Pinned, Local
  <2>3. QED
    BY <2>1, <2>2 DEF UsableInv
<1>2. ASSUME NEW p \in Procs, Step(p) PROVE UsableInv'
  BY <1>1, <1>2, ReadingUsable, MakingUsable, WritingUsable, EndUsable
  DEF Step, Refusing
<1>3. ASSUME UNCHANGED <<conf, log, keyFile, trust, checkpoint, phase, mem>>
      PROVE  UsableInv'
  <2>1. Pinned' = Pinned /\ RecordsOf(log)' = RecordsOf(log)
    BY <1>3 DEF Pinned, Local, RecordsOf
  <2>2. QED
    BY <1>3, <2>1 DEF UsableInv
<1>4. ASSUME NEW p \in Procs, NEW b \in Actors, Call(p, b) PROVE UsableInv'
  BY <1>3, <1>4 DEF Call, disk
<1>5. ASSUME NEW p \in Procs, IoFault(p) \/ Crash(p) PROVE UsableInv'
  BY <1>5, EndUsable
<1>6. ~Damage
  BY DEF Damage
<1>7. CASE UNCHANGED vars
  BY <1>3, <1>7 DEF vars, disk
<1>8. QED
  BY <1>2, <1>4, <1>5, <1>6, <1>7 DEF Next

\* What the records hold follows from what the lines hold.
LEMMA UsableChain ==
  ASSUME Basic, IntactInv, UsableInv, checkpoint # None
  PROVE  /\ keyFile \in Kids /\ Pinned # None /\ keyFile \in Pinned
         /\ ChainOk(RecordsOf(log), Pinned)
         /\ ContinuityOk(RecordsOf(log), checkpoint, Pinned)
         /\ checkpoint.kid = keyFile
<1> DEFINE n == Len(log)
<1>1. n \in Nat /\ DOMAIN log = 1 .. n
  BY LogShape
<1>2. RecordsOf(log) = [i \in 1 .. n |-> log[i].record]
  BY <1>1 DEF RecordsOf
<1>3. RecordsOf(log) \in Seq(Records) /\ Len(RecordsOf(log)) = n
        /\ DOMAIN RecordsOf(log) = 1 .. n
  BY <1>1, <1>2, RecordsType DEF Basic
<1>4. keyFile \in Kids /\ Pinned # None /\ keyFile \in Pinned /\ checkpoint.kid = keyFile
  BY DEF UsableInv
<1>5. \A i \in 1 .. n :
         /\ log[i].record.kid = keyFile
         /\ log[i].record.prev = IF i = 1 THEN 0 ELSE log[i - 1].record.id
  BY <1>1 DEF UsableInv
<1>6. ASSUME NEW i \in 1 .. n
      PROVE  /\ RecordsOf(log)[i].kid = keyFile
             /\ RecordsOf(log)[i].prev = IF i = 1 THEN 0 ELSE RecordsOf(log)[i - 1].id
  <2>1. i = 1 \/ i - 1 \in 1 .. n
    BY <1>1
  <2>2. RecordsOf(log)[i] = log[i].record
          /\ (i # 1 => RecordsOf(log)[i - 1] = log[i - 1].record)
    BY <1>2, <2>1
  <2>3. QED
    BY <1>5, <2>2
<1>7. ChainOk(RecordsOf(log), Pinned)
  BY <1>3, <1>4, <1>6 DEF ChainOk
<1>8. checkpoint.count \in 1 .. n /\ log[checkpoint.count].record.id = checkpoint.head
  BY <1>1 DEF IntactInv, CheckpointNamesRecord, Basic, TypeOK, Checkpoints
<1>9. RecordsOf(log)[checkpoint.count].id = checkpoint.head
  BY <1>2, <1>8
<1>10. ContinuityOk(RecordsOf(log), checkpoint, Pinned)
  BY <1>3, <1>4, <1>6, <1>8, <1>9 DEF ContinuityOk
<1>11. QED
  BY <1>4, <1>7, <1>10

\* The files are nobody else's, and no record has run into another.
Unspoilt == damages = 0 /\ ~RunTogether

\* A usable log passes verify, and the checks of the next append.
LEMMA UsableHolds ==
  ASSUME WriterInv, Unspoilt => UsableInv
  PROVE  EstablishedStaysUsable
<1> SUFFICES ASSUME damages = 0, checkpoint # None, ~Malformed(log)
             PROVE  VerifyOk /\ WouldAccept
  BY DEF EstablishedStaysUsable
<1>0. Unspoilt /\ IntactInv /\ UsableInv
  BY DEF Unspoilt, RunTogether, Malformed, WriterInv
<1>1. /\ keyFile \in Kids /\ Pinned # None /\ keyFile \in Pinned
      /\ ChainOk(RecordsOf(log), Pinned)
      /\ ContinuityOk(RecordsOf(log), checkpoint, Pinned)
      /\ checkpoint.kid = keyFile
  BY <1>0, UsableChain DEF WriterInv, Basic
<1>2. VerifyOk
  BY <1>1 DEF VerifyOk
<1>3. ~EvidenceGone(RecordsOf(log), checkpoint)
  BY DEF EvidenceGone
<1>4. ContinuityAllows(RecordsOf(log), checkpoint, keyFile, Pinned)
  BY <1>1 DEF ContinuityAllows
<1>5. keyFile # "torn"
  BY <1>1, OpenLogWriterAssumption DEF OpenLogWriterAssumption
<1>6. WouldAccept
  BY <1>1, <1>3, <1>4, <1>5 DEF WouldAccept
<1>7. QED
  BY <1>2, <1>6

\* OpenLogWriter.append, verify: for any number of processes, keys, appends, failed
\* writes and crashes at any point, a log whose checkpoint exists verifies and takes
\* the next append, unless its last line is torn or shared by two records.
THEOREM WriterStaysUsable == Spec => []EstablishedStaysUsable
<1>1. Init => (Unspoilt => UsableInv)
  <2> SUFFICES ASSUME Init PROVE UsableInv
    OBVIOUS
  <2>1. log = <<>> /\ checkpoint = None /\ phase = "free"
    BY DEF Init
  <2>2. QED
    BY <2>1 DEF UsableInv
<1>2. WriterInv /\ (Unspoilt => UsableInv) /\ [Next]_vars => (Unspoilt => UsableInv)'
  <2> SUFFICES ASSUME WriterInv, Unspoilt => UsableInv, [Next]_vars, Unspoilt'
               PROVE  UsableInv'
    OBVIOUS
  <2>1. Basic /\ damages' = 0 /\ ~RunTogether'
    BY DEF WriterInv, Basic, Unspoilt
  <2>2. damages = 0
    BY <2>1, DamagesGrow
  <2>3. ~RunTogether /\ IntactInv
    BY <2>1, <2>2, SpoiltStep DEF WriterInv
  <2>4. QED
    BY <2>1, <2>2, <2>3, UsableStep DEF Unspoilt
<1>3. WriterInv /\ (Unspoilt => UsableInv) => EstablishedStaysUsable
  BY UsableHolds
<1>4. Spec => []WriterInv
  BY WriterInvariant
<1>5. QED
  BY <1>1, <1>2, <1>3, <1>4, PTL DEF Spec
-----------------------------------------------------------------------------
(* Interference does not go unnoticed. *)

\* The log holds every acknowledged record, if it matches the checkpoint.
LogCovers ==
    /\ checkpoint # None
    /\ checkpoint.count <= Len(log)
    /\ log[checkpoint.count].record.id = checkpoint.head
    => \A i \in DOMAIN acked : \E j \in 1 .. checkpoint.count :
          log[j].record.id = acked[i]

\* So do the records the holder read, if they match cp.
SeenCovers(cp) ==
    /\ cp # None
    /\ cp.count <= Len(mem.seen)
    /\ mem.seen[cp.count].id = cp.head
    => \A i \in DOMAIN acked : \E j \in 1 .. cp.count : mem.seen[j].id = acked[i]

\* They do in any case.
SeenHolds == \A i \in DOMAIN acked : \E j \in 1 .. Len(mem.seen) : mem.seen[j].id = acked[i]

\* What the files say of the acknowledged records, whoever touched them.
FilesTold ==
    /\ ~newline => log # <<>>
    /\ damages = 0 /\ phase \in {"checkpoint", "settle"} => log # <<>>
    /\ Archived => acked = <<>>
    /\ LogCovers

\* A checkpoint is of a record no append is still to write.
CheckpointFresh ==
    /\ checkpoint # None =>
          /\ checkpoint.head < nextId
          /\ \A p \in Procs : \A i \in DOMAIN queue[p] :
                queue[p][i].id = checkpoint.head => p = holder /\ i = 1 /\ phase = "settle"
    /\ phase = "settle" => checkpoint = None \/ checkpoint.head = Request.id

\* What the holder knows of them: from the checkpoint, from none where the
\* checkpoint is missing, and from its checks at last.
ReadTold ==
    /\ phase \in {"key", "fill"} => SeenCovers(checkpoint)
    /\ phase \in {"trust", "check"} => SeenCovers(mem.cp)
    /\ phase \in {"trust", "check", "write", "checkpoint"} /\ mem.cp = None =>
          checkpoint = None
    /\ phase = "check" /\ mem.seen = <<>> /\ mem.cp = None => acked = <<>>
    /\ phase \in {"write", "checkpoint"} => SeenHolds

\* While the holder works the log can only become shorter than what it has read.
SeenBounds ==
    /\ phase \in {"key", "fill", "trust", "check", "write"} =>
          /\ Len(log) <= Len(mem.seen)
          /\ \A i \in 1 .. Len(log) : log[i].record = mem.seen[i]
    /\ phase = "checkpoint" /\ Len(log) > Len(mem.seen) =>
          \A i \in 1 .. Len(mem.seen) : log[i].record = mem.seen[i]

TamperInv == FilesTold /\ CheckpointFresh /\ ReadTold /\ SeenBounds

\* What a write leaves of the log and adds to it, also behind a missing newline.
LEMMA WrittenGrows ==
  ASSUME Basic, newline \/ log # <<>>, NEW p \in Procs, At(p, "write"),
         NEW t \in {"none", "cut", "bare", "full"}, NEW w, w = Written(NewRecord, t)
  PROVE  /\ Len(w) \in {Len(log), Len(log) + 1}
         /\ \A i \in 1 .. Len(log) : w[i].record = log[i].record
         /\ Len(w) = Len(log) + 1 => w[Len(log) + 1].record = NewRecord
         /\ t = "full" \/ ~NewlineAfter(t) => Len(w) > 0
<1>1. log \in Seq(Lines) /\ Len(log) \in Nat /\ DOMAIN log = 1 .. Len(log)
  BY LogShape
<1>2. log # <<>> => Len(log) > 0
  BY <1>1
<1> DEFINE n == Len(log)
<1>0. n # n + 1
  <2> HIDE DEF n
  <2>1. n \in Nat
    BY <1>1 DEF n
  <2>2. QED
    BY <2>1
<1>3. CASE t = "none"
  <2>1. w = log /\ NewlineAfter(t) = newline
    BY <1>3 DEF Written, NewlineAfter
  <2>2. t # "full"
    BY <1>3
  <2>3. ~newline => Len(log) > 0
    BY <1>2
  <2>4. \A i \in 1 .. Len(log) : w[i].record = log[i].record
    BY <2>1
  <2>5. Len(w) = Len(log) /\ Len(log) # Len(log) + 1
    BY <1>0, <2>1
  <2>6. QED
    BY <2>1, <2>2, <2>3, <2>4, <2>5
<1>4. CASE t # "none" /\ ~newline
  <2> DEFINE m == Len(log)
             line == [log[m] EXCEPT !.form = "glued"]
  <2>1. w = [log EXCEPT ![m] = line]
    BY <1>4 DEF Written
  <2>2. m \in 1 .. Len(log) /\ log[m] \in Lines
    BY <1>1, <1>2, <1>4
  <2>3. line \in Lines /\ line.record = log[m].record
    BY <2>2 DEF Lines
  <2>4. /\ Len([log EXCEPT ![m] = line]) = Len(log)
        /\ \A i \in 1 .. Len(log) :
              [log EXCEPT ![m] = line][i] = IF i = m THEN line ELSE log[i]
    <3> HIDE DEF line, m
    <3>1. QED
      BY <1>1, <2>2, <2>3
  <2>5. \A i \in 1 .. Len(log) : w[i].record = log[i].record
    BY <2>1, <2>3, <2>4
  <2>6. Len(w) = Len(log)
    BY <2>1, <2>4
  <2> HIDE DEF line, m
  <2>7. Len(w) > 0 /\ Len(w) # Len(log) + 1
    BY <1>0, <1>2, <1>4, <2>6
  <2>8. QED
    BY <2>5, <2>6, <2>7
<1>5. CASE t # "none" /\ newline
  <2> DEFINE line == [record |-> NewRecord, form |-> IF t = "cut" THEN "cut" ELSE "whole"]
  <2>1. w = Append(log, line)
    BY <1>5 DEF Written
  <2>2. line \in Lines /\ line.record = NewRecord
    BY WriteType DEF Lines, Basic
  <2> HIDE DEF line
  <2>3. /\ Len(w) = Len(log) + 1
        /\ \A i \in 1 .. Len(log) : w[i] = log[i]
        /\ w[Len(log) + 1] = line
    BY <1>1, <2>1, <2>2, AppendProperties, LenProperties
  <2>4. Len(w) > 0
    BY <1>1, <2>3
  <2>5. QED
    BY <2>2, <2>3, <2>4
<1>6. QED
  BY <1>3, <1>4, <1>5

\* The checkpoint matches a log an append wrote to, wholly or not, only where it
\* matched the log before.
LEMMA WriteTold ==
  ASSUME Basic, FilesTold, CheckpointFresh, NEW p \in Procs, At(p, "write"),
         NEW t \in {"none", "cut", "bare", "full"},
         log' = Written(NewRecord, t), newline' = NewlineAfter(t),
         UNCHANGED <<conf, trust, checkpoint, acked, damages>>,
         phase' = "free" \/ (phase' = "checkpoint" /\ t = "full")
  PROVE  FilesTold'
<1> DEFINE n == Len(log)
<1>1. n \in Nat /\ log \in Seq(Lines)
  BY LogShape
<1>2. /\ Len(log') \in {n, n + 1}
      /\ \A i \in 1 .. n : log'[i].record = log[i].record
      /\ Len(log') = n + 1 => log'[n + 1].record = NewRecord
      /\ t = "full" \/ ~newline' => Len(log') > 0
  <2>1. newline \/ log # <<>>
    BY DEF FilesTold
  <2>2. QED
    BY <2>1, WrittenGrows
<1>3. log' = <<>> => log = <<>>
  BY <1>1, <1>2
<1>4. (~newline' => log' # <<>>) /\ (phase' = "checkpoint" => log' # <<>>)
  BY <1>2
<1>5. Archived' => acked' = <<>>
  BY <1>3 DEF FilesTold, Archived, Local
<1>6. LogCovers'
  <2> SUFFICES ASSUME checkpoint # None, checkpoint.count <= Len(log'),
                      log'[checkpoint.count].record.id = checkpoint.head
               PROVE  \A i \in DOMAIN acked : \E j \in 1 .. checkpoint.count :
                         log'[j].record.id = acked[i]
    BY DEF LogCovers
  <2>1. checkpoint.count \in Nat \ {0}
    BY DEF Basic, TypeOK, Checkpoints
  <2>2. checkpoint.count # n + 1
    <3>1. SUFFICES ASSUME checkpoint.count = n + 1 PROVE FALSE
      OBVIOUS
    <3>2. log'[n + 1].record.id = Request.id
      BY <1>1, <1>2, <3>1 DEF NewRecord
    <3>3. 1 \in DOMAIN queue[p] /\ Request.id = queue[p][1].id
      BY HeadRequest DEF At
    <3>4. QED
      BY <3>1, <3>2, <3>3 DEF CheckpointFresh, At
  <2>3. checkpoint.count <= n
    BY <1>1, <1>2, <2>1, <2>2
  <2>4. \A j \in 1 .. checkpoint.count : log'[j].record = log[j].record
    BY <1>1, <1>2, <2>1, <2>3
  <2>5. checkpoint.count \in 1 .. checkpoint.count
    BY <2>1
  <2>6. \A i \in DOMAIN acked : \E j \in 1 .. checkpoint.count : log[j].record.id = acked[i]
    BY <2>3, <2>4, <2>5 DEF FilesTold, LogCovers
  <2>7. QED
    BY <2>4, <2>6
<1>7. phase' # "settle"
  OBVIOUS
<1>8. QED
  BY <1>4, <1>5, <1>6, <1>7 DEF FilesTold

\* Files nobody touches say what they said.
LEMMA FilesKept ==
  ASSUME FilesTold, UNCHANGED <<conf, log, newline, trust, checkpoint, acked, damages>>,
         phase' = phase \/ phase' \notin {"checkpoint", "settle"}
  PROVE  FilesTold'
<1>1. Archived' = Archived /\ LogCovers' = LogCovers
  BY DEF Archived, Local, LogCovers
<1>2. QED
  BY <1>1 DEF FilesTold

\* When p's head leaves its queue, or all of it, the checkpoint's record is still
\* queued nowhere but at the head of a settling append.
LEMMA FreshKept ==
  ASSUME Basic, CheckpointFresh, NEW p \in Procs, Kept(p), UNCHANGED <<checkpoint, nextId>>,
         \/ holder = p /\ phase' = "free"
         \/ /\ holder # p /\ UNCHANGED <<holder, phase>>
            /\ \A q \in Procs : q # p => queue'[q] = queue[q]
  PROVE  CheckpointFresh'
<1>1. ASSUME NEW q \in Procs, NEW i \in DOMAIN queue'[q], checkpoint # None,
             queue'[q][i].id = checkpoint.head
      PROVE  q = holder /\ i = 1 /\ phase = "settle" /\ q # p
  <2>1. PICK j \in DOMAIN queue[q] :
           queue'[q][i] = queue[q][j] /\ (j = 1 => i = 1 /\ q # p)
    BY DEF Kept
  <2>2. q = holder /\ j = 1 /\ phase = "settle"
    BY <1>1, <2>1 DEF CheckpointFresh
  <2>3. QED
    BY <2>1, <2>2
<1>2. checkpoint # None => checkpoint.head < nextId
  BY DEF CheckpointFresh
<1>3. CASE holder = p /\ phase' = "free"
  BY <1>1, <1>2, <1>3 DEF CheckpointFresh
<1>4. CASE /\ holder # p /\ UNCHANGED <<holder, phase>>
           /\ \A q \in Procs : q # p => queue'[q] = queue[q]
  <2>1. phase = "settle" => Request' = Request
    BY <1>4 DEF Basic, LockShape, TypeOK, Request
  <2>2. QED
    BY <1>1, <1>2, <1>4, <2>1 DEF CheckpointFresh
<1>5. QED
  BY <1>3, <1>4

\* A step before the write, or the write, leaves the checkpoint fresh.
LEMMA FreshInner ==
  ASSUME CheckpointFresh, UNCHANGED <<checkpoint, nextId, queue>>,
         phase # "settle", phase' # "settle"
  PROVE  CheckpointFresh'
  BY DEF CheckpointFresh

\* The steps up to the write learn no more than the files tell.
LEMMA ReadingTold ==
  ASSUME Basic, TamperInv, ~conf.adoption, NEW p \in Procs,
         \/ ReadLog(p) \/ LoadKey(p) \/ CreateKey(p) \/ FillKey(p) \/ LoadTrust(p)
         \/ PinKey(p) \/ Check(p)
  PROVE  TamperInv'
<1> USE OpenLogWriterAssumption DEF OpenLogWriterAssumption
<1>1. /\ UNCHANGED <<conf, log, newline, checkpoint, holder, queue, acked, nextId, damages>>
      /\ phase \in {"read", "key", "fill", "trust", "check"}
      /\ phase' \in {"key", "fill", "trust", "check", "write"}
  BY DEF ReadLog, LoadKey, CreateKey, FillKey, LoadTrust, PinKey, Check, At, Stay, disk
<1>2. CheckpointFresh'
  <2>1. phase # "settle" /\ phase' # "settle"
    BY <1>1
  <2>2. QED
    BY <1>1, <2>1, FreshInner DEF TamperInv
<1>3. FilesTold'
  <2>1. CASE PinKey(p)
    <3>1. Pinned = None /\ trust' = {mem.kid}
      BY <2>1 DEF PinKey
    <3>2. Local /\ trust = None /\ trust' # None
      <4>1. mem.kid \in Kids
        BY <2>1 DEF PinKey, At, Basic, LockShape
      <4>2. QED
        BY <3>1, <4>1 DEF Pinned, Local
    <3>3. ~Archived'
      BY <1>1, <3>2 DEF Archived, Local
    <3>4. LogCovers' = LogCovers
      BY <1>1 DEF LogCovers
    <3>5. phase' \notin {"checkpoint", "settle"}
      BY <1>1
    <3>6. QED
      BY <1>1, <3>3, <3>4, <3>5 DEF TamperInv, FilesTold
  <2>2. CASE ~PinKey(p)
    <3>1. trust' = trust
      BY <2>2 DEF ReadLog, LoadKey, CreateKey, FillKey, LoadTrust, Check, disk
    <3>2. phase' \notin {"checkpoint", "settle"}
      BY <1>1
    <3>3. QED
      BY <1>1, <3>1, <3>2, FilesKept DEF TamperInv
  <2>3. QED
    BY <2>1, <2>2
<1>4. SeenBounds'
  <2>1. CASE ReadLog(p)
    <3>1. mem'.seen = RecordsOf(log)
      BY <2>1 DEF ReadLog, Basic, TypeOK
    <3>2. RecordsOf(log) = [i \in 1 .. Len(log) |-> log[i].record] /\ Len(log) \in Nat
      BY LogShape DEF RecordsOf
    <3>3. Len(mem'.seen) = Len(log)
      BY <3>1, <3>2
    <3>4. phase' = "key"
      BY <2>1 DEF ReadLog
    <3>5. QED
      BY <1>1, <3>1, <3>2, <3>3, <3>4 DEF SeenBounds
  <2>2. CASE ~ReadLog(p)
    <3>1. mem'.seen = mem.seen /\ phase \in {"key", "fill", "trust", "check"}
      BY <2>2 DEF LoadKey, CreateKey, FillKey, LoadTrust, PinKey, Check, At, Basic, TypeOK
    <3>2. phase' # "checkpoint"
      BY <1>1
    <3>3. QED
      BY <1>1, <3>1, <3>2 DEF TamperInv, SeenBounds
  <2>3. QED
    BY <2>1, <2>2
<1>5. ReadTold'
  <2>1. CASE ReadLog(p)
    <3>1. phase' = "key" /\ mem'.seen = RecordsOf(log)
      BY <2>1 DEF ReadLog, Basic, TypeOK
    <3>2. RecordsOf(log) = [i \in 1 .. Len(log) |-> log[i].record] /\ Len(log) \in Nat
      BY LogShape DEF RecordsOf
    <3>3. Len(mem'.seen) = Len(log)
      BY <3>1, <3>2
    <3>4. SeenCovers(checkpoint)'
      <4> SUFFICES ASSUME checkpoint # None, checkpoint.count <= Len(log),
                          mem'.seen[checkpoint.count].id = checkpoint.head
                   PROVE  \A i \in DOMAIN acked : \E j \in 1 .. checkpoint.count :
                             mem'.seen[j].id = acked[i]
        BY <1>1, <3>3 DEF SeenCovers
      <4>1. checkpoint.count \in Nat \ {0}
        BY DEF Basic, TypeOK, Checkpoints
      <4>2. \A j \in 1 .. checkpoint.count : mem'.seen[j] = log[j].record
        BY <3>1, <3>2, <4>1
      <4>3. checkpoint.count \in 1 .. checkpoint.count
        BY <4>1
      <4>4. \A i \in DOMAIN acked : \E j \in 1 .. checkpoint.count :
               log[j].record.id = acked[i]
        BY <4>2, <4>3 DEF TamperInv, FilesTold, LogCovers
      <4>5. QED
        BY <4>2, <4>4
    <3>5. QED
      BY <3>1, <3>4 DEF ReadTold
  <2>2. CASE CreateKey(p)
    <3>1. phase = "key" /\ phase' = "fill" /\ mem' = mem
      BY <2>2 DEF CreateKey, At
    <3>2. SeenCovers(checkpoint)'
      BY <1>1, <3>1 DEF TamperInv, ReadTold, SeenCovers
    <3>3. QED
      BY <3>1, <3>2 DEF ReadTold
  <2>3. CASE LoadKey(p) \/ FillKey(p)
    <3>1. /\ phase \in {"key", "fill"} /\ phase' = "trust"
          /\ mem'.seen = mem.seen /\ mem'.cp = checkpoint
      BY <2>3 DEF LoadKey, FillKey, At, Basic, TypeOK
    <3>2. SeenCovers(mem.cp)'
      BY <1>1, <3>1 DEF TamperInv, ReadTold, SeenCovers
    <3>3. QED
      BY <1>1, <3>1, <3>2 DEF ReadTold
  <2>4. CASE LoadTrust(p) \/ PinKey(p)
    <3>1. /\ phase = "trust" /\ phase' = "check"
          /\ mem'.seen = mem.seen /\ mem'.cp = mem.cp
      BY <2>4 DEF LoadTrust, PinKey, At, Basic, TypeOK
    <3>2. SeenCovers(mem.cp)' /\ (mem.cp = None => checkpoint = None)
      BY <1>1, <3>1 DEF TamperInv, ReadTold, SeenCovers
    <3>3. ASSUME mem.seen = <<>>, mem.cp = None PROVE acked = <<>>
      <4>1. Len(log) <= 0 /\ log \in Seq(Lines) /\ Len(log) \in Nat
        <5>1. Len(mem.seen) = 0
          BY <3>3
        <5>2. QED
          BY <3>1, <5>1, LogShape DEF TamperInv, SeenBounds
      <4>2. log = <<>>
        BY <4>1
      <4>3. trust = None \/ ~Local
        <5>1. CASE LoadTrust(p)
          BY <3>3, <5>1 DEF LoadTrust, EvidenceGone
        <5>2. CASE PinKey(p)
          BY <5>2 DEF PinKey, Pinned
        <5>3. QED
          BY <2>4, <5>1, <5>2
      <4>4. Archived
        BY <3>2, <3>3, <4>2, <4>3 DEF Archived
      <4>5. QED
        BY <4>4 DEF TamperInv, FilesTold
    <3>4. QED
      BY <1>1, <3>1, <3>2, <3>3 DEF ReadTold
  <2>5. CASE Check(p)
    <3>1. /\ phase = "check" /\ phase' = "write" /\ mem' = mem
          /\ ContinuityAllows(mem.seen, mem.cp, mem.kid, mem.trusted)
      BY <2>5 DEF Check, At, Acceptable
    <3>2. SeenHolds
      <4>1. CASE mem.cp = None
        <5>1. mem.seen = <<>>
          BY <3>1, <4>1 DEF ContinuityAllows
        <5>2. acked = <<>>
          BY <3>1, <4>1, <5>1 DEF TamperInv, ReadTold
        <5>3. QED
          BY <5>2 DEF SeenHolds
      <4>2. CASE mem.cp # None
        <5>1. ContinuityOk(mem.seen, mem.cp, mem.trusted)
          BY <3>1, <4>2 DEF ContinuityAllows
        <5>2. mem.cp.count <= Len(mem.seen) /\ mem.seen[mem.cp.count].id = mem.cp.head
          BY <5>1 DEF ContinuityOk
        <5>3. \A i \in DOMAIN acked : \E j \in 1 .. mem.cp.count : mem.seen[j].id = acked[i]
          BY <3>1, <4>2, <5>2 DEF TamperInv, ReadTold, SeenCovers
        <5>4. mem.cp.count \in Nat /\ Len(mem.seen) \in Nat
          BY <4>2 DEF Basic, TypeOK, Checkpoints
        <5>5. 1 .. mem.cp.count \subseteq 1 .. Len(mem.seen)
          BY <5>2, <5>4
        <5>6. QED
          BY <5>3, <5>5 DEF SeenHolds
      <4>3. QED
        BY <4>1, <4>2
    <3>3. SeenHolds'
      BY <1>1, <3>1, <3>2 DEF SeenHolds
    <3>4. mem.cp = None => checkpoint = None
      BY <3>1 DEF TamperInv, ReadTold
    <3>5. QED
      BY <1>1, <3>1, <3>3, <3>4 DEF ReadTold
  <2>6. QED
    BY <2>1, <2>2, <2>3, <2>4, <2>5
<1>6. QED
  BY <1>2, <1>3, <1>4, <1>5 DEF TamperInv

\* The line is written behind what the holder read, or behind less.
LEMMA WriteLineTold ==
  ASSUME Basic, TamperInv, NEW p \in Procs, WriteLine(p)
  PROVE  TamperInv'
<1>1. /\ At(p, "write") /\ phase = "write" /\ phase' = "checkpoint"
      /\ log' = Written(NewRecord, "full") /\ newline' = NewlineAfter("full")
      /\ UNCHANGED <<conf, trust, checkpoint, mem, queue, acked, nextId, damages>>
  BY DEF WriteLine, Stay, NewlineAfter, At
<1>2. FilesTold'
  BY <1>1, WriteTold DEF TamperInv
<1>3. CheckpointFresh'
  BY <1>1, FreshInner DEF TamperInv
<1>4. ReadTold'
  <2>1. SeenHolds /\ (mem.cp = None => checkpoint = None)
    BY <1>1 DEF TamperInv, ReadTold
  <2>2. SeenHolds'
    BY <1>1, <2>1 DEF SeenHolds
  <2>3. QED
    BY <1>1, <2>1, <2>2 DEF ReadTold
<1>5. SeenBounds'
  <2>1. Len(log) <= Len(mem.seen) /\ \A i \in 1 .. Len(log) : log[i].record = mem.seen[i]
    BY <1>1 DEF TamperInv, SeenBounds
  <2>2. newline \/ log # <<>>
    BY DEF TamperInv, FilesTold
  <2>3. /\ Len(log') \in {Len(log), Len(log) + 1}
        /\ \A i \in 1 .. Len(log) : log'[i].record = log[i].record
    BY <1>1, <2>2, WrittenGrows
  <2>4. Len(log) \in Nat /\ Len(mem.seen) \in Nat
    BY DEF Basic, TypeOK
  <2>5. Len(log') > Len(mem.seen) => Len(mem.seen) = Len(log)
    BY <2>1, <2>3, <2>4
  <2>6. QED
    BY <1>1, <2>1, <2>3, <2>5 DEF SeenBounds
<1>6. QED
  BY <1>2, <1>3, <1>4, <1>5 DEF TamperInv

\* The checkpoint is written over a log that holds what the holder read, or does
\* not match it.
LEMMA WriteContinuityTold ==
  ASSUME Basic, TamperInv, NEW p \in Procs, WriteContinuity(p)
  PROVE  TamperInv'
<1>1. /\ holder = p /\ phase = "checkpoint" /\ phase' = "settle"
      /\ checkpoint' = [count |-> Len(mem.seen) + 1, head |-> Request.id, kid |-> mem.kid]
      /\ UNCHANGED <<conf, log, newline, trust, holder, mem, queue, acked, nextId, damages>>
  BY DEF WriteContinuity, Stay, At
<1>2. Len(log) \in Nat /\ Len(mem.seen) \in Nat
  BY DEF Basic, TypeOK
<1>3. checkpoint' # None
  <2>1. Len(mem.seen) + 1 \in Nat \ {0} /\ Request.id \in Ids /\ mem.kid \in Kids
    BY <1>1, <1>2, HeadRequest DEF Basic, LockShape
  <2>2. checkpoint' \in [count : Nat \ {0}, head : 1 .. MaxAppends, kid : Kids]
    BY <1>1, <2>1 DEF Ids
  <2>3. QED
    BY <2>2, OpenLogWriterAssumption DEF OpenLogWriterAssumption
<1>4. FilesTold'
  <2>1. LogCovers'
    <3> SUFFICES ASSUME Len(mem.seen) + 1 <= Len(log)
                 PROVE  \A i \in DOMAIN acked : \E j \in 1 .. Len(mem.seen) + 1 :
                           log[j].record.id = acked[i]
      BY <1>1 DEF LogCovers
    <3>1. Len(log) > Len(mem.seen)
      BY <1>2
    <3>2. \A i \in 1 .. Len(mem.seen) : log[i].record = mem.seen[i]
      BY <1>1, <3>1 DEF TamperInv, SeenBounds
    <3>3. \A i \in DOMAIN acked : \E j \in 1 .. Len(mem.seen) : mem.seen[j].id = acked[i]
      BY <1>1 DEF TamperInv, ReadTold, SeenHolds
    <3>4. 1 .. Len(mem.seen) \subseteq 1 .. Len(mem.seen) + 1
      BY <1>2
    <3>5. QED
      BY <3>2, <3>3, <3>4
  <2>2. ~Archived'
    BY <1>3 DEF Archived
  <2>3. damages = 0 => log # <<>>
    BY <1>1 DEF TamperInv, FilesTold
  <2>4. QED
    BY <1>1, <2>1, <2>2, <2>3 DEF TamperInv, FilesTold
<1>5. CheckpointFresh'
  <2>1. 1 \in DOMAIN queue[p] /\ Request = queue[p][1] /\ Request.id < nextId
    BY <1>1, HeadRequest
  <2>2. \A q \in Procs : \A i \in DOMAIN queue[q] :
           queue[q][i].id = Request.id => q = p /\ i = 1
    BY <2>1 DEF Basic, QueueIds
  <2>3. checkpoint'.head = Request.id /\ Request' = Request
    BY <1>1 DEF Request
  <2>4. QED
    BY <1>1, <2>1, <2>2, <2>3 DEF CheckpointFresh
<1>6. ReadTold' /\ SeenBounds'
  BY <1>1 DEF ReadTold, SeenBounds
<1>7. QED
  BY <1>4, <1>5, <1>6 DEF TamperInv

\* The append resolves: a checkpoint that matches the log is of its record.
LEMMA SettleTold ==
  ASSUME Basic, TamperInv, NEW p \in Procs, Settle(p)
  PROVE  TamperInv'
<1>1. /\ holder = p /\ phase = "settle" /\ phase' = "free"
      /\ UNCHANGED <<conf, log, newline, trust, checkpoint, nextId, damages>>
      /\ acked' = IF damages > 0 /\ Archived THEN <<>> ELSE Append(acked, Request.id)
  BY DEF Settle, Release, Stay, disk, At
<1>2. Kept(p)
  BY SettleBasic, ShiftKeeps
<1>3. CheckpointFresh'
  BY <1>1, <1>2, FreshKept DEF TamperInv
<1>4. Archived' = Archived
  BY <1>1 DEF Archived, Local
<1>5. Archived => damages > 0
  <2>1. damages \in Nat /\ (damages = 0 => log # <<>>)
    BY <1>1, OpenLogWriterAssumption
    DEF OpenLogWriterAssumption, Basic, TypeOK, TamperInv, FilesTold
  <2>2. QED
    BY <2>1 DEF Archived
<1>6. CASE Archived
  <2>1. acked' = <<>>
    BY <1>1, <1>5, <1>6
  <2>2. LogCovers'
    BY <2>1 DEF LogCovers
  <2>3. FilesTold'
    BY <1>1, <2>1, <2>2 DEF TamperInv, FilesTold
  <2>4. QED
    BY <1>1, <1>3, <2>3 DEF TamperInv, ReadTold, SeenBounds
<1>7. CASE ~Archived
  <2>1. acked' = Append(acked, Request.id)
    BY <1>1, <1>7
  <2>2. \A i \in DOMAIN acked' : \/ i \in DOMAIN acked /\ acked'[i] = acked[i]
                                 \/ acked'[i] = Request.id
    <3>1. acked \in Seq(Ids) /\ Request.id \in Ids
      BY <1>1, HeadRequest DEF Basic, TypeOK
    <3>2. QED
      BY <2>1, <3>1, AppendProperties, LenProperties
  <2>3. LogCovers'
    <3> SUFFICES ASSUME checkpoint # None, checkpoint.count <= Len(log),
                        log[checkpoint.count].record.id = checkpoint.head,
                        NEW i \in DOMAIN acked'
                 PROVE  \E j \in 1 .. checkpoint.count : log[j].record.id = acked'[i]
      BY <1>1 DEF LogCovers
    <3>1. checkpoint.count \in 1 .. checkpoint.count
      BY DEF Basic, TypeOK, Checkpoints
    <3>2. checkpoint.head = Request.id
      BY <1>1 DEF TamperInv, CheckpointFresh
    <3>3. CASE i \in DOMAIN acked /\ acked'[i] = acked[i]
      BY <3>3 DEF TamperInv, FilesTold, LogCovers
    <3>4. CASE acked'[i] = Request.id
      BY <3>1, <3>2, <3>4
    <3>5. QED
      BY <2>2, <3>3, <3>4
  <2>4. FilesTold'
    BY <1>1, <1>4, <1>7, <2>3 DEF TamperInv, FilesTold
  <2>5. QED
    BY <1>1, <1>3, <2>4 DEF TamperInv, ReadTold, SeenBounds
<1>8. QED
  BY <1>6, <1>7

\* An append that ends badly acknowledges nothing, and of its record whatever
\* arrived is behind what the checkpoint covers.
LEMMA EndTold ==
  ASSUME Basic, TamperInv, NEW p \in Procs,
         Refusing(p) \/ IoFault(p) \/ Crash(p) \/ TimeOut(p)
  PROVE  TamperInv'
<1>1. Kept(p)
  BY RefuseBasic, IoFaultBasic, CrashBasic, TimeOutBasic, ShiftKeeps
<1>2. UNCHANGED <<conf, trust, checkpoint, nextId, acked, damages>>
  BY DEF Refusing, RefuseMalformed, RefuseKey, RefuseTrust, RefuseCheck, Refuse,
     IoFault, Crash, TimeOut, Stay, disk
<1>3. CASE (IoFault(p) \/ Crash(p)) /\ At(p, "write")
  <2>1. PICK t \in Tails : log' = Written(NewRecord, t) /\ newline' = NewlineAfter(t)
    BY <1>3 DEF IoFault, Crash, At
  <2>2. t \in {"none", "cut", "bare", "full"}
    BY OpenLogWriterAssumption DEF OpenLogWriterAssumption
  <2>3. holder = p /\ phase' = "free"
    BY <1>3 DEF IoFault, Crash, Release, At
  <2>4. FilesTold'
    <3>1. FilesTold /\ CheckpointFresh /\ At(p, "write")
      BY <1>3 DEF TamperInv
    <3>2. phase' = "free" \/ (phase' = "checkpoint" /\ t = "full")
      BY <2>3
    <3>3. UNCHANGED <<conf, trust, checkpoint, acked, damages>>
      BY <1>2
    <3>4. QED
      BY <2>1, <2>2, <3>1, <3>2, <3>3, WriteTold
  <2>5. CheckpointFresh'
    BY <1>1, <1>2, <2>3, FreshKept DEF TamperInv
  <2>6. QED
    BY <2>3, <2>4, <2>5 DEF TamperInv, ReadTold, SeenBounds
<1>4. CASE ~((IoFault(p) \/ Crash(p)) /\ At(p, "write"))
  <2>1. UNCHANGED <<log, newline>>
    BY <1>4 DEF Refusing, RefuseMalformed, RefuseKey, RefuseTrust, RefuseCheck, Refuse,
       IoFault, Crash, TimeOut, disk, At
  <2>2. CASE holder = p /\ ~TimeOut(p)
    <3>1. phase' = "free"
      BY <2>2 DEF Refusing, RefuseMalformed, RefuseKey, RefuseTrust, RefuseCheck, Refuse,
         IoFault, Crash, Release
    <3>2. phase' \notin {"checkpoint", "settle"}
      BY <3>1
    <3>3. FilesTold'
      BY <1>2, <2>1, <3>2, FilesKept DEF TamperInv
    <3>4. CheckpointFresh'
      BY <1>1, <1>2, <2>2, <3>1, FreshKept DEF TamperInv
    <3>5. QED
      BY <3>1, <3>3, <3>4 DEF TamperInv, ReadTold, SeenBounds
  <2>3. CASE holder # p \/ TimeOut(p)
    <3>1. (Crash(p) \/ TimeOut(p)) /\ holder # p
      BY <2>3 DEF Refusing, RefuseMalformed, RefuseKey, RefuseTrust, RefuseCheck,
         IoFault, TimeOut, At
    <3>2. UNCHANGED <<holder, phase, mem>>
      BY <3>1 DEF Crash, TimeOut
    <3>3. \A q \in Procs : q # p => queue'[q] = queue[q]
      BY <3>1 DEF Crash, TimeOut, Basic, TypeOK
    <3>4. FilesTold'
      BY <1>2, <2>1, <3>2, FilesKept DEF TamperInv
    <3>5. CheckpointFresh'
      BY <1>1, <1>2, <3>1, <3>2, <3>3, FreshKept DEF TamperInv
    <3>6. ReadTold' /\ SeenBounds'
      BY <1>2, <2>1, <3>2 DEF TamperInv, ReadTold, SeenBounds, SeenCovers, SeenHolds
    <3>7. QED
      BY <3>4, <3>5, <3>6 DEF TamperInv
  <2>4. QED
    BY <2>2, <2>3
<1>5. QED
  BY <1>3, <1>4

\* A new call is not the checkpoint's.
LEMMA CallTold ==
  ASSUME Basic, TamperInv, NEW p \in Procs, NEW b \in Actors, Call(p, b)
  PROVE  TamperInv'
<1>1. /\ UNCHANGED <<conf, log, newline, trust, checkpoint, holder, phase, mem, acked, damages>>
      /\ nextId' = nextId + 1 /\ nextId \in Nat
  BY OpenLogWriterAssumption DEF OpenLogWriterAssumption, Call, disk, Basic, TypeOK
<1>2. CheckpointFresh'
  <2>1. checkpoint # None => checkpoint.head < nextId /\ checkpoint.head \in Nat
    BY DEF TamperInv, CheckpointFresh, Basic, TypeOK, Checkpoints, Ids
  <2>2. ASSUME NEW q \in Procs, NEW i \in DOMAIN queue'[q], checkpoint # None,
               queue'[q][i].id = checkpoint.head
        PROVE  q = holder /\ i = 1 /\ phase = "settle"
    <3>1. i \in DOMAIN queue[q] /\ queue'[q][i] = queue[q][i]
      BY <1>1, <2>1, <2>2, CallBasic
    <3>2. QED
      BY <2>2, <3>1 DEF TamperInv, CheckpointFresh
  <2>3. phase = "settle" => Request' = Request
    BY <1>1, CallHead DEF Request
  <2>4. checkpoint # None => checkpoint.head < nextId'
    BY <1>1, <2>1
  <2>5. QED
    BY <1>1, <2>2, <2>3, <2>4 DEF TamperInv, CheckpointFresh
<1>3. FilesTold'
  BY <1>1, FilesKept DEF TamperInv
<1>4. ReadTold' /\ SeenBounds'
  BY <1>1 DEF TamperInv, ReadTold, SeenBounds, SeenCovers, SeenHolds
<1>5. QED
  BY <1>2, <1>3, <1>4 DEF TamperInv

\* Somebody else's change of the files can only take away: what then still matches
\* matched before, and where nothing is left to match nothing is held against it.
LEMMA DamageTold ==
  ASSUME Basic, TamperInv, Damage
  PROVE  TamperInv'
<1>1. UNCHANGED <<conf, holder, phase, mem, queue, nextId>>
        /\ damages' # 0 /\ checkpoint' \in {checkpoint, None}
  BY OpenLogWriterAssumption DEF Damage, OpenLogWriterAssumption, Basic, TypeOK
<1>2. acked' = acked \/ acked' = <<>>
  BY DEF Damage
<1>3. (newline' = newline /\ log' = log) \/ newline' = TRUE
  BY DEF Damage
<1>4. log \in Seq(Lines) /\ Len(log) \in Nat /\ Len(mem.seen) \in Nat
  BY DEF Basic, TypeOK
<1>5. Len(log') <= Len(log) /\ \A i \in 1 .. Len(log') : log'[i] = log[i]
  <2>1. CASE log' = log
    BY <1>4, <2>1
  <2>2. CASE \E n \in 0 .. Len(log) - 1 : log' = SubSeq(log, 1, n)
    <3>1. PICK n \in 0 .. Len(log) - 1 : log' = SubSeq(log, 1, n)
      BY <2>2
    <3>2. Len(log') = n /\ \A i \in 1 .. n : log'[i] = log[i]
      BY <1>4, <3>1
    <3>3. QED
      BY <1>4, <3>2
  <2>3. QED
    BY <2>1, <2>2 DEF Damage
<1>6. Len(log') \in Nat
  <2>1. log' \in Seq(Lines)
    BY DamageBasic DEF Basic, TypeOK
  <2>2. QED
    BY <2>1
<1>7. CheckpointFresh'
  <2>1. Request' = Request
    BY <1>1 DEF Request
  <2>2. QED
    BY <1>1, <2>1 DEF TamperInv, CheckpointFresh
<1>8. FilesTold'
  <2>1. Archived' => acked' = <<>>
    BY DEF Damage
  <2>2. ~newline' => log' # <<>>
    BY <1>3 DEF TamperInv, FilesTold
  <2>3. LogCovers'
    <3> SUFFICES ASSUME checkpoint' # None, checkpoint'.count <= Len(log'),
                        log'[checkpoint'.count].record.id = checkpoint'.head,
                        NEW i \in DOMAIN acked'
                 PROVE  \E j \in 1 .. checkpoint'.count : log'[j].record.id = acked'[i]
      BY DEF LogCovers
    <3>1. checkpoint' = checkpoint
      BY <1>1
    <3>2. checkpoint.count \in Nat \ {0}
      BY <3>1 DEF Basic, TypeOK, Checkpoints
    <3>3. acked' = acked
      BY <1>2
    <3>4. \A j \in 1 .. checkpoint.count : log'[j] = log[j]
      BY <1>5, <1>6, <3>1, <3>2
    <3>5. checkpoint.count <= Len(log) /\ checkpoint.count \in 1 .. checkpoint.count
      BY <1>4, <1>5, <1>6, <3>1, <3>2
    <3>6. \E j \in 1 .. checkpoint.count : log[j].record.id = acked[i]
      BY <3>1, <3>3, <3>4, <3>5 DEF TamperInv, FilesTold, LogCovers
    <3>7. QED
      BY <3>1, <3>3, <3>4, <3>6
  <2>4. QED
    BY <1>1, <2>1, <2>2, <2>3 DEF FilesTold
<1>9. SeenBounds'
  <2>1. ASSUME phase \in {"key", "fill", "trust", "check", "write"}
        PROVE  /\ Len(log') <= Len(mem.seen)
               /\ \A i \in 1 .. Len(log') : log'[i].record = mem.seen[i]
    <3>1. /\ Len(log) <= Len(mem.seen)
          /\ \A i \in 1 .. Len(log) : log[i].record = mem.seen[i]
      BY <2>1 DEF TamperInv, SeenBounds
    <3>2. 1 .. Len(log') \subseteq 1 .. Len(log)
      BY <1>4, <1>5, <1>6
    <3>3. QED
      BY <1>4, <1>5, <1>6, <3>1, <3>2
  <2>2. ASSUME phase = "checkpoint", Len(log') > Len(mem.seen)
        PROVE  \A i \in 1 .. Len(mem.seen) : log'[i].record = mem.seen[i]
    <3>1. Len(log) > Len(mem.seen) /\ 1 .. Len(mem.seen) \subseteq 1 .. Len(log')
      BY <1>4, <1>5, <1>6, <2>2
    <3>2. \A i \in 1 .. Len(mem.seen) : log[i].record = mem.seen[i]
      BY <2>2, <3>1 DEF TamperInv, SeenBounds
    <3>3. QED
      BY <1>5, <3>1, <3>2
  <2>3. QED
    BY <1>1, <2>1, <2>2 DEF SeenBounds
<1>10. ReadTold'
  <2>1. ASSUME NEW cp, SeenCovers(cp)
        PROVE  /\ cp # None
               /\ cp.count <= Len(mem'.seen)
               /\ mem'.seen[cp.count].id = cp.head
               => \A i \in DOMAIN acked' : \E j \in 1 .. cp.count : mem'.seen[j].id = acked'[i]
    BY <1>1, <1>2, <2>1 DEF SeenCovers
  <2>2. phase' \in {"key", "fill"} => SeenCovers(checkpoint)'
    <3> SUFFICES ASSUME phase \in {"key", "fill"}, checkpoint' # None
                 PROVE  SeenCovers(checkpoint)'
      BY <1>1 DEF SeenCovers
    <3>1. checkpoint' = checkpoint /\ SeenCovers(checkpoint)
      BY <1>1 DEF TamperInv, ReadTold
    <3>2. QED
      BY <2>1, <3>1 DEF SeenCovers
  <2>3. phase' \in {"trust", "check"} => SeenCovers(mem.cp)'
    <3> SUFFICES ASSUME phase \in {"trust", "check"} PROVE SeenCovers(mem.cp)'
      BY <1>1
    <3>1. mem' = mem /\ SeenCovers(mem.cp)
      BY <1>1 DEF TamperInv, ReadTold
    <3>2. QED
      BY <2>1, <3>1 DEF SeenCovers
  <2>4. phase' \in {"write", "checkpoint"} => SeenHolds'
    BY <1>1, <1>2 DEF TamperInv, ReadTold, SeenHolds
  <2>5. phase' \in {"trust", "check", "write", "checkpoint"} /\ mem'.cp = None =>
           checkpoint' = None
    BY <1>1 DEF TamperInv, ReadTold
  <2>6. phase' = "check" /\ mem'.seen = <<>> /\ mem'.cp = None => acked' = <<>>
    BY <1>1, <1>2 DEF TamperInv, ReadTold
  <2>7. QED
    BY <2>2, <2>3, <2>4, <2>5, <2>6 DEF ReadTold
<1>11. QED
  BY <1>7, <1>8, <1>9, <1>10 DEF TamperInv

\* Whatever the processes and the others do, the files go on telling.
LEMMA TamperStep ==
  ASSUME Basic, TamperInv, ~conf.adoption, [Next]_vars
  PROVE  TamperInv'
<1>1. ASSUME NEW p \in Procs, Enter(p) PROVE TamperInv'
  <2>1. /\ UNCHANGED <<conf, log, newline, trust, checkpoint, queue, acked, nextId, damages>>
        /\ phase = "free" /\ phase' = "read"
    BY <1>1 DEF Enter, Stay, disk, Basic, LockShape
  <2>2. FilesTold' /\ CheckpointFresh'
    BY <2>1, FilesKept, FreshInner DEF TamperInv
  <2>3. QED
    BY <2>1, <2>2 DEF TamperInv, ReadTold, SeenBounds
<1>2. ASSUME NEW p \in Procs, Step(p) PROVE TamperInv'
  BY <1>1, <1>2, ReadingTold, WriteLineTold, WriteContinuityTold, SettleTold, EndTold
  DEF Step, Refusing
<1>3. ASSUME NEW p \in Procs, NEW b \in Actors, Call(p, b) PROVE TamperInv'
  BY <1>3, CallTold
<1>4. ASSUME NEW p \in Procs, IoFault(p) \/ Crash(p) PROVE TamperInv'
  BY <1>4, EndTold
<1>5. CASE Damage
  BY <1>5, DamageTold
<1>6. CASE UNCHANGED vars
  BY <1>6 DEF vars, disk, TamperInv, FilesTold, CheckpointFresh, ReadTold, SeenBounds,
     LogCovers, SeenCovers, SeenHolds, Archived, Local, Request
<1>7. QED
  BY <1>2, <1>3, <1>4, <1>5, <1>6 DEF Next

\* The options of a run do not change.
LEMMA OptionsStay == ASSUME [Next]_vars PROVE conf' = conf
  BY DEF Next, vars, Step, Enter, TimeOut, ReadLog, RefuseMalformed, LoadKey, RefuseKey,
     CreateKey, FillKey, LoadTrust, PinKey, RefuseTrust, Check, RefuseCheck, WriteLine,
     WriteContinuity, Settle, Refuse, Stay, IoFault, Crash, Call, Damage

\* A log that verifies matches its checkpoint.
LEMMA VerifiedHolds ==
  ASSUME Basic, TamperInv, VerifyOk
  PROVE  \A i \in DOMAIN acked : \E j \in DOMAIN log : log[j].record.id = acked[i]
<1>1. Len(log) \in Nat /\ DOMAIN log = 1 .. Len(log)
  BY LogShape
<1>2. RecordsOf(log) = [i \in 1 .. Len(log) |-> log[i].record]
  BY <1>1 DEF RecordsOf
<1>3. Len(RecordsOf(log)) = Len(log)
  BY <1>1, <1>2
<1>4. checkpoint # None /\ ContinuityOk(RecordsOf(log), checkpoint, Pinned)
  BY DEF VerifyOk
<1>5. checkpoint.count \in Nat \ {0}
  BY <1>4 DEF Basic, TypeOK, Checkpoints
<1>6. checkpoint.count <= Len(log) /\ RecordsOf(log)[checkpoint.count].id = checkpoint.head
  BY <1>3, <1>4 DEF ContinuityOk
<1>7. log[checkpoint.count].record.id = checkpoint.head
  BY <1>1, <1>2, <1>5, <1>6
<1>8. \A i \in DOMAIN acked : \E j \in 1 .. checkpoint.count : log[j].record.id = acked[i]
  BY <1>4, <1>6, <1>7 DEF TamperInv, FilesTold, LogCovers
<1>9. 1 .. checkpoint.count \subseteq DOMAIN log
  BY <1>1, <1>5, <1>6
<1>10. QED
  BY <1>8, <1>9

\* OpenLogWriter.verify: whoever truncated the log, deleted the checkpoint, the
\* trust file or the key, whenever, and wherever writes were cut off: while verify
\* accepts the log every acknowledged record is in it.
THEOREM WriterTamperEvident == Spec => []TamperEvident
<1>1. Init => Basic /\ (~conf.adoption => TamperInv)
  <2> SUFFICES ASSUME Init PROVE Basic /\ TamperInv
    OBVIOUS
  <2>1. Basic
    BY WriterInit DEF WriterInv, Basic
  <2>2. /\ acked = <<>> /\ phase = "free" /\ checkpoint = None /\ newline = TRUE
    BY DEF Init
  <2>3. TamperInv
    BY <2>2 DEF TamperInv, FilesTold, CheckpointFresh, ReadTold, SeenBounds, LogCovers
  <2>4. QED
    BY <2>1, <2>3
<1>2. Basic /\ (~conf.adoption => TamperInv) /\ [Next]_vars =>
         (Basic /\ (~conf.adoption => TamperInv))'
  BY BasicStep, TamperStep, OptionsStay
<1>3. Basic /\ (~conf.adoption => TamperInv) => TamperEvident
  BY VerifiedHolds DEF TamperEvident
<1>4. QED
  BY <1>1, <1>2, <1>3, PTL DEF Spec
=============================================================================
