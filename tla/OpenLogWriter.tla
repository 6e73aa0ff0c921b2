---------------------------- MODULE OpenLogWriter ----------------------------
(***************************************************************************)
(* OpenLogWriter (packages/openlogs/src/writer.ts, keys.ts): the signed    *)
(* hash-chained log, its signing key, verifier trust file and continuity   *)
(* checkpoint, appended to by several processes that crash and restart.    *)
(*                                                                         *)
(* The append lock is the abstract one AppendLock is shown to implement:   *)
(* holder is the process whose append is inside.  verify and assertReady   *)
(* change none of this state; they are the predicates VerifyOk and ReadyOk *)
(* of a moment at which the lock is free.                                  *)
(*                                                                         *)
(* A record is its identity (which stands for its hash), the identity it   *)
(* links to, and the key that signed it.  A line of the file holds a whole *)
(* record, a record cut short by a torn write, or two records run together.*)
(***************************************************************************)
EXTENDS Integers, Sequences, FiniteSets

CONSTANTS
    Procs,          \* processes that write the log
    Kids,           \* signing keys that can come to exist
    Configs,        \* constructor options a run may use
    Actors,         \* whether an appended record's actor is bound to the key
    Tails,          \* what a write interrupted before its fsync may leave
    Damages,        \* what somebody else may do to the files
    IoFaults,       \* TRUE: a write of the writer may fail
    MaxAppends, MaxCrashes, MaxDamages,     \* bounds
    None

ASSUME OpenLogWriterAssumption ==
    /\ Configs \subseteq [trustedKeys : {None} \cup SUBSET Kids,
                          bootstrap : BOOLEAN, adoption : BOOLEAN]
    /\ Actors \subseteq BOOLEAN
    /\ Tails \subseteq {"none", "cut", "bare", "full"}
    /\ Damages \subseteq {"truncate", "checkpoint", "trust", "key"}
    /\ IoFaults \in BOOLEAN
    /\ MaxAppends \in Nat /\ MaxCrashes \in Nat /\ MaxDamages \in Nat
    /\ None \notin Procs \cup Kids
    /\ \A keys \in SUBSET Kids : keys # None
    /\ None \notin [count : Nat \ {0}, head : 1 .. MaxAppends, kid : Kids]
    /\ "torn" \notin Kids \cup {None}

VARIABLES
    conf,           \* the writer's options; constant
    log,            \* the lines of the log file
    newline,        \* the file ends in a newline
    keyFile,        \* the signing key, None, or "torn": created but not filled
    trust,          \* the trust file's keys, or None
    checkpoint,     \* the continuity checkpoint, or None
    holder,         \* the process inside the append lock, or None
    phase,          \* where the holder's append is
    mem,            \* what it has read: records, key, checkpoint, trust
    queue,          \* the appends each process has accepted, the head running
    acked,          \* the appends that resolved, in that order
    nextId,         \* the identity of the next append
    crashes, damages

disk == <<log, newline, keyFile, trust, checkpoint>>
vars == <<conf, disk, holder, phase, mem, queue, acked, nextId, crashes, damages>>

Ids == 1 .. MaxAppends
Records == [id : Ids, prev : 0 .. MaxAppends, kid : Kids]
Lines == [record : Records, form : {"whole", "cut", "glued"}]
Checkpoints == [count : Nat \ {0}, head : Ids, kid : Kids]
Requests == [id : Ids, bound : BOOLEAN]
Phases == {"free", "read", "key", "fill", "trust", "check", "write",
           "checkpoint", "settle"}
NoMem == [seen |-> <<>>, kid |-> None, cp |-> None, trusted |-> {}]

Init ==
    /\ conf \in Configs
    /\ log = <<>> /\ newline = TRUE
    /\ keyFile \in IF conf.trustedKeys = None THEN {None} ELSE conf.trustedKeys
    /\ trust = None /\ checkpoint = None
    /\ holder = None /\ phase = "free" /\ mem = NoMem
    /\ queue = [p \in Procs |-> <<>>]
    /\ acked = <<>>
    /\ nextId = 1
    /\ crashes = 0 /\ damages = 0

-----------------------------------------------------------------------------
(* What the code concludes from the files. *)

\* readStrict meets a line that is no signed record.
Malformed(lines) == \E i \in DOMAIN lines : lines[i].form # "whole"

RecordsOf(lines) == [i \in DOMAIN lines |-> lines[i].record]

HeadOf(records) == IF records = <<>> THEN 0 ELSE records[Len(records)].id

\* verifyV2Chain: linked from the first record on, every signer trusted.
ChainOk(records, keys) ==
    \A i \in DOMAIN records :
        /\ records[i].prev = IF i = 1 THEN 0 ELSE records[i - 1].id
        /\ records[i].kid \in keys

\* Mistake: the checkpoint must be the very end of the log.
ContinuityOk_AtEnd(records, cp, keys) ==
    /\ cp.kid \in keys
    /\ cp.count = Len(records)
    /\ records[cp.count].id = cp.head

\* checkContinuity: trusted key, no truncation, no rewrite, no other signer.
ContinuityOk(records, cp, keys) ==
    /\ cp.kid \in keys
    /\ cp.count <= Len(records)
    /\ records[cp.count].id = cp.head
    /\ \A i \in DOMAIN records : records[i].kid = cp.kid

Local == conf.trustedKeys = None

\* The pinned verifier keys an append or assertReady finds, or None.
Pinned == IF Local THEN trust ELSE conf.trustedKeys

\* Mistake: an empty log without a checkpoint always counts as a new one.
EvidenceGone_Never(records, cp) == FALSE

\* The log and its checkpoint disappeared while the local trust file remained.
EvidenceGone(records, cp) ==
    /\ Local /\ trust # None
    /\ cp = None
    /\ records = <<>>
    /\ ~conf.adoption

\* loadTrustForAppend, nothing pinned: may the writer pin its own key?
MayPin(records, cp) ==
    /\ cp = None
    /\ conf.bootstrap
    /\ records = <<>> \/ conf.adoption

\* assertContinuity.
ContinuityAllows(records, cp, kid, keys) ==
    IF cp = None
    THEN records = <<>> \/ conf.adoption
    ELSE ContinuityOk(records, cp, keys) /\ cp.kid = kid

-----------------------------------------------------------------------------
(* One append: appendLocked inside withAppendLock. *)

Request == Head(queue[holder])

At(p, ph) == holder = p /\ phase = ph

\* Leave the lock; the promise at the head of the queue settles.
Release(p) ==
    /\ holder' = None /\ phase' = "free" /\ mem' = NoMem
    /\ queue' = [queue EXCEPT ![p] = Tail(@)]

Stay == UNCHANGED <<conf, nextId, crashes, damages>>

\* append() chains the call behind the process's earlier ones.
Call(p, b) ==
    /\ nextId <= MaxAppends
    /\ queue' = [queue EXCEPT ![p] = Append(@, [id |-> nextId, bound |-> b])]
    /\ nextId' = nextId + 1
    /\ UNCHANGED <<conf, disk, holder, phase, mem, acked, crashes, damages>>

Enter(p) ==
    /\ holder = None
    /\ queue[p] # <<>>
    /\ holder' = p /\ phase' = "read"
    /\ UNCHANGED <<disk, mem, queue, acked>> /\ Stay

\* withAppendLock gives up after lockWaitMs; the queue goes on.
TimeOut(p) ==
    /\ holder \notin {None, p}
    /\ queue[p] # <<>>
    /\ queue' = [queue EXCEPT ![p] = Tail(@)]
    /\ UNCHANGED <<disk, holder, phase, mem, acked>> /\ Stay

\* Mistake: a failed append does not release the lock.
Refuse_KeepsLock(p) ==
    /\ phase' = "free" /\ mem' = NoMem
    /\ queue' = [queue EXCEPT ![p] = Tail(@)]
    /\ UNCHANGED <<disk, holder, acked>> /\ Stay

\* The append throws: nothing more is written.
Refuse(p) == Release(p) /\ UNCHANGED <<disk, acked>> /\ Stay

\* Mistake: lines that are no records are skipped, as the lenient reader does.
ReadLog_Lenient(p) ==
    /\ At(p, "read")
    /\ phase' = "key"
    /\ mem' = [mem EXCEPT !.seen = RecordsOf(log)]
    /\ UNCHANGED <<disk, holder, queue, acked>> /\ Stay

\* readStrict.
ReadLog(p) ==
    /\ At(p, "read")
    /\ ~Malformed(log)
    /\ phase' = "key"
    /\ mem' = [mem EXCEPT !.seen = RecordsOf(log)]
    /\ UNCHANGED <<disk, holder, queue, acked>> /\ Stay

RefuseMalformed(p) == At(p, "read") /\ Malformed(log) /\ Refuse(p)

\* loadOrCreateKeypair finds a key.
LoadKey(p) ==
    /\ At(p, "key")
    /\ keyFile \in Kids
    /\ phase' = "trust"
    /\ mem' = [mem EXCEPT !.kid = keyFile, !.cp = checkpoint]
    /\ UNCHANGED <<disk, holder, queue, acked>> /\ Stay

RefuseKey(p) == At(p, "key") /\ keyFile = "torn" /\ Refuse(p)

\* It finds none: open(path, "wx") ...
CreateKey(p) ==
    /\ At(p, "key")
    /\ keyFile = None
    /\ keyFile' = "torn"
    /\ phase' = "fill"
    /\ UNCHANGED <<log, newline, trust, checkpoint, holder, mem, queue, acked>> /\ Stay

\* A new key is none of those the files or the options name.
KnownKids ==
    {log[i].record.kid : i \in DOMAIN log}
    \cup (IF checkpoint = None THEN {} ELSE {checkpoint.kid})
    \cup (IF Pinned = None THEN {} ELSE Pinned)

\* ... then the key pair is written into it.
FillKey(p) ==
    /\ At(p, "fill")
    /\ \E k \in Kids \ KnownKids :
          /\ keyFile' = k
          /\ mem' = [mem EXCEPT !.kid = k, !.cp = checkpoint]
    /\ phase' = "trust"
    /\ UNCHANGED <<log, newline, trust, checkpoint, holder, queue, acked>> /\ Stay

\* loadTrustForAppend with keys pinned, the signer's among them.
LoadTrust(p) ==
    /\ At(p, "trust")
    /\ ~EvidenceGone(mem.seen, mem.cp)
    /\ Pinned # None
    /\ mem.kid \in Pinned
    /\ phase' = "check"
    /\ mem' = [mem EXCEPT !.trusted = Pinned]
    /\ UNCHANGED <<disk, holder, queue, acked>> /\ Stay

\* loadTrustForAppend pins the writer's own key, before anything is logged.
PinKey(p) ==
    /\ At(p, "trust")
    /\ Pinned = None
    /\ MayPin(mem.seen, mem.cp)
    /\ trust' = {mem.kid}
    /\ phase' = "check"
    /\ mem' = [mem EXCEPT !.trusted = {mem.kid}]
    /\ UNCHANGED <<log, newline, keyFile, checkpoint, holder, queue, acked>> /\ Stay

RefuseTrust(p) ==
    /\ At(p, "trust")
    /\ \/ EvidenceGone(mem.seen, mem.cp)
       \/ Pinned # None /\ mem.kid \notin Pinned
       \/ Pinned = None /\ ~MayPin(mem.seen, mem.cp)
    /\ Refuse(p)

\* assertContinuity, then the existing chain and the candidate verify.
Acceptable(bound) ==
    /\ ContinuityAllows(mem.seen, mem.cp, mem.kid, mem.trusted)
    /\ ChainOk(mem.seen, mem.trusted)
    /\ bound

Check(p) ==
    /\ At(p, "check")
    /\ Acceptable(Request.bound)
    /\ phase' = "write"
    /\ UNCHANGED <<disk, holder, mem, queue, acked>> /\ Stay

RefuseCheck(p) == At(p, "check") /\ ~Acceptable(Request.bound) /\ Refuse(p)

\* The file after a write of r's line of which only a part arrived: nothing, a
\* piece ("cut"), everything but the newline ("bare") or all of it ("full").
\* What is written behind a missing newline lands on the line before it.
Written(r, tail) ==
    IF tail = "none" THEN log
    ELSE IF ~newline THEN [log EXCEPT ![Len(log)].form = "glued"]
    ELSE Append(log, [record |-> r, form |-> IF tail = "cut" THEN "cut" ELSE "whole"])

NewlineAfter(tail) ==
    CASE tail = "none" -> newline
      [] tail = "full" -> TRUE
      [] OTHER         -> FALSE

NewRecord == [id |-> Request.id, prev |-> HeadOf(mem.seen), kid |-> mem.kid]

\* Mistake: the file is opened for writing instead of appending.
WriteLine_Truncates(p) ==
    /\ At(p, "write")
    /\ log' = <<[record |-> NewRecord, form |-> "whole"]>>
    /\ newline' = TRUE
    /\ phase' = "checkpoint"
    /\ UNCHANGED <<keyFile, trust, checkpoint, holder, mem, queue, acked>> /\ Stay

\* The line is appended and fsynced.
WriteLine(p) ==
    /\ At(p, "write")
    /\ log' = Written(NewRecord, "full")
    /\ newline' = TRUE
    /\ phase' = "checkpoint"
    /\ UNCHANGED <<keyFile, trust, checkpoint, holder, mem, queue, acked>> /\ Stay

\* writeContinuity replaces the checkpoint atomically.
WriteContinuity(p) ==
    /\ At(p, "checkpoint")
    /\ checkpoint' = [count |-> Len(mem.seen) + 1, head |-> Request.id, kid |-> mem.kid]
    /\ phase' = "settle"
    /\ UNCHANGED <<log, newline, keyFile, trust, holder, mem, queue, acked>> /\ Stay

\* All evidence of a history is gone: nothing distinguishes the files from those
\* of a log that was never used, or was archived to start another.
Archived == log = <<>> /\ checkpoint = None /\ (trust = None \/ ~Local)

\* The lock is released and append() resolves.
Settle(p) ==
    /\ At(p, "settle")
    /\ acked' = IF damages > 0 /\ Archived THEN <<>> ELSE Append(acked, Request.id)
    /\ Release(p)
    /\ UNCHANGED disk /\ Stay

\* A write fails: the error path unlinks a half-made key and leaves a half-made
\* line.
IoFault(p) ==
    /\ IoFaults
    /\ holder = p
    /\ \/ phase \in {"read", "key", "trust", "checkpoint"} /\ UNCHANGED disk
       \/ /\ phase = "fill"
          /\ keyFile' = None
          /\ UNCHANGED <<log, newline, trust, checkpoint>>
       \/ /\ phase = "write"
          /\ \E t \in Tails : log' = Written(NewRecord, t) /\ newline' = NewlineAfter(t)
          /\ UNCHANGED <<keyFile, trust, checkpoint>>
    /\ Release(p)
    /\ UNCHANGED acked /\ Stay

\* The process dies, perhaps in the middle of the write; its lock is reclaimed
\* and it starts again with an empty queue.
Crash(p) ==
    /\ crashes < MaxCrashes
    /\ crashes' = crashes + 1
    /\ queue' = [queue EXCEPT ![p] = <<>>]
    /\ IF holder = p
       THEN /\ holder' = None /\ phase' = "free" /\ mem' = NoMem
            /\ IF phase = "write"
               THEN \E t \in Tails : log' = Written(NewRecord, t) /\ newline' = NewlineAfter(t)
               ELSE UNCHANGED <<log, newline>>
       ELSE UNCHANGED <<holder, phase, mem, log, newline>>
    /\ UNCHANGED <<conf, keyFile, trust, checkpoint, acked, nextId, damages>>

\* Somebody else truncates or deletes a file.  With the last of the evidence goes
\* what was acknowledged: acked speaks of the history the files belong to.
Damage ==
    /\ damages < MaxDamages
    /\ damages' = damages + 1
    /\ \/ /\ "truncate" \in Damages
          /\ \E n \in 0 .. Len(log) - 1 : log' = SubSeq(log, 1, n)
          /\ newline' = TRUE
          /\ UNCHANGED <<keyFile, trust, checkpoint>>
       \/ /\ "checkpoint" \in Damages /\ checkpoint # None
          /\ checkpoint' = None
          /\ UNCHANGED <<log, newline, keyFile, trust>>
       \/ /\ "trust" \in Damages /\ trust # None
          /\ trust' = None
          /\ UNCHANGED <<log, newline, keyFile, checkpoint>>
       \/ /\ "key" \in Damages /\ keyFile # None
          /\ keyFile' = None
          /\ UNCHANGED <<log, newline, trust, checkpoint>>
    /\ UNCHANGED <<conf, holder, phase, mem, queue, nextId, crashes>>
    /\ acked' = IF Archived' THEN <<>> ELSE acked

\* The steps of one append, in the order of the code.
Step(p) ==
    \/ Enter(p) \/ TimeOut(p)
    \/ ReadLog(p) \/ RefuseMalformed(p)
    \/ LoadKey(p) \/ RefuseKey(p) \/ CreateKey(p) \/ FillKey(p)
    \/ LoadTrust(p) \/ PinKey(p) \/ RefuseTrust(p)
    \/ Check(p) \/ RefuseCheck(p)
    \/ WriteLine(p) \/ WriteContinuity(p) \/ Settle(p)

Next ==
    \/ \E p \in Procs : Step(p) \/ IoFault(p) \/ Crash(p) \/ \E b \in Actors : Call(p, b)
    \/ Damage

Spec == Init /\ [][Next]_vars

\* Live processes run their steps.
FairSpec == Spec /\ \A p \in Procs : WF_vars(Step(p))

-----------------------------------------------------------------------------
TypeOK ==
    /\ conf \in Configs
    /\ log \in Seq(Lines) /\ newline \in BOOLEAN
    /\ keyFile \in Kids \cup {None, "torn"}
    /\ trust \in {None} \cup SUBSET Kids
    /\ checkpoint \in Checkpoints \cup {None}
    /\ holder \in Procs \cup {None} /\ phase \in Phases
    /\ mem \in [seen : Seq(Records), kid : Kids \cup {None},
                cp : Checkpoints \cup {None}, trusted : SUBSET Kids]
    /\ queue \in [Procs -> Seq(Requests)]
    /\ acked \in Seq(Ids)
    /\ nextId \in 1 .. MaxAppends + 1
    /\ crashes \in 0 .. MaxCrashes /\ damages \in 0 .. MaxDamages

\* The lock is held by a process whose queue has a running head, or free; past
\* loadOrCreateKeypair the append has a key.
LockShape ==
    /\ holder = None <=> phase = "free"
    /\ holder # None => queue[holder] # <<>>
    /\ phase \in {"trust", "check", "write", "checkpoint"} => mem.kid \in Kids

\* Identities are given once: those in the queues, in the log and among the
\* acknowledged are older than nextId and the queued ones are queued once.
QueueIds ==
    /\ \A p \in Procs : \A i \in DOMAIN queue[p] : queue[p][i].id < nextId
    /\ \A p, q \in Procs : \A i \in DOMAIN queue[p], j \in DOMAIN queue[q] :
          queue[p][i].id = queue[q][j].id => p = q /\ i = j

\* Only the last line can be damaged, and then nothing is written behind it.  A line
\* without its newline is the last, and nobody was told that its record is there.
TornAtEnd ==
    /\ \A i \in DOMAIN log : log[i].form # "whole" => i = Len(log)
    /\ phase \notin {"free", "read"} => ~Malformed(log)
    /\ ~newline =>
          /\ log # <<>> /\ phase \notin {"checkpoint", "settle"}
          /\ \A i \in DOMAIN acked : acked[i] # log[Len(log)].record.id

\* A record is in the log once; a queued one is not, but for the running head
\* between its write and its release.
LogIds ==
    /\ \A i, j \in DOMAIN log : log[i].record.id = log[j].record.id => i = j
    /\ \A i \in DOMAIN log : log[i].record.id < nextId
    /\ \A p \in Procs : \A i \in DOMAIN queue[p], j \in DOMAIN log :
          queue[p][i].id = log[j].record.id =>
             /\ p = holder /\ i = 1
             /\ phase \in {"checkpoint", "settle"}

\* The holder works with the log as it is.
SeenIsLog ==
    /\ phase \in {"key", "fill", "trust", "check", "write"} => Len(mem.seen) = Len(log)
    /\ phase \in {"checkpoint", "settle"} =>
          /\ Len(log) = Len(mem.seen) + 1
          /\ log[Len(log)].record.id = Head(queue[holder]).id

\* The checkpoint names a record that is durable at its place in the log.
CheckpointNamesRecord ==
    checkpoint # None =>
        /\ checkpoint.count <= Len(log)
        /\ log[checkpoint.count].record.id = checkpoint.head
        /\ log[checkpoint.count].form = "whole"

\* What was acknowledged is in the log, whole, and no longer queued.
AckedInLog ==
    /\ \A i \in DOMAIN acked : \E j \in DOMAIN log :
          log[j].record.id = acked[i] /\ log[j].form = "whole"
    /\ \A i \in DOMAIN acked, p \in Procs : \A j \in DOMAIN queue[p] :
          queue[p][j].id # acked[i]

\* What the writers maintain as long as nobody else touches the files and no record has
\* run into one that lost its newline.
IntactInv == TornAtEnd /\ LogIds /\ SeenIsLog /\ CheckpointNamesRecord /\ AckedInLog

\* A record was written behind one that had lost its newline: they share the last line.
RunTogether == \E i \in DOMAIN log : log[i].form = "glued"

\* What they maintain even then: the line they share is the last for good, everything
\* before it is whole, and of what was acknowledged at most the last is lost with it: the
\* record whose own append wrote on that line.
SpoiltInv ==
    /\ \A i \in DOMAIN log : log[i].form = "whole" <=> i # Len(log)
    /\ phase \in {"free", "read", "checkpoint", "settle"}
    /\ phase \in {"checkpoint", "settle"} =>
          \A i \in DOMAIN log : log[i].record.id # Head(queue[holder]).id
    /\ \A i \in DOMAIN acked :
          \/ \E j \in DOMAIN log : log[j].record.id = acked[i] /\ log[j].form = "whole"
          \/ i = Len(acked) /\ phase \in {"free", "read"}

\* While nobody else touches the files a record that was acknowledged is in the log,
\* whole and once, and the checkpoint names a record at its place; all that can go wrong
\* is a lost newline, which spoils the last record and the next (appendLocked).
WriterInv ==
    /\ TypeOK /\ LockShape /\ QueueIds
    /\ damages = 0 => IF RunTogether THEN SpoiltInv ELSE IntactInv

\* What verify() reports of the files.
VerifyOk ==
    LET records == RecordsOf(log) IN
    /\ ~Malformed(log)
    /\ Pinned \notin {None, {}}
    /\ checkpoint # None
    /\ ChainOk(records, Pinned)
    /\ ContinuityOk(records, checkpoint, Pinned)

\* Mistake: a missing checkpoint only matters when there are records.
ReadyOk_NoCheckpoint ==
    LET records == RecordsOf(log) IN
    /\ ~Malformed(log)
    /\ IF Pinned = None
       THEN MayPin(records, checkpoint)
       ELSE /\ Pinned # {}
            /\ IF checkpoint = None
               THEN conf.adoption \/ records = <<>>
               ELSE ContinuityOk(records, checkpoint, Pinned)
            /\ ChainOk(records, Pinned)

\* What assertReady() accepts.
ReadyOk ==
    LET records == RecordsOf(log) IN
    /\ ~Malformed(log)
    /\ IF Pinned = None
       THEN MayPin(records, checkpoint)
       ELSE /\ Pinned # {}
            /\ IF checkpoint = None
               THEN conf.adoption \/ (records = <<>> /\ ~Local)
               ELSE ContinuityOk(records, checkpoint, Pinned)
            /\ ChainOk(records, Pinned)

\* What an append with a bound actor would do next, started now: all the checks
\* between readStrict and the write.  A missing key is a new one, None here.
WouldAccept ==
    LET records == RecordsOf(log)
        keys == IF Pinned = None THEN {keyFile} ELSE Pinned
    IN  /\ ~Malformed(log)
        /\ keyFile # "torn"
        /\ ~EvidenceGone(records, checkpoint)
        /\ IF Pinned = None THEN MayPin(records, checkpoint) ELSE keyFile \in Pinned
        /\ ContinuityAllows(records, checkpoint, keyFile, keys)
        /\ ChainOk(records, keys)

\* The lock is free: what verify and assertReady can observe.
Quiet == phase = "free"

\* Once the checkpoint exists, no crash or failed write makes the log unusable,
\* short of a torn line: it verifies and the next append goes through.  In
\* particular a record that is ahead of its checkpoint is adopted.
EstablishedStaysUsable ==
    Quiet /\ damages = 0 /\ checkpoint # None /\ ~Malformed(log)
        => VerifyOk /\ WouldAccept

\* Truncation, deletion of the checkpoint or of the trust file cannot hide an
\* acknowledged record: while verify() accepts the log all of them are in it.
TamperEvident ==
    VerifyOk /\ ~conf.adoption
        => \A i \in DOMAIN acked : \E j \in DOMAIN log : log[j].record.id = acked[i]

\* The signing key is one the log can go on with.
KeyFits ==
    /\ keyFile # "torn"
    /\ Pinned # None => keyFile \in Pinned
    /\ checkpoint # None => keyFile = checkpoint.kid

\* assertReady is the check before execution: it lets every command through whose
\* outcome could be logged, and when it passes only the signing key, which it does
\* not look at, can make the append refuse.
ReadyMatchesAppend ==
    Quiet /\ ~conf.adoption =>
        /\ WouldAccept => ReadyOk
        /\ ReadyOk /\ KeyFits => WouldAccept

\* The key, the trust file and the checkpoint of a new log appear together: when
\* no append runs either all exist or none.
FirstUseTogether ==
    Quiet /\ damages = 0 /\ Local => (trust # None <=> checkpoint # None)

\* The durable entries: what the whole lines hold.
Entries ==
    [i \in 1 .. Len(log) - (IF Malformed(log) THEN 1 ELSE 0) |-> log[i].record.id]

Audit == INSTANCE AuditLog
    WITH entries <- Entries, merged <- RunTogether, intact <- damages = 0
AuditSpec == Audit!Spec

\* Every append settles, behind a failed one too, unless its process dies.
EveryAppendSettles ==
    \A id \in Ids, p \in Procs :
        (\E i \in DOMAIN queue[p] : queue[p][i].id = id)
            ~> ~(\E i \in DOMAIN queue[p] : queue[p][i].id = id)
=============================================================================
