----------------------------- MODULE FunctionRuns -----------------------------
(***************************************************************************)
(* Runs of `idel run.function` over the files they share, .idel/ of one    *)
(* directory: the nonces used up and the lock held while one is added, the *)
(* store of rows, and the evidence log (cli/src/function-command.ts,       *)
(* function/src/run.ts and execute.ts).                                    *)
(*                                                                         *)
(* A run is one process.  It reads the files one after the other, decides  *)
(* on its request by what it read, uses up the nonce, carries out the      *)
(* function's steps on its copy of the rows and, when it succeeds, writes  *)
(* that copy over the store.  An action makes at most one change to a      *)
(* file, with the computing that leads to it, so that the runs interleave  *)
(* and may be killed between any two changes.  A run that is retried is    *)
(* another run with the same request.                                      *)
(***************************************************************************)
EXTENDS Integers, Sequences, FiniteSets

CONSTANTS
    Runs,       \* the processes
    Requests,   \* [nonce, single, fn, key]: what a run may be asked; key stands for the inputs
    Def         \* function |-> [grants, steps]; a grant and a step are <<kind, of>>, where of
                \* is an entity, a function or a resource

VARIABLES
    nonces,     \* the nonce file: always whole, since it is renamed into place
    lock,       \* whether the nonce file's lock file exists
    store,      \* the store file: [rows, state], state "whole", "empty" (cut) or "mixed"
    evidence,   \* the evidence file: [by, event, index, previous, hash] in order
    pc, req,    \* where each run is, and its request
    rehearsal,  \* whether it is a --dry-run
    mem,        \* its copy of the rows
    tail,       \* [index, previous] of the record it appends next
    used,       \* its copy of the nonces
    frames,     \* the function it carries out, over the one it was invoked from:
                \* [fn, at, found]
    began       \* whether it has begun to execute (history)

vars == <<nonces, lock, store, evidence, pc, req, rehearsal, mem, tail, used, frames,
          began>>
files == <<nonces, lock, store, evidence>>
own == <<req, rehearsal, mem, tail, used, frames, began>>

None == "none"

\* The assumption on the constants: requests ask for functions there are, and grants are
\* among the four kinds.
FunctionRunsAssumption ==
    /\ IsFiniteSet(Runs)
    /\ \A r \in Requests : r.fn \in DOMAIN Def /\ r.single \in BOOLEAN
    /\ \A f \in DOMAIN Def : \A s \in Def[f].grants :
         s[1] \in {"query", "insert", "evidence", "invoke"}

Init ==
    /\ nonces = {} /\ lock = FALSE
    /\ store = [rows |-> {}, state |-> "whole"]
    /\ evidence = <<>>
    /\ pc = [p \in Runs |-> "start"]
    /\ req \in [Runs -> Requests]
    /\ rehearsal \in [Runs -> BOOLEAN]
    /\ mem = [p \in Runs |-> {}]
    /\ tail = [p \in Runs |-> [index |-> 0, previous |-> None]]
    /\ used = [p \in Runs |-> {}]
    /\ frames = [p \in Runs |-> <<>>]
    /\ began = [p \in Runs |-> FALSE]

Goto(p, where) == pc' = [pc EXCEPT ![p] = where]

-----------------------------------------------------------------------------
(* Reading the files *)

\* The functions under the directory and the grants, which other programs write: what they are
\* is left open until it is used, each once in a run.  A source that cannot be loaded, or two
\* that claim one name, end the run.
Load(p) ==
    /\ pc[p] = "start"
    /\ \E to \in {"store", "failed"} : Goto(p, to)
    /\ UNCHANGED <<files, own>>

\* readJson: a file that does not parse counts as no file.
ReadStore(p) ==
    /\ pc[p] = "store"
    /\ mem' = [mem EXCEPT ![p] = IF store.state = "whole" THEN store.rows ELSE {}]
    /\ Goto(p, "evidence")
    /\ UNCHANGED <<files, req, rehearsal, tail, used, frames, began>>

\* The end of the log as the run will continue it, whatever others append.
End == [index |-> Len(evidence),
        previous |-> IF evidence = <<>> THEN None ELSE evidence[Len(evidence)].hash]

\* A dry run resolves the function and stops here.
ReadEvidence(p) ==
    /\ pc[p] = "evidence"
    /\ tail' = [tail EXCEPT ![p] = End]
    /\ Goto(p, IF rehearsal[p] THEN "done" ELSE "nonces")
    /\ UNCHANGED <<files, req, rehearsal, mem, used, frames, began>>

ReadNonces(p) ==
    /\ pc[p] = "nonces"
    /\ used' = [used EXCEPT ![p] = nonces]
    /\ Goto(p, "admit")
    /\ UNCHANGED <<files, req, rehearsal, mem, tail, frames, began>>

-----------------------------------------------------------------------------
(* Admission *)

\* FileEvidence.append: a hash stands for the record it is of.
Write(p, event) ==
    LET hash == <<p, tail[p].index, event>>
    IN /\ evidence' = Append(evidence, [by |-> p, event |-> event, index |-> tail[p].index,
                                        previous |-> tail[p].previous, hash |-> hash])
       /\ tail' = [tail EXCEPT ![p] = [index |-> @.index + 1, previous |-> hash]]

\* refuse: a receipt, and its record in the log.
Refuse(p) ==
    /\ Write(p, "refused")
    /\ Goto(p, "done")
    /\ UNCHANGED <<nonces, lock, store, req, rehearsal, mem, used, frames, began>>

Begin(p) ==
    /\ frames' = [frames EXCEPT ![p] = <<[fn |-> req[p].fn, at |-> 1, found |-> FALSE]>>]
    /\ began' = [began EXCEPT ![p] = TRUE]
    /\ Goto(p, "execute")

\* The request may be refused: the nonce was seen, it has expired, its function is not there
\* with the content it is pinned to, or the actor lacks a capability.
Admit(p) ==
    /\ pc[p] = "admit"
    /\ \/ Refuse(p)
       \/ /\ ~(req[p].single /\ req[p].nonce \in used[p])
          /\ IF req[p].single
               THEN Goto(p, "lock") /\ UNCHANGED <<frames, began>>
               ELSE Begin(p)
          /\ UNCHANGED <<files, req, rehearsal, mem, tail, used>>

\* consume, 1: the lock file is made, or its being there already is an error that ends the
\* run, with neither receipt nor record.
Lock(p) ==
    /\ pc[p] = "lock"
    /\ lock' = TRUE
    /\ Goto(p, IF lock THEN "failed" ELSE "consume")
    /\ UNCHANGED <<nonces, store, evidence, own>>

\* Mistake: the copy of the nonces read at the start decides.
Spent_Snapshot(p) == req[p].nonce \in used[p]

\* What decides is the file as it is now, not the copy read at the start.
Spent(p) == req[p].nonce \in nonces

\* consume, 2: the nonces read again, and a new file written aside.
Reread(p) ==
    /\ pc[p] = "consume"
    /\ used' = [used EXCEPT ![p] = IF Spent(p) THEN @ \cup {req[p].nonce}
                                    ELSE nonces \cup {req[p].nonce}]
    /\ Goto(p, IF Spent(p) THEN "decline" ELSE "rename")
    /\ UNCHANGED <<files, req, rehearsal, mem, tail, frames, began>>

\* consume, 3: the new file takes the place of the old.
Rename(p) ==
    /\ pc[p] = "rename"
    /\ nonces' = used[p]
    /\ Goto(p, "consumed")
    /\ UNCHANGED <<lock, store, evidence, own>>

\* consume, 4: the lock file is removed.
Unlock(p) ==
    /\ pc[p] \in {"decline", "consumed"}
    /\ lock' = FALSE
    /\ IF pc[p] = "consumed"
         THEN Begin(p)
         ELSE Goto(p, "replayed") /\ UNCHANGED <<frames, began>>
    /\ UNCHANGED <<nonces, store, evidence, req, rehearsal, mem, tail, used>>

Replayed(p) == pc[p] = "replayed" /\ Refuse(p)

-----------------------------------------------------------------------------
(* Execution *)

Top(p) == frames[p][Len(frames[p])]
Steps(p) == Def[Top(p).fn].steps
Step(p) == Steps(p)[Top(p).at]
At(p, kind) ==
    /\ pc[p] = "execute"
    /\ Top(p).at <= Len(Steps(p))
    /\ Step(p)[1] = kind
\* A step reaches what the function it belongs to was granted, and nothing else.
Granted(p) == Step(p) \in Def[Top(p).fn].grants
Advanced(fs) == [fs EXCEPT ![Len(fs)].at = @ + 1]
Advance(p) == frames' = [frames EXCEPT ![p] = Advanced(@)]

Query(p) ==
    /\ At(p, "query") /\ Granted(p)
    /\ frames' = [frames EXCEPT ![p] = Advanced([@ EXCEPT ![Len(@)].found =
                    \E r \in mem[p] : r.entity = Step(p)[2] /\ r.key = req[p].key])]
    /\ UNCHANGED <<files, pc, req, rehearsal, mem, tail, used, began>>

Insert(p) ==
    /\ At(p, "insert") /\ Granted(p)
    /\ mem' = [mem EXCEPT ![p] = @ \cup {[entity |-> Step(p)[2], key |-> req[p].key, by |-> p]}]
    /\ Advance(p)
    /\ UNCHANGED <<files, pc, req, rehearsal, tail, used, began>>

\* A guard asks that the query before it found nothing.
Guard(p) ==
    /\ At(p, "guard") /\ ~Top(p).found
    /\ Advance(p)
    /\ UNCHANGED <<files, pc, req, rehearsal, mem, tail, used, began>>

AppendEvidence(p) ==
    /\ At(p, "evidence") /\ Granted(p)
    /\ Write(p, "event")
    /\ Advance(p)
    /\ UNCHANGED <<nonces, lock, store, pc, req, rehearsal, mem, used, began>>

\* A function that is invoked works on the same rows, and cannot invoke another.  That its
\* content is not the pinned one is an error, not a refusal: nothing is recorded.
Invoke(p) ==
    /\ At(p, "invoke") /\ Granted(p) /\ Len(frames[p]) = 1
    /\ \/ /\ frames' = [frames EXCEPT ![p] =
                            Append(@, [fn |-> Step(p)[2], at |-> 1, found |-> FALSE])]
          /\ UNCHANGED pc
       \/ Goto(p, "failed") /\ UNCHANGED frames
    /\ UNCHANGED <<files, req, rehearsal, mem, tail, used, began>>

\* Return from a function that was invoked, to the step after.
Return(p) ==
    /\ At(p, "return") /\ Len(frames[p]) > 1
    /\ frames' = [frames EXCEPT ![p] = Advanced(SubSeq(@, 1, Len(@) - 1))]
    /\ UNCHANGED <<files, pc, req, rehearsal, mem, tail, used, began>>

\* Return from the function asked for: the run has succeeded, and that is recorded before the
\* rows are written.
Succeed(p) ==
    /\ At(p, "return") /\ Len(frames[p]) = 1
    /\ Write(p, "executed")
    /\ Goto(p, "write")
    /\ UNCHANGED <<nonces, lock, store, req, rehearsal, mem, used, frames, began>>

\* Mistake: the rows are written whatever the outcome.
Refused_Stored(p) ==
    /\ pc[p] = "execute"
    /\ Write(p, "refused")
    /\ Goto(p, "write")
    /\ UNCHANGED <<nonces, lock, store, req, rehearsal, mem, used, frames, began>>

\* Any step may be refused: its time is up, its effect is not granted, its guard does not
\* hold, an input or an output is not as declared; or there is no step left.
Refused(p) == pc[p] = "execute" /\ Refuse(p)

-----------------------------------------------------------------------------
(* Writing the rows *)

\* writeJson cuts the file to nothing ...
Truncate(p) ==
    /\ pc[p] = "write"
    /\ store' = [rows |-> {}, state |-> "empty"]
    /\ Goto(p, "fill")
    /\ UNCHANGED <<nonces, lock, evidence, own>>

\* ... and writes from its start: over what another run wrote since, if that is longer, it
\* leaves the end of it.
Fill(p) ==
    /\ pc[p] = "fill"
    /\ \/ store' = [rows |-> mem[p], state |-> "whole"]
       \/ store.state # "empty" /\ store' = [rows |-> {}, state |-> "mixed"]
    /\ Goto(p, "done")
    /\ UNCHANGED <<nonces, lock, evidence, own>>

\* The process is killed.
Crash(p) ==
    /\ pc[p] \notin {"start", "done", "failed"}
    /\ Goto(p, "failed")
    /\ UNCHANGED <<files, own>>

-----------------------------------------------------------------------------
Run(p) ==
    \/ Load(p) \/ ReadStore(p) \/ ReadEvidence(p) \/ ReadNonces(p)
    \/ Admit(p) \/ Lock(p) \/ Reread(p) \/ Rename(p) \/ Unlock(p) \/ Replayed(p)
    \/ Query(p) \/ Insert(p) \/ Guard(p) \/ AppendEvidence(p) \/ Invoke(p) \/ Return(p)
    \/ Succeed(p) \/ Refused(p)
    \/ Truncate(p) \/ Fill(p)

Next == \E p \in Runs : Run(p) \/ Crash(p)

Spec == Init /\ [][Next]_vars

-----------------------------------------------------------------------------
(* The invariant the two properties that follow rest on *)

\* From the making of the lock file to its removal a run is alone, and decides on the nonces
\* as they are: what it takes for unused is unused, and the new file is the old one and one
\* more.  A run that was killed here leaves the lock file, and nobody is in any more.
Holding == {"consume", "rename", "decline", "consumed"}
Paid(p) == began[p] \/ pc[p] = "consumed"
AdmissionInv ==
    /\ \A p \in Runs : pc[p] \in Holding => lock
    /\ \A p, q \in Runs : pc[p] \in Holding /\ pc[q] \in Holding => p = q
    /\ \A p \in Runs : pc[p] \in Holding \cup {"lock"} => req[p].single
    /\ \A p \in Runs : pc[p] = "rename" =>
         req[p].nonce \notin nonces /\ used[p] = nonces \cup {req[p].nonce}
    /\ \A p \in Runs : Paid(p) /\ req[p].single => req[p].nonce \in nonces
    /\ \A p, q \in Runs : p # q /\ Paid(p) /\ Paid(q) /\ req[p].single /\ req[q].single =>
         req[p].nonce # req[q].nonce

\* A row is in a copy because its run put it there or because it was stored, and a run that
\* writes, or has written, its copy has been recorded as executed.
Executed(p) == \E i \in DOMAIN evidence : evidence[i].by = p /\ evidence[i].event = "executed"
RowsInv ==
    /\ \A p \in Runs : pc[p] \in {"write", "fill"} => Executed(p)
    /\ \A r \in store.rows : Executed(r.by)
    /\ \A p \in Runs : \A r \in mem[p] : r.by = p \/ Executed(r.by)

-----------------------------------------------------------------------------
(* Properties *)

\* However many runs of a single-use request there are, together, one after the other, killed
\* and retried, one of them at most gets to the function: the decision is made under the lock
\* on the nonces as they are (FileNonceStore.consume, runRequest).
OncePerNonce ==
    \A p, q \in Runs :
      /\ p # q /\ began[p] /\ began[q]
      /\ req[p].single /\ req[q].single
      => req[p].nonce # req[q].nonce

\* Every row the store has, or may get from a run that is about to write it, comes from a run
\* the evidence has as executed: a refusal after an insert, or a crash, leaves no row behind
\* (runFunction writes on success only, after runRequest's audit record).
StoredIsAudited ==
    \A r \in store.rows \cup UNION {mem[p] : p \in {q \in Runs : pc[q] \in {"write", "fill"}}} :
      Executed(r.by)

\* The evidence is one chain, however many runs append to it, as function-command.ts has it:
\* "the **evidence log is hash-chained across runs**, continuing the chain from the last
\* record on disk".
EvidenceIsOneChain ==
    \A i \in DOMAIN evidence :
      /\ evidence[i].index = i - 1
      /\ evidence[i].previous = IF i = 1 THEN None ELSE evidence[i - 1].hash

=============================================================================
