----------------------------- MODULE Server_proofs -----------------------------
(***************************************************************************)
(* Proofs about Server, for any number of streams, runs and commands, and  *)
(* for tables of any size: an approval is settled once and lets the        *)
(* command it was asked about act once; batches stop where they fail; and  *)
(* the server's two tables implement the approvals of Approval.            *)
(***************************************************************************)
EXTENDS Server, FiniteSetTheorems, SequenceTheorems, TLAPS

CallRecords == [call : Calls, command : Commands]
Requests == [id : Ids, command : Commands, dryRun : BOOLEAN]
Outcomes == {"success", "failed", "dry_run", "blocked", "approval_required"}

Inv == ServerInv /\ ApprovedAsShown /\ BatchInOrder

LEMMA Start == Init => Inv
<1> SUFFICES ASSUME Init PROVE Inv
  OBVIOUS
<1> USE ServerAssumption DEF Init, ServerAssumption
<1>1. TypeOK
  <2>1. IsFiniteSet(effects)
    BY FS_EmptySet
  <2>2. IdsOf(pending) = {}
    BY DEF IdsOf
  <2> QED
    BY <2>1, <2>2 DEF TypeOK, StagesTyped, HandlersTyped, ApprovalsTyped, EffectsTyped, Handlers
<1>2. TablesAgree
  BY DEF TablesAgree, Handlers
<1>3. UnusedIds
  BY DEF UnusedIds
<1>4. AskedOfRun
  BY DEF AskedOfRun
<1>5. ASSUME NEW s \in Streams PROVE Proceeding(s) /\ AskedOfAgent(s)
  <2>1. 0 * MaxCalls = 0
    OBVIOUS
  <2> QED
    BY <2>1 DEF Proceeding, AskedOfAgent, Outstanding, Handlers
<1>6. ASSUME NEW r \in Runs PROVE Behind(r)
  BY DEF Behind, Handlers
<1>7. ApprovedAsShown /\ BatchInOrder
  BY DEF ApprovedAsShown, BatchInOrder
<1> QED
  BY <1>1, <1>2, <1>3, <1>4, <1>5, <1>6, <1>7 DEF Inv, ServerInv

-----------------------------------------------------------------------------
(* What the helpers do.                                                    *)

Stages == {"idle", "plan", "rehearse", "parked", "real", "running", "ended"}

\* What is not parked goes on with a call, another turn, or ends.
LEMMA OnwardGoes ==
  ASSUME NEW rest, NEW turns
  PROVE  /\ Onward(rest, turns) \in {"rehearse", "plan", "ended"}
         /\ Onward(rest, turns) = "rehearse" => rest # <<>>
         /\ Onward(rest, turns) = "plan" => turns < MaxSteps
BY DEF Onward

LEMMA NextCallGoes ==
  ASSUME TypeOK, NEW s \in Streams, todo[s] # <<>>, NextCall(s)
  PROVE  /\ todo' \in [Streams -> Seq(CallRecords)] /\ stage' \in [Handlers -> Stages]
         /\ stage'[s] \in {"rehearse", "plan", "ended"}
         /\ stage'[s] = "rehearse" => todo'[s] # <<>>
         /\ stage'[s] = "plan" => round[s] < MaxSteps
         /\ Len(todo'[s]) = Len(todo[s]) - 1
         /\ \A t \in Streams \ {s} : todo'[t] = todo[t]
         /\ \A h \in Handlers \ {s} : stage'[h] = stage[h]
<1>1. todo[s] \in Seq(CallRecords) /\ s \in Handlers
  BY DEF TypeOK, HandlersTyped, CallRecords, Handlers
<1>2. Tail(todo[s]) \in Seq(CallRecords) /\ Len(Tail(todo[s])) = Len(todo[s]) - 1
  BY <1>1
<1>3. todo' = [todo EXCEPT ![s] = Tail(todo[s])]
      /\ stage' = [stage EXCEPT ![s] = Onward(Tail(todo[s]), round[s])]
  BY DEF NextCall, Goto
<1> QED
  BY <1>1, <1>2, <1>3, OnwardGoes DEF TypeOK, StagesTyped, HandlersTyped, CallRecords, Stages

\* Settling the gates of some parked streams.
Settled(ss, yes) ==
  /\ todo' \in [Streams -> Seq(CallRecords)] /\ stage' \in [Handlers -> Stages]
  /\ gates' = {g \in gates : g[1] \notin ss} /\ answer' \in [Ids -> {"none", "yes", "no"}]
  /\ \A i \in Ids : i \in gates /\ i[1] \in ss => answer'[i] = IF yes THEN "yes" ELSE "no"
  /\ \A i \in Ids : ~(i \in gates /\ i[1] \in ss) => answer'[i] = answer[i]
  /\ \A h \in Handlers \ ss : stage'[h] = stage[h]
  /\ \A s \in Streams \ ss : todo'[s] = todo[s]
  /\ \A s \in ss :
        IF yes THEN stage'[s] = "real" /\ todo'[s] = todo[s]
        ELSE /\ stage'[s] \in {"rehearse", "plan", "ended"}
             /\ stage'[s] = "rehearse" => todo'[s] # <<>>
             /\ stage'[s] = "plan" => round[s] < MaxSteps
             /\ Len(todo'[s]) = Len(todo[s]) - 1

LEMMA SettleGoes ==
  ASSUME TypeOK, TablesAgree, NEW ss \in SUBSET ParkedOf(Streams), NEW yes \in BOOLEAN,
         \A s \in Streams : Proceeding(s), Settle(ss, yes)
  PROVE  Settled(ss, yes)
<1>1. ss \subseteq Streams /\ \A s \in ss : stage[s] = "parked" /\ todo[s] # <<>>
  BY DEF ParkedOf, Proceeding
<1>2. \A s \in Streams : s \in Handlers /\ todo[s] \in Seq(CallRecords)
  BY DEF TypeOK, HandlersTyped, CallRecords, Handlers
<1>3. \A s \in ss : Tail(todo[s]) \in Seq(CallRecords) /\ Len(Tail(todo[s])) = Len(todo[s]) - 1
  BY <1>1, <1>2
<1>4. /\ todo' = [s \in Streams |-> IF s \in ss /\ ~yes THEN Tail(todo[s]) ELSE todo[s]]
      /\ gates' = {g \in gates : g[1] \notin ss}
      /\ answer' = [i \in Ids |-> IF i \in gates /\ i[1] \in ss
                                  THEN IF yes THEN "yes" ELSE "no" ELSE answer[i]]
  BY DEF Settle
<1>5. /\ stage' = [h \in Handlers |-> CASE h \notin ss -> stage[h]
                                        [] h \in ss /\ yes -> "real"
                                        [] OTHER -> Onward(Tail(todo[h]), round[h])]
  BY DEF Settle
<1>6. \A h \in Handlers \ ss : stage'[h] = stage[h]
  BY <1>5
<1>7. \A s \in ss : stage'[s] = IF yes THEN "real" ELSE Onward(Tail(todo[s]), round[s])
  BY <1>1, <1>2, <1>5
<1>8. stage' \in [Handlers -> Stages]
  BY <1>5, <1>6, <1>7, OnwardGoes DEF TypeOK, StagesTyped, Stages
<1>9. todo' \in [Streams -> Seq(CallRecords)]
  BY <1>2, <1>3, <1>4
<1>10. answer' \in [Ids -> {"none", "yes", "no"}]
  BY <1>4 DEF TypeOK, ApprovalsTyped
<1>11. \A s \in ss : todo'[s] = IF yes THEN todo[s] ELSE Tail(todo[s])
  BY <1>1, <1>4
<1>12. /\ \A i \in Ids : i \in gates /\ i[1] \in ss => answer'[i] = IF yes THEN "yes" ELSE "no"
       /\ \A i \in Ids : ~(i \in gates /\ i[1] \in ss) => answer'[i] = answer[i]
       /\ \A s \in Streams \ ss : todo'[s] = todo[s]
       /\ gates' = {g \in gates : g[1] \notin ss}
  BY <1>4
<1>13. ASSUME NEW s \in ss
       PROVE  IF yes THEN stage'[s] = "real" /\ todo'[s] = todo[s]
              ELSE /\ stage'[s] \in {"rehearse", "plan", "ended"}
                   /\ stage'[s] = "rehearse" => todo'[s] # <<>>
                   /\ stage'[s] = "plan" => round[s] < MaxSteps
                   /\ Len(todo'[s]) = Len(todo[s]) - 1
  <2> DEFINE rest == Tail(todo[s])
             on == Onward(rest, round[s])
  <2>1. CASE yes
    BY <1>7, <1>11, <2>1
  <2>2. CASE ~yes
    <3>1. stage'[s] = on /\ todo'[s] = rest
      BY <1>7, <1>11, <2>2
    <3>2. Len(rest) = Len(todo[s]) - 1
      BY <1>3
    <3>3. /\ on \in {"rehearse", "plan", "ended"} /\ (on = "rehearse" => rest # <<>>)
          /\ (on = "plan" => round[s] < MaxSteps)
      BY OnwardGoes
    <3> HIDE DEF rest, on
    <3> QED
      BY <2>2, <3>1, <3>2, <3>3
  <2> QED
    BY <2>1, <2>2
<1> QED
  BY <1>6, <1>8, <1>9, <1>10, <1>12, <1>13 DEF Settled

\* An effect more or none; the first that its id has with an approval, if there was none.
Unacted(id) == \A f \in effects : f.approved => f.id # id

Added(id, command, action, result, approved) ==
  /\ effects \subseteq effects' /\ IsFiniteSet(effects')
  /\ effects' \subseteq [id : Ids, command : Commands, action : Actions, approved : BOOLEAN,
                         nth : Nat]
  /\ \A e \in effects' \ effects :
        /\ result \in {"success", "failed"}
        /\ e.id = id /\ e.command = command /\ e.action = action /\ e.approved = approved
        /\ Unacted(id) /\ approved = TRUE => e.nth = 1

LEMMA PerformAdds ==
  ASSUME TypeOK, NEW id \in Ids, NEW command \in Commands, NEW action \in Actions, NEW result,
         NEW approved \in BOOLEAN, Perform(id, command, action, result, approved)
  PROVE  Added(id, command, action, result, approved)
<1> DEFINE same == {e \in effects : e.id = id /\ e.approved = approved}
           new == [id |-> id, command |-> command, action |-> action, approved |-> approved,
                   nth |-> Cardinality(same) + 1]
<1>1. effects' = IF result \in {"success", "failed"} THEN effects \cup {new} ELSE effects
  BY DEF Perform, Times
<1>2. IsFiniteSet(same)
  BY FS_Subset DEF TypeOK, EffectsTyped
<1>3. Cardinality(same) \in Nat
  BY <1>2, FS_CardinalityType
<1>4. new \in [id : Ids, command : Commands, action : Actions, approved : BOOLEAN, nth : Nat]
  BY <1>3
<1>5. Unacted(id) /\ approved = TRUE => new.nth = 1
  <2> SUFFICES ASSUME Unacted(id), approved = TRUE PROVE new.nth = 1
    OBVIOUS
  <2>1. same = {}
    BY DEF Unacted, TypeOK, EffectsTyped
  <2>2. Cardinality(same) = 0
    BY <2>1, FS_EmptySet
  <2> QED
    BY <2>2
<1>6. IsFiniteSet(effects')
  <2>1. IsFiniteSet(effects \cup {new})
    BY FS_AddElement DEF TypeOK, EffectsTyped
  <2> QED
    BY <1>1, <2>1 DEF TypeOK, EffectsTyped
<1>7. new.id = id /\ new.command = command /\ new.action = action /\ new.approved = approved
  OBVIOUS
<1> HIDE DEF new
<1> QED
  BY <1>1, <1>4, <1>5, <1>6, <1>7 DEF TypeOK, EffectsTyped, Added

\* The call a stream is at.
LEMMA HeadIs ==
  ASSUME TypeOK, NEW s \in Streams, Proceeding(s), stage[s] \in {"rehearse", "parked", "real"}
  PROVE  todo[s] # <<>> /\ Head(todo[s]) \in CallRecords /\ Head(todo[s]).command \in Commands
<1>1. todo[s] \in Seq(CallRecords) /\ todo[s] # <<>>
  BY DEF TypeOK, HandlersTyped, CallRecords, Proceeding
<1>2. Head(todo[s]) \in CallRecords
  BY <1>1
<1> QED
  BY <1>1, <1>2 DEF CallRecords

\* A stream's next id is one of those there are, as it asks for a call at a time.
LEMMA NextId ==
  ASSUME TypeOK, NEW s \in Streams, Proceeding(s), stage[s] = "rehearse"
  PROVE  <<s, minted[s] + 1>> \in Ids
<1> USE ServerAssumption DEF ServerAssumption
<1>1. todo[s] \in Seq(CallRecords) /\ todo[s] # <<>> /\ minted[s] \in Nat
      /\ round[s] \in 0 .. MaxSteps
  BY DEF TypeOK, HandlersTyped, CallRecords, Proceeding
<1>2. Len(todo[s]) \in Nat /\ Len(todo[s]) >= 1
  BY <1>1
<1>3. minted[s] + 1 <= round[s] * MaxCalls
  <2>1. round[s] * MaxCalls \in Nat
    BY <1>1
  <2> HIDE DEF ServerAssumption
  <2> QED
    BY <1>1, <1>2, <2>1 DEF Proceeding, Outstanding
<1>4. round[s] * MaxCalls <= MaxSteps * MaxCalls
  BY <1>1
<1>5. minted[s] + 1 \in 1 .. MaxSteps * MaxCalls
  <2>1. round[s] * MaxCalls \in Nat /\ MaxSteps * MaxCalls \in Nat
    BY <1>1
  <2> QED
    BY <1>1, <1>3, <1>4, <2>1
<1> QED
  BY <1>5 DEF Ids

\* And the one it is parked on, or runs.
LEMMA CurrentId ==
  ASSUME TypeOK, NEW s \in Streams, Proceeding(s), stage[s] \in {"parked", "real"}
  PROVE  Current(s) \in Ids /\ Head(todo[s]) \in CallRecords
<1> USE ServerAssumption DEF ServerAssumption
<1>1. todo[s] \in Seq(CallRecords) /\ todo[s] # <<>> /\ minted[s] \in Nat /\ minted[s] > 0
      /\ round[s] \in 0 .. MaxSteps
  BY DEF TypeOK, HandlersTyped, CallRecords, Proceeding
<1>2. Len(todo[s]) \in Nat /\ Len(todo[s]) >= 1 /\ Head(todo[s]) \in CallRecords
  BY <1>1
<1>3. minted[s] <= round[s] * MaxCalls
  <2>1. round[s] * MaxCalls \in Nat
    BY <1>1
  <2> QED
    BY <1>1, <1>2, <2>1 DEF Proceeding, Outstanding
<1>4. round[s] * MaxCalls <= MaxSteps * MaxCalls
  BY <1>1
<1>5. minted[s] \in 1 .. MaxSteps * MaxCalls
  <2>1. round[s] * MaxCalls \in Nat /\ MaxSteps * MaxCalls \in Nat
    BY <1>1
  <2> QED
    BY <1>1, <1>3, <1>4, <2>1
<1> QED
  BY <1>2, <1>5 DEF Ids, Current

LEMMA PartOfInterval ==
  ASSUME NEW n \in Nat, NEW S \in SUBSET (1 .. n)
  PROVE  Cardinality(S) \in 0 .. n
<1>1. IsFiniteSet(1 .. n) /\ Cardinality(1 .. n) = IF 1 > n THEN 0 ELSE n - 1 + 1
  BY FS_Interval
<1>2. Cardinality(S) \in Nat /\ Cardinality(S) <= Cardinality(1 .. n)
  BY <1>1, FS_Subset, FS_CardinalityType
<1> QED
  BY <1>1, <1>2

LEMMA Behindmost ==
  ASSUME NEW T, NEW items \in Seq(T), NEW d \in 0 .. Len(items)
  PROVE  /\ SubSeq(items, d + 1, Len(items)) \in Seq(T)
         /\ Len(SubSeq(items, d + 1, Len(items))) = Len(items) - d
         /\ \A k \in 1 .. Len(items) - d : SubSeq(items, d + 1, Len(items))[k] = items[k + d]
<1> DEFINE n == Len(items)
           rest == SubSeq(items, d + 1, n)
<1>1. n \in Nat /\ d \in 0 .. n
  OBVIOUS
<1>2. \A i \in 1 .. n : items[i] \in T
  OBVIOUS
<1> HIDE DEF n
<1>3. d + 1 \in Int /\ n \in Int /\ \A i \in d + 1 .. n : items[i] \in T
  BY <1>1, <1>2
<1>4. /\ rest \in Seq(T)
      /\ Len(rest) = IF d + 1 <= n THEN n - (d + 1) + 1 ELSE 0
      /\ \A k \in 1 .. n - (d + 1) + 1 : rest[k] = items[(d + 1) + k - 1]
  BY <1>3, SubSeqProperties
<1> HIDE DEF rest
<1>5. Len(rest) = n - d
  BY <1>1, <1>4
<1>6. \A k \in 1 .. n - d : rest[k] = items[k + d]
  <2> TAKE k \in 1 .. n - d
  <2>1. k \in 1 .. n - (d + 1) + 1 /\ (d + 1) + k - 1 = k + d
    BY <1>1
  <2> QED
    BY <1>4, <2>1
<1> QED
  BY <1>4, <1>5, <1>6 DEF n, rest

\* Making room takes the oldest away, and leaves less than the table holds.
LEMMA RoomLeaves ==
  ASSUME TypeOK, TablesAgree
  PROVE  /\ Room(pending) \in Seq(Requests) /\ Len(Room(pending)) < Cap
         /\ \E d \in 0 .. Len(pending) :
               /\ Len(Room(pending)) = Len(pending) - d
               /\ \A k \in 1 .. Len(pending) - d : Room(pending)[k] = pending[k + d]
<1> DEFINE expired == {k \in DOMAIN pending : \A j \in 1 .. k : pending[j].id \in late}
           c == Cardinality(expired)
           kept == SubSeq(pending, c + 1, Len(pending))
<1>1. pending \in Seq(Requests) /\ Len(pending) \in Nat /\ DOMAIN pending = 1 .. Len(pending)
      /\ Len(pending) <= Cap /\ Cap \in Nat /\ Cap > 0
  BY ServerAssumption DEF TypeOK, ApprovalsTyped, Requests, TablesAgree, ServerAssumption
<1>2. c \in 0 .. Len(pending)
  <2>1. expired \in SUBSET (1 .. Len(pending))
    BY <1>1
  <2> HIDE DEF expired
  <2> QED
    BY <1>1, <2>1, PartOfInterval
<1> HIDE DEF c
<1>3. kept \in Seq(Requests) /\ Len(kept) = Len(pending) - c
      /\ \A k \in 1 .. Len(pending) - c : kept[k] = pending[k + c]
  <2> HIDE DEF kept
  <2>1. kept = SubSeq(pending, c + 1, Len(pending))
    BY DEF kept
  <2> QED
    BY <1>1, <1>2, <2>1, Behindmost
<1>4. Room(pending) = IF Len(kept) >= Cap THEN Tail(kept) ELSE kept
  BY DEF Room, c
<1> HIDE DEF kept
<1>5. Len(kept) \in Nat /\ Len(kept) = Len(pending) - c
  BY <1>3
<1>6. CASE Len(kept) >= Cap
  <2>1. c = 0 /\ Len(kept) = Len(pending) /\ Len(pending) = Cap
    <3> DEFINE n == Len(pending)
               m == Len(kept)
    <3>1. n \in Nat /\ m \in Nat /\ m = n - c /\ n <= Cap /\ m >= Cap /\ Cap \in Nat /\ c \in 0 .. n
      BY <1>1, <1>2, <1>5, <1>6
    <3> HIDE DEF n, m
    <3>2. c = 0 /\ m = n /\ n = Cap
      BY <3>1
    <3> QED
      BY <3>2 DEF n, m
  <2>2. Room(pending) = Tail(kept) /\ kept # <<>>
    <3>1. Len(kept) > 0
      BY <1>1, <2>1
    <3> QED
      BY <1>3, <1>4, <1>6, <3>1
  <2>3. Tail(kept) \in Seq(Requests) /\ Len(Tail(kept)) = Len(kept) - 1
        /\ \A k \in 1 .. Len(kept) - 1 : Tail(kept)[k] = kept[k + 1]
    BY <1>3, <2>2
  <2>4. \A k \in 1 .. Len(pending) - 1 : Room(pending)[k] = pending[k + 1]
    <3> SUFFICES ASSUME NEW k \in 1 .. Len(pending) - 1 PROVE Room(pending)[k] = pending[k + 1]
      OBVIOUS
    <3>1. Room(pending)[k] = kept[k + 1]
      BY <2>1, <2>2, <2>3
    <3>2. k + 1 \in 1 .. Len(pending) - c /\ k + 1 + c = k + 1
      BY <1>1, <2>1
    <3> QED
      BY <1>3, <3>1, <3>2
  <2>5. Len(Room(pending)) = Len(pending) - 1 /\ Len(pending) - 1 < Cap /\ 1 \in 0 .. Len(pending)
    BY <1>1, <2>1, <2>2, <2>3
  <2> QED
    BY <2>2, <2>3, <2>4, <2>5
<1>7. CASE ~(Len(kept) >= Cap)
  <2>1. Room(pending) = kept /\ Len(kept) < Cap
    BY <1>1, <1>4, <1>5, <1>7
  <2> QED
    BY <1>2, <1>3, <2>1
<1> QED
  BY <1>6, <1>7

\* What a run binds is the step it has stopped at, with an id that is new.
LEMMA BoundIs ==
  ASSUME TypeOK, NEW r \in Runs, stage[r] = "running", Behind(r)
  PROVE  /\ At(r) = Len(results[r]) + 1 /\ At(r) \in DOMAIN body[r].commands
         /\ body[r] \in Asks[r] /\ StepOf(r) \in Commands /\ <<r, At(r)>> \in Ids
         /\ Bound(r) = [id |-> <<r, At(r)>>, command |-> StepOf(r), dryRun |-> body[r].dryRun]
         /\ Bound(r) \in Requests
         /\ body[r].dryRun \in BOOLEAN /\ body[r].editor \in BOOLEAN
<1>1. body[r] \in Asks[r] /\ At(r) \in DOMAIN body[r].commands
  BY DEF TypeOK, HandlersTyped, Behind
<1>2. body[r].commands \in Seq(Commands) /\ Len(body[r].commands) \in 1 .. MaxBatch
      /\ body[r].dryRun \in BOOLEAN /\ body[r].editor \in BOOLEAN /\ MaxBatch \in Nat
  BY <1>1, ServerAssumption DEF ServerAssumption
<1>3. At(r) \in 1 .. MaxBatch /\ StepOf(r) \in Commands
  BY <1>1, <1>2 DEF StepOf
<1>4. <<r, At(r)>> \in Ids
  BY <1>3 DEF Ids
<1> QED
  BY <1>1, <1>2, <1>3, <1>4 DEF Bound, Requests, At

\* The id is new: not settled, nor in the table.
LEMMA BindGoes ==
  ASSUME TypeOK, TablesAgree, NEW r \in Runs, stage[r] = "running", Behind(r), BindApproval(r)
  PROVE  /\ pending' \in Seq(Requests) /\ Len(pending') <= Cap /\ Len(pending') >= 1
         /\ pending'[Len(pending')] = Bound(r)
         /\ late' \subseteq IdsOf(pending') /\ late' \subseteq late
         /\ \E d \in 0 .. Len(pending) :
               /\ Len(pending') = Len(pending) - d + 1
               /\ \A k \in 1 .. Len(pending) - d : pending'[k] = pending[k + d]
         /\ answer' \in [Ids -> {"none", "yes", "no"}]
         /\ \A i \in Ids :
               answer'[i] = IF i \in IdsOf(pending) \ IdsOf(pending') THEN "no" ELSE answer[i]
         /\ shown' = IF r \in gone THEN shown
                     ELSE shown \cup {[id |-> <<r, At(r)>>, command |-> StepOf(r)]}
<1>1. Room(pending) \in Seq(Requests) /\ Len(Room(pending)) < Cap
  BY RoomLeaves
<1>2. PICK d \in 0 .. Len(pending) :
         /\ Len(Room(pending)) = Len(pending) - d
         /\ \A k \in 1 .. Len(pending) - d : Room(pending)[k] = pending[k + d]
  BY RoomLeaves
<1>3. Bound(r) \in Requests /\ Bound(r).id = <<r, At(r)>>
  <2>1. Bound(r) \in Requests
    BY BoundIs
  <2> QED
    BY <2>1 DEF Bound
<1>4. pending' = Append(Room(pending), Bound(r)) /\ late' = late \cap IdsOf(pending')
  BY DEF BindApproval
<1>5. pending' \in Seq(Requests) /\ Len(pending') = Len(Room(pending)) + 1
      /\ pending'[Len(pending')] = Bound(r)
      /\ \A k \in 1 .. Len(Room(pending)) : pending'[k] = Room(pending)[k]
  BY <1>1, <1>3, <1>4
<1>6. Cap \in Nat /\ Len(pending) \in Nat /\ Len(Room(pending)) \in Nat
  BY <1>1, ServerAssumption DEF ServerAssumption, TypeOK, ApprovalsTyped
<1>7. /\ Len(pending') <= Cap /\ Len(pending') >= 1
      /\ Len(pending') = Len(pending) - d + 1
      /\ \A k \in 1 .. Len(pending) - d : pending'[k] = pending[k + d]
  BY <1>1, <1>2, <1>5, <1>6
<1>8. answer' = [i \in Ids |-> IF i \in IdsOf(pending) \ IdsOf(pending') THEN "no" ELSE answer[i]]
  BY DEF BindApproval, Dropped
<1>9. shown' = IF r \in gone THEN shown
               ELSE shown \cup {[id |-> <<r, At(r)>>, command |-> StepOf(r)]}
  BY <1>3 DEF BindApproval
<1>10. answer' \in [Ids -> {"none", "yes", "no"}]
  BY <1>8 DEF TypeOK, ApprovalsTyped
<1> QED
  BY <1>4, <1>5, <1>7, <1>8, <1>9, <1>10

-----------------------------------------------------------------------------
(* The types.                                                              *)

\* A step that moves one handler keeps the types of the stages.
LEMMA OneMoves ==
  ASSUME StagesTyped, NEW h \in Handlers, stage' \in [Handlers -> Stages],
         h \in Streams => stage'[h] # "running",
         h \in Runs => stage'[h] \in {"idle", "running", "ended"},
         \A k \in Handlers \ {h} : stage'[k] = stage[k]
  PROVE  StagesTyped'
BY DEF StagesTyped, Stages, Handlers

LEMMA GotoGoes ==
  ASSUME StagesTyped, NEW h \in Handlers, NEW x \in Stages, Goto(h, x)
  PROVE  /\ stage' \in [Handlers -> Stages] /\ stage'[h] = x
         /\ \A k \in Handlers \ {h} : stage'[k] = stage[k]
BY DEF StagesTyped, Stages, Goto

\* What a step of a stream leaves alone: a run's request.
LEMMA BodiesStay ==
  ASSUME HandlersTyped, NEW s \in Streams, UNCHANGED body,
         \A k \in Handlers \ {s} : stage'[k] = stage[k]
  PROVE  DOMAIN body' = Runs /\ \A r \in Runs : stage'[r] # "idle" => body'[r] \in Asks[r]
BY ServerAssumption DEF HandlersTyped, Handlers, ServerAssumption

\* Steps that move one stream.
LEMMA TypeKeptMoving ==
  ASSUME Inv, NEW s \in Streams,
         \/ AskAgent(s) \/ (\E t \in Turns : Turn(s, t)) \/ TurnFails(s) \/ Pass(s)
         \/ Rehearsed(s)
  PROVE  TypeOK'
<1>0. /\ TypeOK /\ Proceeding(s) /\ s \in Handlers /\ s \notin Runs
      /\ StagesTyped /\ HandlersTyped /\ ApprovalsTyped /\ EffectsTyped
  BY ServerAssumption DEF Inv, ServerInv, Handlers, ServerAssumption, TypeOK
<1>1. ASSUME NextCall(s), todo[s] # <<>>
      PROVE  /\ todo' \in [Streams -> Seq(CallRecords)] /\ stage' \in [Handlers -> Stages]
             /\ stage'[s] # "running" /\ \A h \in Handlers \ {s} : stage'[h] = stage[h]
  BY <1>0, <1>1, NextCallGoes
<1>2. /\ stage' \in [Handlers -> Stages] /\ stage'[s] # "running"
      /\ \A h \in Handlers \ {s} : stage'[h] = stage[h]
  <2>1. CASE AskAgent(s)
    BY <1>0, <2>1, GotoGoes DEF AskAgent, Stages
  <2>2. CASE \E t \in Turns : Turn(s, t)
    BY <1>0, <2>2, GotoGoes DEF Turn, Stages
  <2>3. CASE TurnFails(s)
    BY <1>0, <2>3, GotoGoes DEF TurnFails, Stages
  <2>4. CASE Pass(s)
    BY <1>0, <1>1, <2>4 DEF Pass, Proceeding
  <2>5. CASE Rehearsed(s)
    BY <1>0, <1>1, <2>5, GotoGoes DEF Rehearsed, Proceeding, Park, Stages
  <2> QED
    BY <2>1, <2>2, <2>3, <2>4, <2>5
<1>3. StagesTyped'
  BY <1>0, <1>2, OneMoves
<1>4. UNCHANGED body
  BY DEF AskAgent, Turn, TurnFails, Pass, Rehearsed
<1>5. DOMAIN body' = Runs /\ \A r \in Runs : stage'[r] # "idle" => body'[r] \in Asks[r]
  BY <1>0, <1>2, <1>4, BodiesStay
<1>6. todo' \in [Streams -> Seq(CallRecords)]
  <2>1. CASE AskAgent(s) \/ TurnFails(s)
    BY <1>0, <2>1 DEF AskAgent, TurnFails, HandlersTyped, CallRecords
  <2>2. CASE \E t \in Turns : Turn(s, t)
    <3>1. PICK t \in Turns : Turn(s, t)
      BY <2>2
    <3>2. t \in Seq(CallRecords)
      BY ServerAssumption DEF ServerAssumption, CallRecords
    <3> QED
      BY <1>0, <3>1, <3>2 DEF Turn, HandlersTyped, CallRecords
  <2>3. CASE Pass(s)
    BY <1>0, <1>1, <2>3 DEF Pass, Proceeding
  <2>4. CASE Rehearsed(s)
    BY <1>0, <1>1, <2>4 DEF Rehearsed, Proceeding, HandlersTyped, CallRecords
  <2> QED
    BY <2>1, <2>2, <2>3, <2>4
<1>7. round' \in [Streams -> 0 .. MaxSteps]
  <2>1. CASE \E t \in Turns : Turn(s, t)
    <3>1. stage[s] = "plan" /\ round' = [round EXCEPT ![s] = @ + 1]
      BY <2>1 DEF Turn
    <3>2. round[s] + 1 \in 0 .. MaxSteps
      BY <1>0, <3>1, ServerAssumption DEF Proceeding, HandlersTyped, ServerAssumption
    <3> QED
      BY <1>0, <3>1, <3>2 DEF HandlersTyped
  <2>2. CASE UNCHANGED round
    BY <1>0, <2>2 DEF HandlersTyped
  <2> QED
    BY <2>1, <2>2 DEF AskAgent, TurnFails, Pass, Rehearsed
<1>8. /\ minted' \in [Streams -> Nat] /\ gates' \subseteq Ids
      /\ shown' \subseteq [id : Ids, command : Commands]
  <2>1. CASE UNCHANGED <<minted, gates, shown>>
    BY <1>0, <2>1 DEF HandlersTyped, ApprovalsTyped
  <2>2. CASE stage[s] = "rehearse" /\ Park(s)
    <3> DEFINE id == <<s, minted[s] + 1>>
               x == [id |-> id, command |-> Head(todo[s]).command]
    <3>1. id \in Ids
      BY <1>0, <2>2, NextId
    <3>2. Head(todo[s]).command \in Commands
      BY <1>0, <2>2, HeadIs
    <3>3. x \in [id : Ids, command : Commands]
      BY <3>1, <3>2
    <3>4. /\ minted' = [minted EXCEPT ![s] = @ + 1] /\ gates' = gates \cup {id}
          /\ shown' = IF s \in gone THEN shown ELSE shown \cup {x}
      BY <2>2 DEF Park
    <3> HIDE DEF x, id
    <3> QED
      BY <1>0, <3>1, <3>3, <3>4 DEF HandlersTyped, ApprovalsTyped
  <2> QED
    BY <2>1, <2>2 DEF AskAgent, Turn, TurnFails, Pass, Rehearsed
<1>9. UNCHANGED <<serving, gone, results, answer, pending, late, resuming, effects>>
  BY DEF AskAgent, Turn, TurnFails, Pass, Rehearsed
<1>10. HandlersTyped'
  BY <1>0, <1>5, <1>6, <1>7, <1>8, <1>9 DEF HandlersTyped, CallRecords
<1>11. ApprovalsTyped' /\ EffectsTyped'
  BY <1>0, <1>8, <1>9 DEF ApprovalsTyped, EffectsTyped, IdsOf
<1> QED
  BY <1>0, <1>3, <1>9, <1>10, <1>11 DEF TypeOK

\* What decides on a step or a call are the decisions policy may take.
LEMMA DecisionsAre ==
  ASSUME NEW c \in Commands, NEW a \in Decisions[c]
  PROVE  a \in Actions
BY ServerAssumption DEF ServerAssumption

\* What a real run does, or one that throws: nothing, or its command, with the answer.
LEMMA Acts ==
  ASSUME TypeOK, NEW s \in Streams, Proceeding(s), RealRun(s) \/ CallThrows(s)
  PROVE  \/ UNCHANGED effects
         \/ \E a \in Actions, res \in Outcomes : stage[s] = "real" /\ Current(s) \in Ids
               /\ Head(todo[s]).command \in Commands
               /\ Perform(Current(s), Head(todo[s]).command, a, res, TRUE)
<1>1. ASSUME stage[s] = "real"
      PROVE  Head(todo[s]).command \in Commands /\ Current(s) \in Ids
  BY <1>1, CurrentId DEF CallRecords
<1>2. CASE RealRun(s)
  <2>1. PICK a \in Decisions[Head(todo[s]).command] :
           \E res \in Results(a, "yes", FALSE) :
              Perform(<<s, minted[s]>>, Head(todo[s]).command, a, res, TRUE)
    BY <1>2 DEF RealRun
  <2>2. a \in Actions /\ Results(a, "yes", FALSE) \subseteq Outcomes
    BY <1>1, <1>2, DecisionsAre DEF RealRun, Results, Outcomes
  <2> QED
    BY <1>1, <1>2, <2>1, <2>2 DEF RealRun, Current
<1>3. CASE CallThrows(s)
  <2>1. CASE UNCHANGED effects
    BY <2>1
  <2>2. CASE ~UNCHANGED effects
    <3>1. stage[s] = "real"
      BY <1>3, <2>2 DEF CallThrows
    <3>2. PICK a \in Decisions[Head(todo[s]).command] \cap {"allow", "approval_required"} :
             Perform(<<s, minted[s]>>, Head(todo[s]).command, a, "failed", TRUE)
      BY <1>3, <2>2 DEF CallThrows
    <3>3. a \in Actions
      BY DEF Actions
    <3> QED
      BY <1>1, <3>1, <3>2, <3>3 DEF Current, Outcomes
  <2> QED
    BY <2>1, <2>2
<1> QED
  BY <1>2, <1>3

LEMMA TypeKeptActing ==
  ASSUME Inv, NEW s \in Streams, RealRun(s) \/ CallThrows(s)
  PROVE  TypeOK'
<1>0. /\ TypeOK /\ Proceeding(s) /\ s \in Handlers /\ s \notin Runs
      /\ StagesTyped /\ HandlersTyped /\ ApprovalsTyped /\ EffectsTyped
      /\ todo[s] # <<>>
  BY ServerAssumption
     DEF Inv, ServerInv, Handlers, ServerAssumption, TypeOK, Proceeding, RealRun, CallThrows
<1>1. EffectsTyped'
  <2>1. CASE UNCHANGED effects
    BY <1>0, <2>1 DEF EffectsTyped
  <2>2. CASE \E a \in Actions, res \in Outcomes : stage[s] = "real" /\ Current(s) \in Ids
               /\ Head(todo[s]).command \in Commands
               /\ Perform(Current(s), Head(todo[s]).command, a, res, TRUE)
    BY <1>0, <2>2, PerformAdds DEF EffectsTyped, Added
  <2> QED
    BY <1>0, <2>1, <2>2, Acts
<1>2. /\ todo' \in [Streams -> Seq(CallRecords)]
      /\ stage' \in [Handlers -> Stages] /\ stage'[s] # "running"
      /\ \A h \in Handlers \ {s} : stage'[h] = stage[h]
  <2>1. CASE NextCall(s)
    BY <1>0, <2>1, NextCallGoes
  <2>2. CASE Goto(s, "ended") /\ UNCHANGED todo
    BY <1>0, <2>2, GotoGoes DEF HandlersTyped, CallRecords, Stages
  <2> QED
    BY <2>1, <2>2 DEF RealRun, CallThrows
<1>3. UNCHANGED <<serving, gone, round, minted, body, results, gates, pending, late, resuming,
                  shown, answer>>
  BY DEF RealRun, CallThrows
<1>4. StagesTyped'
  BY <1>0, <1>2, OneMoves
<1>5. HandlersTyped'
  <2>1. DOMAIN body' = Runs /\ \A r \in Runs : stage'[r] # "idle" => body'[r] \in Asks[r]
    BY <1>0, <1>2, <1>3, BodiesStay
  <2> QED
    BY <1>0, <1>2, <1>3, <2>1 DEF HandlersTyped, CallRecords
<1> QED
  BY <1>0, <1>1, <1>3, <1>4, <1>5 DEF TypeOK, ApprovalsTyped, IdsOf

\* Steps that settle gates.
LEMMA TypeKeptSettling ==
  ASSUME Inv, NEW ss \in SUBSET ParkedOf(Streams), NEW yes \in BOOLEAN, Settle(ss, yes),
         gone' \subseteq Handlers,
         UNCHANGED <<serving, round, minted, body, results, pending, late, resuming, shown,
                     effects>>
  PROVE  TypeOK'
<1>0. /\ TypeOK /\ TablesAgree /\ \A s \in Streams : Proceeding(s)
      /\ StagesTyped /\ HandlersTyped /\ ApprovalsTyped /\ EffectsTyped
      /\ ss \subseteq Streams /\ Streams \cap Runs = {} /\ Handlers = Streams \cup Runs
  BY ServerAssumption DEF Inv, ServerInv, TypeOK, ParkedOf, ServerAssumption, Handlers
<1>a. Settled(ss, yes)
  BY <1>0, SettleGoes
<1>1. /\ todo' \in [Streams -> Seq(CallRecords)] /\ stage' \in [Handlers -> Stages]
      /\ gates' = {g \in gates : g[1] \notin ss} /\ answer' \in [Ids -> {"none", "yes", "no"}]
      /\ \A h \in Handlers \ ss : stage'[h] = stage[h]
  BY <1>a DEF Settled
<1>2. \A s \in ss : stage'[s] \in {"real", "rehearse", "plan", "ended"}
  BY <1>a DEF Settled
<1>3. StagesTyped'
  BY <1>0, <1>1, <1>2 DEF StagesTyped, Stages
<1>4. HandlersTyped'
  BY <1>0, <1>1 DEF HandlersTyped, CallRecords
<1>5. ApprovalsTyped' /\ EffectsTyped'
  BY <1>0, <1>1 DEF ApprovalsTyped, EffectsTyped, IdsOf
<1> QED
  BY <1>0, <1>3, <1>4, <1>5 DEF TypeOK

\* What settles them: an answer, the timer, the end of the connection; and the shutdown,
\* which empties the other table too.
LEMMA Settles ==
  ASSUME Inv
  PROVE  /\ \A i \in Ids, yes \in BOOLEAN :
               AnswerGate(i, yes) =>
                  /\ {i[1]} \in SUBSET ParkedOf(Streams) /\ Settle({i[1]}, yes)
                  /\ i = Current(i[1]) /\ \E x \in shown : x.id = i
         /\ \A s \in Streams :
               GateTimeout(s) => {s} \in SUBSET ParkedOf(Streams) /\ Settle({s}, FALSE)
         /\ \A h \in Handlers :
               Disconnect(h) => /\ ParkedOf({h} \cap Streams) \in SUBSET ParkedOf(Streams)
                                /\ Settle(ParkedOf({h} \cap Streams), FALSE)
<1>1. TablesAgree
  BY DEF Inv, ServerInv
<1>2. ASSUME NEW i \in Ids, NEW yes \in BOOLEAN, AnswerGate(i, yes)
      PROVE  /\ {i[1]} \in SUBSET ParkedOf(Streams) /\ Settle({i[1]}, yes)
             /\ i = Current(i[1]) /\ \E x \in shown : x.id = i
  <2>1. i \in gates /\ i[1] \in Streams
    BY <1>1, <1>2 DEF AnswerGate, TablesAgree
  <2>2. i \in {g \in gates : g[1] = i[1]}
    BY <2>1
  <2>3. stage[i[1]] = "parked" /\ i = <<i[1], minted[i[1]]>>
    BY <1>1, <2>1, <2>2 DEF TablesAgree
  <2> QED
    BY <1>2, <2>1, <2>3 DEF AnswerGate, ParkedOf, Current
<1>3. ASSUME NEW s \in Streams, GateTimeout(s)
      PROVE  {s} \in SUBSET ParkedOf(Streams) /\ Settle({s}, FALSE)
  BY <1>3 DEF GateTimeout, ParkedOf
<1>4. ASSUME NEW h \in Handlers, Disconnect(h)
      PROVE  /\ ParkedOf({h} \cap Streams) \in SUBSET ParkedOf(Streams)
             /\ Settle(ParkedOf({h} \cap Streams), FALSE)
  BY <1>4 DEF Disconnect, ParkedOf
<1> QED
  BY <1>2, <1>3, <1>4

\* What the shutdown does to the handlers is what denying every parked stream would.
LEMMA CloseSettles ==
  ASSUME Inv, Close
  PROVE  /\ todo' \in [Streams -> Seq(CallRecords)] /\ stage' \in [Handlers -> Stages]
         /\ \A h \in Handlers : stage[h] # "parked" => stage'[h] = stage[h]
         /\ \A s \in Streams :
               IF stage[s] = "parked"
               THEN /\ stage'[s] \in {"rehearse", "plan", "ended"}
                    /\ stage'[s] = "rehearse" => todo'[s] # <<>>
                    /\ stage'[s] = "plan" => round[s] < MaxSteps
                    /\ Len(todo'[s]) = Len(todo[s]) - 1
               ELSE todo'[s] = todo[s]
         /\ gates' = {} /\ pending' = <<>> /\ late' = {}
         /\ answer' \in [Ids -> {"none", "yes", "no"}]
         /\ \A i \in Ids : answer'[i] = IF i \in gates \cup IdsOf(pending) THEN "no" ELSE answer[i]
<1> DEFINE ss == ParkedOf(Streams)
<1>0. /\ TypeOK /\ \A s \in Streams : Proceeding(s)
      /\ StagesTyped /\ HandlersTyped /\ ApprovalsTyped
      /\ Streams \cap Runs = {} /\ Handlers = Streams \cup Runs
  BY ServerAssumption DEF Inv, ServerInv, TypeOK, ServerAssumption, Handlers
<1>1. /\ stage' = [h \in Handlers |->
                      IF h \in ss THEN Onward(Tail(todo[h]), round[h]) ELSE stage[h]]
      /\ todo' = [s \in Streams |-> IF s \in ss THEN Tail(todo[s]) ELSE todo[s]]
      /\ answer' = [i \in Ids |-> IF i \in gates \cup IdsOf(pending) THEN "no" ELSE answer[i]]
      /\ gates' = {} /\ pending' = <<>> /\ late' = {}
  BY DEF Close
<1>2. \A s \in Streams : s \in ss <=> stage[s] = "parked"
  BY DEF ParkedOf
<1>3. ss \subseteq Streams /\ \A h \in Handlers : h \in ss <=> stage[h] = "parked"
  BY <1>0, <1>2 DEF ParkedOf, StagesTyped
<1> HIDE DEF ss
<1>4. \A s \in Streams : todo[s] \in Seq(CallRecords)
  BY <1>0 DEF HandlersTyped, CallRecords
<1>5. \A s \in ss : /\ Tail(todo[s]) \in Seq(CallRecords)
                    /\ Len(Tail(todo[s])) = Len(todo[s]) - 1
  <2> SUFFICES ASSUME NEW s \in ss
               PROVE  Tail(todo[s]) \in Seq(CallRecords) /\ Len(Tail(todo[s])) = Len(todo[s]) - 1
    OBVIOUS
  <2>1. todo[s] # <<>> /\ todo[s] \in Seq(CallRecords)
    BY <1>0, <1>3, <1>4 DEF Proceeding
  <2> QED
    BY <2>1
<1>6. todo' \in [Streams -> Seq(CallRecords)]
  BY <1>1, <1>4, <1>5
<1>7. \A h \in Handlers : stage'[h] = IF h \in ss THEN Onward(Tail(todo[h]), round[h]) ELSE stage[h]
  BY <1>1
<1>8. stage' \in [Handlers -> Stages]
  BY <1>0, <1>1, <1>7, OnwardGoes DEF StagesTyped, Stages
<1>9. ASSUME NEW s \in Streams
      PROVE  IF stage[s] = "parked"
             THEN /\ stage'[s] \in {"rehearse", "plan", "ended"}
                  /\ stage'[s] = "rehearse" => todo'[s] # <<>>
                  /\ stage'[s] = "plan" => round[s] < MaxSteps
                  /\ Len(todo'[s]) = Len(todo[s]) - 1
             ELSE todo'[s] = todo[s]
  <2>1. CASE s \in ss
    <3> DEFINE rest == Tail(todo[s])
               on == Onward(rest, round[s])
    <3>1. stage'[s] = on /\ todo'[s] = rest /\ stage[s] = "parked"
      BY <1>0, <1>1, <1>2, <1>7, <2>1 DEF ss
    <3>2. Len(rest) = Len(todo[s]) - 1
      BY <1>5, <2>1
    <3>3. /\ on \in {"rehearse", "plan", "ended"} /\ (on = "rehearse" => rest # <<>>)
          /\ (on = "plan" => round[s] < MaxSteps)
      BY OnwardGoes
    <3> HIDE DEF rest, on
    <3> QED
      BY <3>1, <3>2, <3>3
  <2>2. CASE s \notin ss
    BY <1>0, <1>1, <1>3, <2>2
  <2> QED
    BY <2>1, <2>2
<1>10. answer' \in [Ids -> {"none", "yes", "no"}]
  BY <1>0, <1>1 DEF ApprovalsTyped
<1>11. \A h \in Handlers : stage[h] # "parked" => stage'[h] = stage[h]
  BY <1>3, <1>7
<1>12. \A i \in Ids : answer'[i] = IF i \in gates \cup IdsOf(pending) THEN "no" ELSE answer[i]
  BY <1>1
<1> QED
  BY <1>1, <1>6, <1>8, <1>9, <1>10, <1>11, <1>12

\* Answering an approval takes it, and no other, from the table.
Without(items, k) == SubSeq(items, 1, k - 1) \o SubSeq(items, k + 1, Len(items))

LEMMA RemoveGoes ==
  ASSUME NEW T, NEW items \in Seq(T), NEW k \in 1 .. Len(items)
  PROVE  /\ Without(items, k) \in Seq(T) /\ Len(Without(items, k)) = Len(items) - 1
         /\ \A j \in 1 .. k - 1 : Without(items, k)[j] = items[j]
         /\ \A j \in k .. Len(items) - 1 : Without(items, k)[j] = items[j + 1]
<1> DEFINE n == Len(items)
           rest == Without(items, k)
           front == SubSeq(items, 1, k - 1)
           back == SubSeq(items, k + 1, n)
<1>1. \A i \in 1 .. n : items[i] \in T
  OBVIOUS
<1>4. rest = front \o back
  BY DEF Without
<1>0. n \in Nat /\ k \in 1 .. n
  OBVIOUS
<1> HIDE DEF n, rest
<1>2. /\ front \in Seq(T) /\ Len(front) = k - 1
      /\ \A j \in 1 .. k - 1 : front[j] = items[j]
  <2>1. \A i \in 1 .. k - 1 : items[i] \in T
    BY <1>0, <1>1
  <2>2. /\ front \in Seq(T) /\ Len(front) = IF 1 <= k - 1 THEN k - 1 - 1 + 1 ELSE 0
        /\ \A j \in 1 .. k - 1 - 1 + 1 : front[j] = items[1 + j - 1]
    BY <1>0, <2>1, SubSeqProperties
  <2> HIDE DEF front
  <2> QED
    BY <1>0, <2>2
<1>3. /\ back \in Seq(T) /\ Len(back) = n - k
      /\ \A j \in 1 .. n - k : back[j] = items[j + k]
  <2>1. \A i \in k + 1 .. n : items[i] \in T
    BY <1>0, <1>1
  <2>2. /\ back \in Seq(T) /\ Len(back) = IF k + 1 <= n THEN n - (k + 1) + 1 ELSE 0
        /\ \A j \in 1 .. n - (k + 1) + 1 : back[j] = items[k + 1 + j - 1]
    BY <1>0, <2>1, SubSeqProperties
  <2> HIDE DEF back
  <2> QED
    BY <1>0, <2>2
<1> HIDE DEF front, back
<1>5. /\ rest \in Seq(T) /\ Len(rest) = n - 1
      /\ \A j \in 1 .. n - 1 : rest[j] = IF j <= k - 1 THEN front[j] ELSE back[j - (k - 1)]
  <2>1. /\ front \o back \in Seq(T) /\ Len(front \o back) = Len(front) + Len(back)
        /\ \A j \in 1 .. Len(front) + Len(back) :
              (front \o back)[j] = IF j <= Len(front) THEN front[j] ELSE back[j - Len(front)]
    BY <1>2, <1>3, ConcatProperties
  <2>2. Len(front) = k - 1 /\ Len(back) = n - k /\ k - 1 + (n - k) = n - 1
    BY <1>0, <1>2, <1>3
  <2>3. /\ rest \in Seq(T) /\ Len(rest) = k - 1 + (n - k)
        /\ \A j \in 1 .. k - 1 + (n - k) :
              rest[j] = IF j <= k - 1 THEN front[j] ELSE back[j - (k - 1)]
    BY <1>4, <2>1, <2>2, Zenon
  <2> QED
    BY <2>2, <2>3, Zenon
<1>6. \A j \in 1 .. k - 1 : rest[j] = items[j]
  BY <1>0, <1>2, <1>5
<1>7. ASSUME NEW j \in k .. n - 1 PROVE rest[j] = items[j + 1]
  <2>1. j - (k - 1) \in 1 .. n - k /\ j - (k - 1) + k = j + 1 /\ j \in 1 .. n - 1 /\ ~(j <= k - 1)
    BY <1>0
  <2> QED
    BY <1>3, <1>5, <2>1
<1> QED
  BY <1>5, <1>6, <1>7 DEF n, rest

LEMMA RemoveIds ==
  ASSUME NEW items \in Seq(Requests), NEW k \in 1 .. Len(items)
  PROVE  /\ \A j \in 1 .. Len(items) : j # k => items[j].id \in IdsOf(Without(items, k))
         /\ \A j \in 1 .. Len(items) - 1 :
               \E i \in 1 .. Len(items) : i # k /\ Without(items, k)[j] = items[i]
<1> DEFINE n == Len(items)
           rest == Without(items, k)
<1>a. /\ rest \in Seq(Requests) /\ Len(rest) = n - 1
      /\ \A j \in 1 .. k - 1 : rest[j] = items[j]
      /\ \A j \in k .. n - 1 : rest[j] = items[j + 1]
  BY RemoveGoes
<1>0. n \in Nat /\ k \in 1 .. n
  OBVIOUS
<1> HIDE DEF n, rest
<1>1. DOMAIN rest = 1 .. n - 1
  BY <1>0, <1>a
<1>2. ASSUME NEW j \in 1 .. n, j # k
      PROVE  items[j].id \in IdsOf(rest)
  <2>1. CASE j < k
    <3>1. j \in 1 .. n - 1 /\ rest[j] = items[j]
      BY <1>0, <1>a, <2>1
    <3> QED
      BY <1>1, <3>1 DEF IdsOf
  <2>2. CASE j > k
    <3> DEFINE i == j - 1
    <3>1. i \in k .. n - 1 /\ i \in 1 .. n - 1 /\ i + 1 = j
      BY <1>0, <2>2
    <3>2. rest[i] = items[j]
      BY <1>a, <3>1
    <3> QED
      BY <1>1, <3>1, <3>2 DEF IdsOf
  <2> QED
    BY <1>0, <1>2, <2>1, <2>2
<1>3. ASSUME NEW j \in 1 .. n - 1
      PROVE  \E i \in 1 .. n : i # k /\ rest[j] = items[i]
  <2>1. CASE j < k
    <3>1. j \in 1 .. n /\ j # k /\ rest[j] = items[j]
      BY <1>0, <1>a, <2>1
    <3> QED
      BY <3>1
  <2>2. CASE j >= k
    <3>1. j + 1 \in 1 .. n /\ j + 1 # k /\ rest[j] = items[j + 1]
      BY <1>0, <1>a, <2>2
    <3> QED
      BY <3>1
  <2> QED
    BY <1>0, <2>1, <2>2
<1> QED
  BY <1>2, <1>3 DEF n, rest

\* What a step of a run may do.
LEMMA Outcome ==
  ASSUME NEW action, NEW approve, NEW dry, NEW result \in Results(action, approve, dry)
  PROVE  /\ result \in Outcomes
         /\ result \in {"success", "failed"} => ~dry /\ action # "block"
         /\ result \in {"success", "failed"} /\ action = "approval_required" => approve \notin {"no", "none"}
         /\ result = "dry_run" => dry \/ action = "require_dry_run"
BY DEF Results, Outcomes

\* A step of a run, for the decision and the result it has.
Stepped(r, action, result) ==
  /\ stage[r] = "running" /\ result \in Results(action, "none", body[r].dryRun)
  /\ Perform(<<r, At(r)>>, StepOf(r), action, result, FALSE)
  /\ results' = [results EXCEPT ![r] = Append(@, result)]
  /\ IF At(r) < Len(body[r].commands) /\ batchStepSucceeded(result, body[r].dryRun)
     THEN UNCHANGED stage ELSE Goto(r, "ended")
  /\ IF result = "approval_required" /\ ~body[r].editor
     THEN BindApproval(r) ELSE UNCHANGED <<pending, late, answer, shown>>

LEMMA StepIs ==
  ASSUME NEW r \in Runs, RunStep(r)
  PROVE  \E action \in Decisions[StepOf(r)], result \in Outcomes : Stepped(r, action, result)
BY Outcome DEF RunStep, Stepped

LEMMA TypeKeptRunning ==
  ASSUME Inv, NEW r \in Runs, RunStep(r) \/ RunThrows(r)
  PROVE  TypeOK'
<1>0. /\ TypeOK /\ TablesAgree /\ Behind(r) /\ r \in Handlers /\ r \notin Streams
      /\ StagesTyped /\ HandlersTyped /\ ApprovalsTyped /\ EffectsTyped
      /\ stage[r] = "running"
  BY ServerAssumption
     DEF Inv, ServerInv, Handlers, ServerAssumption, TypeOK, RunStep, RunThrows
<1>1. /\ body[r] \in Asks[r] /\ StepOf(r) \in Commands /\ <<r, At(r)>> \in Ids
  BY <1>0, BoundIs
<1>2. CASE RunStep(r)
  <2> PICK action \in Decisions[StepOf(r)], result \in Outcomes : Stepped(r, action, result)
    BY <1>2, StepIs
  <2>1. /\ Perform(<<r, At(r)>>, StepOf(r), action, result, FALSE)
        /\ results' = [results EXCEPT ![r] = Append(@, result)]
        /\ IF At(r) < Len(body[r].commands) /\ batchStepSucceeded(result, body[r].dryRun)
           THEN UNCHANGED stage ELSE Goto(r, "ended")
        /\ IF result = "approval_required" /\ ~body[r].editor
           THEN BindApproval(r) ELSE UNCHANGED <<pending, late, answer, shown>>
        /\ result \in Outcomes
    BY Outcome DEF Stepped
  <2>2. UNCHANGED <<serving, gone, todo, round, minted, body, gates, resuming>>
    BY <1>2 DEF RunStep
  <2>3. StagesTyped' /\ \A h \in Handlers : stage'[h] # "idle" => stage[h] # "idle"
    <3>1. CASE UNCHANGED stage
      BY <1>0, <3>1 DEF StagesTyped
    <3>2. CASE Goto(r, "ended")
      BY <1>0, <3>2, GotoGoes, OneMoves DEF Stages
    <3> QED
      BY <2>1, <3>1, <3>2
  <2>4. HandlersTyped'
    <3>1. results' \in [Runs -> Seq(Outcomes)]
      <4>1. results[r] \in Seq(Outcomes) /\ result \in Outcomes
        BY <1>0, <2>1 DEF HandlersTyped, Outcomes
      <4>2. Append(results[r], result) \in Seq(Outcomes)
        BY <4>1
      <4> QED
        BY <1>0, <2>1, <4>2 DEF HandlersTyped, Outcomes
    <3> QED
      BY <1>0, <2>2, <2>3, <3>1 DEF HandlersTyped, Outcomes, Handlers
  <2>5. EffectsTyped'
    <3>1. action \in Actions
      BY <1>1, DecisionsAre
    <3> QED
      BY <1>0, <1>1, <2>1, <3>1, PerformAdds DEF EffectsTyped, Added
  <2>6. ApprovalsTyped'
    <3>1. CASE UNCHANGED <<pending, late, answer, shown>>
      BY <1>0, <2>2, <3>1 DEF ApprovalsTyped, IdsOf
    <3>2. CASE BindApproval(r)
      <4>1. /\ pending' \in Seq(Requests) /\ late' \subseteq IdsOf(pending')
            /\ answer' \in [Ids -> {"none", "yes", "no"}]
            /\ shown' = IF r \in gone THEN shown
                        ELSE shown \cup {[id |-> <<r, At(r)>>, command |-> StepOf(r)]}
        BY <1>0, <3>2, BindGoes
      <4> DEFINE x == [id |-> <<r, At(r)>>, command |-> StepOf(r)]
      <4>2. shown' \subseteq shown \cup {x} /\ x \in [id : Ids, command : Commands]
        BY <1>1, <4>1
      <4> HIDE DEF x
      <4>3. shown' \subseteq [id : Ids, command : Commands]
        BY <1>0, <4>2 DEF ApprovalsTyped
      <4> QED
        BY <1>0, <2>2, <4>1, <4>3 DEF ApprovalsTyped, Requests
    <3> QED
      BY <2>1, <3>1, <3>2
  <2> QED
    BY <1>0, <2>2, <2>3, <2>4, <2>5, <2>6 DEF TypeOK
<1>3. CASE RunThrows(r)
  <2>1. UNCHANGED <<serving, gone, todo, round, minted, body, results, gates, pending, late,
                    resuming, shown, answer>>
    BY <1>3 DEF RunThrows
  <2>2. StagesTyped' /\ \A h \in Handlers : stage'[h] # "idle" => stage[h] # "idle"
    BY <1>0, <1>3, GotoGoes, OneMoves DEF RunThrows, Stages
  <2>3. EffectsTyped'
    <3>1. CASE UNCHANGED effects
      BY <1>0, <3>1 DEF EffectsTyped
    <3>2. CASE Perform(<<r, At(r)>>, StepOf(r), "allow", "failed", FALSE)
      BY <1>0, <1>1, <3>2, PerformAdds DEF EffectsTyped, Actions, Added
    <3> QED
      BY <1>3, <3>1, <3>2 DEF RunThrows
  <2> QED
    <3>1. HandlersTyped'
      BY <1>0, <2>1, <2>2 DEF HandlersTyped, Handlers
    <3>2. ApprovalsTyped'
      BY <1>0, <2>1 DEF ApprovalsTyped, IdsOf
    <3> QED
      BY <1>0, <2>1, <2>2, <2>3, <3>1, <3>2 DEF TypeOK
<1> QED
  BY <1>2, <1>3

\* What a run's approval is answered with is one request of the table, which leaves it.
LEMMA TypeKeptApproving ==
  ASSUME Inv, NEW id \in Ids, NEW yes \in BOOLEAN, Approve(id, yes)
  PROVE  TypeOK'
<1>0. TypeOK /\ StagesTyped /\ HandlersTyped /\ ApprovalsTyped /\ EffectsTyped
  BY DEF Inv, ServerInv, TypeOK
<1>1. PICK k \in DOMAIN pending :
         /\ pending[k].id = id
         /\ pending' = SubSeq(pending, 1, k - 1) \o SubSeq(pending, k + 1, Len(pending))
         /\ late' = late \ {id}
         /\ IF id \in late
            THEN resuming' = resuming /\ answer' = [answer EXCEPT ![id] = "no"]
            ELSE /\ resuming' = resuming \cup {[request |-> pending[k], yes |-> yes]}
                 /\ answer' = [answer EXCEPT ![id] = IF yes THEN "yes" ELSE "no"]
  BY DEF Approve
<1>2. UNCHANGED <<serving, handlers, gates, shown, effects>>
  BY DEF Approve
<1>a. pending \in Seq(Requests)
  BY <1>0 DEF ApprovalsTyped, Requests
<1>3. k \in 1 .. Len(pending) /\ pending[k] \in Requests /\ DOMAIN pending = 1 .. Len(pending)
  BY <1>a
<1>b. pending' = Without(pending, k)
  BY <1>1 DEF Without
<1>4. pending' \in Seq(Requests)
  BY <1>a, <1>b, <1>3, RemoveGoes
<1>5. \A j \in 1 .. Len(pending) : j # k => pending[j].id \in IdsOf(pending')
  BY <1>a, <1>b, <1>3, RemoveIds
<1>6. late' \subseteq IdsOf(pending')
  <2> SUFFICES ASSUME NEW i \in late, i # id PROVE i \in IdsOf(pending')
    BY <1>1
  <2>1. PICK j \in 1 .. Len(pending) : i = pending[j].id
    BY <1>0, <1>3 DEF ApprovalsTyped, IdsOf
  <2> QED
    BY <1>1, <1>5, <2>1
<1>7. resuming' \subseteq [request : Requests, yes : BOOLEAN]
  <2> DEFINE x == [request |-> pending[k], yes |-> yes]
  <2>1. x \in [request : Requests, yes : BOOLEAN]
    BY <1>3
  <2>2. resuming' \subseteq resuming \cup {x}
    BY <1>1
  <2> HIDE DEF x
  <2> QED
    BY <1>0, <2>1, <2>2 DEF ApprovalsTyped, Requests
<1>8. answer' \in [Ids -> {"none", "yes", "no"}]
  BY <1>0, <1>1 DEF ApprovalsTyped
<1>9. ApprovalsTyped' /\ EffectsTyped'
  BY <1>0, <1>2, <1>4, <1>6, <1>7, <1>8 DEF ApprovalsTyped, EffectsTyped, Requests
<1>10. StagesTyped' /\ HandlersTyped'
  BY <1>0, <1>2 DEF StagesTyped, HandlersTyped, handlers
<1> QED
  BY <1>0, <1>2, <1>9, <1>10 DEF TypeOK

\* The other steps of a run's approvals, of requests and of the server.
LEMMA TypeKeptElse ==
  ASSUME Inv,
         \/ \E r \in Runs : \E b \in Asks[r] : Post(r, b)
         \/ Resumed \/ Expire \/ Close \/ Closed
  PROVE  TypeOK'
<1>0. /\ TypeOK /\ StagesTyped /\ HandlersTyped /\ ApprovalsTyped /\ EffectsTyped
      /\ Streams \cap Runs = {} /\ Handlers = Streams \cup Runs
  BY ServerAssumption DEF Inv, ServerInv, TypeOK, ServerAssumption, Handlers
<1>1. CASE \E r \in Runs : \E b \in Asks[r] : Post(r, b)
  <2>1. PICK r \in Runs : \E b \in Asks[r] : Post(r, b)
    BY <1>1
  <2>2. PICK b \in Asks[r] : Post(r, b)
    BY <2>1
  <2> DEFINE to == IF Admitted(b) THEN "running" ELSE "ended"
  <2>3. to \in {"running", "ended"} /\ Goto(r, to) /\ body' = [body EXCEPT ![r] = b]
        /\ UNCHANGED <<serving, gone, todo, round, minted, results, gates, pending, late,
                       resuming, shown, answer, effects>>
    BY <2>2 DEF Post
  <2> HIDE DEF to
  <2>4. /\ stage' \in [Handlers -> Stages] /\ stage'[r] = to
        /\ \A h \in Handlers \ {r} : stage'[h] = stage[h]
    BY <1>0, <2>3, GotoGoes DEF Stages
  <2>5. StagesTyped'
    BY <1>0, <2>3, <2>4, OneMoves
  <2>6. DOMAIN body' = Runs /\ \A q \in Runs : stage'[q] # "idle" => body'[q] \in Asks[q]
    BY <1>0, <2>3, <2>4 DEF HandlersTyped
  <2>7. HandlersTyped'
    BY <1>0, <2>3, <2>6 DEF HandlersTyped
  <2>8. ApprovalsTyped' /\ EffectsTyped'
    BY <1>0, <2>3 DEF ApprovalsTyped, EffectsTyped, IdsOf
  <2> QED
    BY <1>0, <2>3, <2>5, <2>7, <2>8 DEF TypeOK
<1>2. CASE Resumed
  <2>1. PICK x \in resuming : Resume(x)
    BY <1>2 DEF Resumed
  <2>2. x.request \in Requests
    BY <1>0 DEF ApprovalsTyped, Requests
  <2>3. EffectsTyped'
    <3>1. PICK action \in Decisions[x.request.command], result \in Outcomes :
             Perform(x.request.id, x.request.command, action, result, TRUE)
      BY <2>1, Outcome DEF Resume
    <3>2. x.request.id \in Ids /\ x.request.command \in Commands
      BY <2>2 DEF Requests
    <3>3. action \in Actions
      BY <3>2, DecisionsAre
    <3> QED
      BY <1>0, <3>1, <3>2, <3>3, PerformAdds DEF EffectsTyped, Added
  <2>4. resuming' = resuming \ {x}
        /\ UNCHANGED <<serving, handlers, gates, pending, late, shown, answer>>
    BY <2>1 DEF Resume
  <2>5. StagesTyped' /\ HandlersTyped'
    BY <1>0, <2>4 DEF StagesTyped, HandlersTyped, handlers
  <2>6. ApprovalsTyped'
    BY <1>0, <2>4 DEF ApprovalsTyped, IdsOf
  <2> QED
    BY <1>0, <2>3, <2>4, <2>5, <2>6 DEF TypeOK
<1>3. CASE Expire
  <2>1. late' \subseteq IdsOf(pending)
    BY <1>0, <1>3 DEF Expire, ApprovalsTyped, IdsOf
  <2>2. UNCHANGED <<serving, handlers, gates, pending, resuming, shown, answer, effects>>
    BY <1>3 DEF Expire
  <2>3. StagesTyped' /\ HandlersTyped' /\ EffectsTyped'
    BY <1>0, <2>2 DEF StagesTyped, HandlersTyped, handlers, EffectsTyped
  <2>4. ApprovalsTyped'
    BY <1>0, <2>1, <2>2 DEF ApprovalsTyped, IdsOf
  <2> QED
    BY <1>0, <2>2, <2>3, <2>4 DEF TypeOK
<1>4. CASE Close
  <2>1. /\ todo' \in [Streams -> Seq(CallRecords)] /\ stage' \in [Handlers -> Stages]
        /\ \A h \in Handlers : stage[h] # "parked" => stage'[h] = stage[h]
        /\ \A s \in Streams : stage[s] = "parked" => stage'[s] \in {"rehearse", "plan", "ended"}
        /\ gates' = {} /\ pending' = <<>> /\ late' = {}
        /\ answer' \in [Ids -> {"none", "yes", "no"}]
    BY <1>4, CloseSettles
  <2>2. serving' = "closing" /\ UNCHANGED <<gone, round, minted, body, results, resuming, shown, effects>>
    BY <1>4 DEF Close
  <2>3. StagesTyped'
    BY <1>0, <2>1 DEF StagesTyped, Stages
  <2>4. HandlersTyped'
    BY <1>0, <2>1, <2>2 DEF HandlersTyped, CallRecords, StagesTyped
  <2>5. ApprovalsTyped' /\ EffectsTyped'
    BY <1>0, <2>1, <2>2 DEF ApprovalsTyped, EffectsTyped, IdsOf
  <2> QED
    BY <2>2, <2>3, <2>4, <2>5 DEF TypeOK
<1>5. CASE Closed
  <2>1. serving' = "closed" /\ UNCHANGED <<handlers, gates, pending, late, resuming, shown,
                                            answer, effects>>
    BY <1>5 DEF Closed
  <2>2. StagesTyped' /\ HandlersTyped'
    BY <1>0, <2>1 DEF StagesTyped, HandlersTyped, handlers
  <2>3. ApprovalsTyped' /\ EffectsTyped'
    BY <1>0, <2>1 DEF ApprovalsTyped, EffectsTyped, IdsOf
  <2> QED
    BY <2>1, <2>2, <2>3 DEF TypeOK
<1> QED
  BY <1>1, <1>2, <1>3, <1>4, <1>5

LEMMA TypeKept ==
  ASSUME Inv, Next
  PROVE  TypeOK'
<1>1. ASSUME NEW s \in Streams, AskAgent(s) PROVE TypeOK'
  BY <1>1, TypeKeptMoving
<1>2. ASSUME NEW h \in Handlers, Proceed(h) PROVE TypeOK'
  <2>1. CASE h \in Streams
    <3>1. CASE GateTimeout(h)
      <4>1. gone' \subseteq Handlers
        BY <3>1 DEF GateTimeout, Inv, ServerInv, TypeOK, HandlersTyped
      <4>2. {h} \in SUBSET ParkedOf(Streams) /\ Settle({h}, FALSE)
        BY <2>1, <3>1, Settles
      <4> QED
        BY <3>1, <4>1, <4>2, TypeKeptSettling DEF GateTimeout
    <3>2. CASE RealRun(h) \/ CallThrows(h)
      BY <2>1, <3>2, TypeKeptActing
    <3>3. CASE (\E t \in Turns : Turn(h, t)) \/ TurnFails(h) \/ Pass(h) \/ Rehearsed(h)
      BY <2>1, <3>3, TypeKeptMoving
    <3> QED
      BY <1>2, <2>1, <3>1, <3>2, <3>3 DEF Proceed
  <2>2. CASE h \notin Streams
    <3>1. h \in Runs
      BY <2>2 DEF Handlers
    <3> QED
      BY <1>2, <2>2, <3>1, TypeKeptRunning DEF Proceed
  <2> QED
    BY <2>1, <2>2
<1>3. ASSUME NEW h \in Handlers, Disconnect(h) PROVE TypeOK'
  <2>1. gone' \subseteq Handlers
    BY <1>3 DEF Disconnect, Inv, ServerInv, TypeOK, HandlersTyped
  <2>2. ParkedOf({h} \cap Streams) \in SUBSET ParkedOf(Streams)
        /\ Settle(ParkedOf({h} \cap Streams), FALSE)
    BY <1>3, Settles
  <2> QED
    BY <1>3, <2>1, <2>2, TypeKeptSettling DEF Disconnect
<1>4. ASSUME NEW i \in Ids, NEW yes \in BOOLEAN, AnswerGate(i, yes) PROVE TypeOK'
  <2>1. gone' \subseteq Handlers
    BY <1>4 DEF AnswerGate, Inv, ServerInv, TypeOK, HandlersTyped
  <2>2. {i[1]} \in SUBSET ParkedOf(Streams) /\ Settle({i[1]}, yes)
    BY <1>4, Settles
  <2> QED
    BY <1>4, <2>1, <2>2, TypeKeptSettling DEF AnswerGate
<1>5. ASSUME NEW i \in Ids, NEW yes \in BOOLEAN, Approve(i, yes) PROVE TypeOK'
  BY <1>5, TypeKeptApproving
<1> QED
  BY <1>1, <1>2, <1>3, <1>4, <1>5, TypeKeptElse DEF Next

-----------------------------------------------------------------------------
(* The invariant, said of each stream and of each run: a step changes what *)
(* holds of one of them and leaves the others as they are.                 *)

StreamOK(s) ==
  /\ {g \in gates : g[1] = s} = IF stage[s] = "parked" THEN {Current(s)} ELSE {}
  /\ \A g \in gates : g[1] = s => answer[g] = "none"
  /\ Proceeding(s) /\ AskedOfAgent(s)
  /\ \A i \in Ids : i[1] = s /\ i[2] > minted[s] => answer[i] = "none"
  /\ \A x \in shown : x.id[1] = s => x.id[2] <= minted[s]
  /\ \A e \in effects : e.id[1] = s =>
        /\ e.approved /\ e.nth = 1 /\ answer[e.id] = "yes"
        /\ [id |-> e.id, command |-> e.command] \in shown

EffectOK(e, r) ==
  LET outcomes == results[r] IN
  /\ e.approved => /\ e.nth = 1 /\ [id |-> e.id, command |-> e.command] \in shown
                   /\ answer[e.id] # "none"
                   /\ outcomes[e.id[2]] = "approval_required" /\ Len(outcomes) = e.id[2]
  /\ e.action = "approval_required" => e.approved /\ answer[e.id] = "yes"
  /\ \A i \in 1 .. e.id[2] - 1 : outcomes[i] = "success"

ResumingOK(x) ==
  /\ StoppedAt(x.request) /\ answer[x.request.id] = IF x.yes THEN "yes" ELSE "no"
  /\ [id |-> x.request.id, command |-> x.request.command] \in shown
  /\ \A e \in effects : e.approved => e.id # x.request.id
  /\ \A y \in resuming : y.request.id = x.request.id => y = x

RunOK(r) ==
  /\ Behind(r)
  /\ \A k \in DOMAIN pending : pending[k].id[1] = r =>
        StoppedAt(pending[k]) /\ answer[pending[k].id] = "none"
  /\ \A x \in resuming : x.request.id[1] = r => ResumingOK(x)
  /\ \A i \in Ids : i[1] = r /\ i[2] > Len(results[r]) => answer[i] = "none"
  /\ \A x \in shown : x.id[1] = r =>
        x.id[2] <= Len(results[r]) /\ x.command = body[r].commands[x.id[2]]
  /\ \A e \in effects : e.id[1] = r => EffectOK(e, r)

TablesOK ==
  /\ \A g \in gates : g[1] \in Streams
  /\ Len(pending) <= Cap /\ \A k \in DOMAIN pending : pending[k].id[1] \in Runs
  /\ \A j, k \in DOMAIN pending : pending[j].id = pending[k].id => j = k
  /\ \A x \in resuming : x.request.id[1] \in Runs

Whole == TypeOK /\ TablesOK /\ (\A s \in Streams : StreamOK(s)) /\ \A r \in Runs : RunOK(r)

LEMMA IdsAre ==
  ASSUME NEW i \in Ids
  PROVE  i[1] \in Streams \cup Runs /\ i[2] \in Nat /\ i = <<i[1], i[2]>>
BY ServerAssumption DEF Ids, ServerAssumption

LEMMA InvIsWhole == Inv => Whole
<1> SUFFICES ASSUME Inv PROVE Whole
  OBVIOUS
<1>0. /\ TypeOK /\ TablesAgree /\ UnusedIds /\ AskedOfRun /\ ApprovedAsShown /\ BatchInOrder
      /\ \A s \in Streams : Proceeding(s) /\ AskedOfAgent(s)
      /\ \A r \in Runs : Behind(r)
      /\ Streams \cap Runs = {}
  BY ServerAssumption DEF Inv, ServerInv, ServerAssumption
<1>a. \A e \in effects : e.id \in Ids
  BY <1>0 DEF TypeOK, EffectsTyped
<1>b. \A x \in shown : x.id \in Ids
  BY <1>0 DEF TypeOK, ApprovalsTyped
<1>c. \A s \in Streams : minted[s] \in Nat
  BY <1>0 DEF TypeOK, HandlersTyped
<1>d. \A r \in Runs : Len(results[r]) \in Nat
  BY <1>0 DEF TypeOK, HandlersTyped
<1>1. TablesOK
  BY <1>0 DEF TablesOK, TablesAgree, AskedOfRun, StoppedAt
<1>2. ASSUME NEW s \in Streams PROVE StreamOK(s)
  <2>1. /\ {g \in gates : g[1] = s} = IF stage[s] = "parked" THEN {Current(s)} ELSE {}
        /\ \A g \in gates : g[1] = s => answer[g] = "none"
    BY <1>0 DEF TablesAgree, Current
  <2>2. \A i \in Ids : i[1] = s /\ i[2] > minted[s] => answer[i] = "none"
    BY <1>0, <1>c, IdsAre DEF UnusedIds, Given
  <2>3. \A x \in shown : x.id[1] = s => x.id[2] <= minted[s]
    BY <1>0 DEF UnusedIds, Given
  <2>4. \A e \in effects : e.id[1] = s =>
           /\ e.approved /\ e.nth = 1 /\ answer[e.id] = "yes"
           /\ [id |-> e.id, command |-> e.command] \in shown
    BY <1>0 DEF ApprovedAsShown
  <2> QED
    BY <1>0, <2>1, <2>2, <2>3, <2>4 DEF StreamOK
<1>3. ASSUME NEW r \in Runs PROVE RunOK(r)
  <2>0. r \notin Streams
    BY <1>0
  <2>1. \A k \in DOMAIN pending : pending[k].id[1] = r =>
           StoppedAt(pending[k]) /\ answer[pending[k].id] = "none"
    BY <1>0 DEF TablesAgree, AskedOfRun
  <2>2. \A x \in resuming : x.request.id[1] = r => ResumingOK(x)
    BY <1>0 DEF AskedOfRun, ResumingOK
  <2>3. \A i \in Ids : i[1] = r /\ i[2] > Len(results[r]) => answer[i] = "none"
    BY <1>0, <1>d, <2>0, IdsAre DEF UnusedIds, Given
  <2>4. \A x \in shown : x.id[1] = r =>
           x.id[2] <= Len(results[r]) /\ x.command = body[r].commands[x.id[2]]
    BY <1>0, <2>0 DEF UnusedIds, Given, AskedOfRun
  <2>5. \A e \in effects : e.id[1] = r => EffectOK(e, r)
    BY <1>0, <2>0 DEF ApprovedAsShown, BatchInOrder, UnusedIds, EffectOK
  <2> QED
    BY <1>0, <2>1, <2>2, <2>3, <2>4, <2>5 DEF RunOK
<1> QED
  BY <1>0, <1>1, <1>2, <1>3 DEF Whole

LEMMA WholeIsInv == Whole => Inv
<1> SUFFICES ASSUME Whole PROVE Inv
  OBVIOUS
<1>0. /\ TypeOK /\ TablesOK /\ (\A s \in Streams : StreamOK(s)) /\ \A r \in Runs : RunOK(r)
      /\ Streams \cap Runs = {}
  BY ServerAssumption DEF Whole, ServerAssumption
<1>a. \A e \in effects : e.id \in Ids /\ e.id[1] \in Streams \cup Runs /\ e.approved \in BOOLEAN
  BY <1>0, IdsAre DEF TypeOK, EffectsTyped
<1>b. \A x \in shown : x.id \in Ids /\ x.id[1] \in Streams \cup Runs
  BY <1>0, IdsAre DEF TypeOK, ApprovalsTyped
<1>c. (\A s \in Streams : minted[s] \in Nat) /\ \A r \in Runs : Len(results[r]) \in Nat
  BY <1>0 DEF TypeOK, HandlersTyped
<1>1. TablesAgree
  <2>1. \A s \in Streams :
           {g \in gates : g[1] = s} = IF stage[s] = "parked" THEN {<<s, minted[s]>>} ELSE {}
    BY <1>0 DEF StreamOK, Current
  <2>2. \A g \in gates : g[1] \in Streams /\ answer[g] = "none"
    BY <1>0 DEF StreamOK, TablesOK
  <2>3. \A k \in DOMAIN pending : pending[k].id[1] \in Runs /\ answer[pending[k].id] = "none"
    BY <1>0 DEF RunOK, TablesOK
  <2> QED
    BY <1>0, <2>1, <2>2, <2>3 DEF TablesAgree, TablesOK
<1>2. UnusedIds
  <2>1. ASSUME NEW i \in Ids, ~Given(i) PROVE answer[i] = "none"
    <3>1. CASE i[1] \in Streams
      BY <1>0, <1>c, <2>1, <3>1, IdsAre DEF StreamOK, Given
    <3>2. CASE i[1] \in Runs
      BY <1>0, <1>c, <2>1, <3>2, IdsAre DEF RunOK, Given
    <3> QED
      BY <3>1, <3>2, IdsAre
  <2>2. ASSUME NEW x \in shown PROVE Given(x.id)
    <3>1. CASE x.id[1] \in Streams
      BY <1>0, <3>1 DEF StreamOK, Given
    <3>2. CASE x.id[1] \in Runs
      BY <1>0, <3>2 DEF RunOK, Given
    <3> QED
      BY <1>b, <3>1, <3>2
  <2>3. ASSUME NEW e \in effects, e.approved PROVE answer[e.id] # "none"
    <3>1. CASE e.id[1] \in Streams
      BY <1>0, <3>1 DEF StreamOK
    <3>2. CASE e.id[1] \in Runs
      BY <1>0, <2>3, <3>2 DEF RunOK, EffectOK
    <3> QED
      BY <1>a, <3>1, <3>2
  <2> QED
    BY <2>1, <2>2, <2>3 DEF UnusedIds
<1>3. AskedOfRun
  <2>1. \A x \in shown : x.id[1] \in Runs => x.command = body[x.id[1]].commands[x.id[2]]
    BY <1>0 DEF RunOK
  <2>2. \A k \in DOMAIN pending : StoppedAt(pending[k])
    BY <1>0 DEF RunOK, TablesOK
  <2>3. \A x \in resuming : ResumingOK(x)
    BY <1>0 DEF RunOK, TablesOK
  <2> QED
    BY <2>1, <2>2, <2>3 DEF AskedOfRun, ResumingOK
<1>4. (\A s \in Streams : Proceeding(s) /\ AskedOfAgent(s)) /\ \A r \in Runs : Behind(r)
  BY <1>0 DEF StreamOK, RunOK
<1>5. ASSUME NEW e \in effects
      PROVE  /\ e.approved => e.nth = 1 /\ [id |-> e.id, command |-> e.command] \in shown
             /\ e.id[1] \in Streams => e.approved /\ answer[e.id] = "yes"
             /\ e.action = "approval_required" => e.approved /\ answer[e.id] = "yes"
  <2>1. CASE e.id[1] \in Streams
    BY <1>0, <2>1 DEF StreamOK
  <2>2. CASE e.id[1] \in Runs
    <3>1. EffectOK(e, e.id[1]) /\ e.id[1] \notin Streams
      BY <1>0, <2>2 DEF RunOK
    <3> QED
      BY <3>1 DEF EffectOK
  <2> QED
    BY <1>a, <2>1, <2>2
<1>6. BatchInOrder
  BY <1>0 DEF RunOK, EffectOK, BatchInOrder
<1> QED
  BY <1>0, <1>1, <1>2, <1>3, <1>4, <1>5, <1>6 DEF Inv, ServerInv, ApprovedAsShown

\* A step that is not about a stream leaves what holds of it.
SameForStream(s) ==
  /\ stage'[s] = stage[s] /\ todo'[s] = todo[s] /\ round'[s] = round[s] /\ minted'[s] = minted[s]
  /\ {g \in gates' : g[1] = s} = {g \in gates : g[1] = s}
  /\ \A i \in Ids : i[1] = s => answer'[i] = answer[i]
  /\ shown \subseteq shown' /\ \A x \in shown' : x.id[1] = s => x \in shown
  /\ \A e \in effects' : e.id[1] = s => e \in effects

LEMMA StreamKept ==
  ASSUME TypeOK, TypeOK', NEW s \in Streams, StreamOK(s), SameForStream(s)
  PROVE  StreamOK(s)'
<1>0. /\ \A g \in gates : g \in Ids /\ \A x \in shown : x.id \in Ids
      /\ \A e \in effects : e.id \in Ids
  BY DEF TypeOK, ApprovalsTyped, EffectsTyped
<1>1. Current(s)' = Current(s) /\ Current(s)[1] = s
  BY DEF SameForStream, Current
<1>2. {g \in gates' : g[1] = s} = IF stage'[s] = "parked" THEN {Current(s)'} ELSE {}
  BY <1>1 DEF StreamOK, SameForStream
<1>3. \A g \in gates' : g[1] = s => g \in gates /\ answer'[g] = "none"
  <2> SUFFICES ASSUME NEW g \in gates', g[1] = s PROVE g \in gates /\ answer'[g] = "none"
    OBVIOUS
  <2>1. g \in {f \in gates : f[1] = s}
    BY DEF SameForStream
  <2>2. g \in Ids /\ answer[g] = "none"
    BY <1>0, <2>1 DEF StreamOK
  <2> QED
    BY <2>1, <2>2 DEF SameForStream
<1>4. Proceeding(s)'
  BY DEF StreamOK, SameForStream, Proceeding, Outstanding
<1>5. AskedOfAgent(s)'
  <2>1. ASSUME stage'[s] = "parked", NEW x \in shown', x.id = Current(s)
        PROVE  x.command = Head(todo'[s]).command
    BY <1>1, <2>1 DEF StreamOK, SameForStream, AskedOfAgent
  <2>2. ASSUME stage'[s] = "real"
        PROVE  /\ answer'[Current(s)] = "yes"
               /\ [id |-> Current(s), command |-> Head(todo'[s]).command] \in shown'
               /\ \A e \in effects' : e.id # Current(s)
    <3>1. Proceeding(s) /\ stage[s] = "real"
      BY <2>2 DEF StreamOK, SameForStream
    <3>2. Current(s) \in Ids
      BY <3>1, CurrentId
    <3> QED
      BY <1>1, <2>2, <3>1, <3>2 DEF StreamOK, SameForStream, AskedOfAgent
  <2> QED
    BY <1>1, <2>1, <2>2 DEF AskedOfAgent
<1>6. /\ \A i \in Ids : i[1] = s /\ i[2] > minted'[s] => answer'[i] = "none"
      /\ \A x \in shown' : x.id[1] = s => x.id[2] <= minted'[s]
  BY DEF StreamOK, SameForStream
<1>7. \A e \in effects' : e.id[1] = s =>
         /\ e.approved /\ e.nth = 1 /\ answer'[e.id] = "yes"
         /\ [id |-> e.id, command |-> e.command] \in shown'
  BY <1>0 DEF StreamOK, SameForStream
<1> QED
  BY <1>2, <1>3, <1>4, <1>5, <1>6, <1>7 DEF StreamOK

\* Nor does one that is not about a run, though its approval may be dropped for another's.
SameForRun(r) ==
  /\ stage'[r] = stage[r] /\ body'[r] = body[r] /\ results'[r] = results[r]
  /\ \A k \in DOMAIN pending' : pending'[k].id[1] = r =>
        \E j \in DOMAIN pending : pending'[k] = pending[j]
  /\ \A i \in Ids : i[1] = r =>
        answer'[i] = answer[i] \/ i \in IdsOf(pending) \ IdsOf(pending')
  /\ \A x \in resuming' : x.request.id[1] = r => x \in resuming
  /\ shown \subseteq shown' /\ \A x \in shown' : x.id[1] = r => x \in shown
  /\ \A e \in effects' : e.id[1] = r => e \in effects

LEMMA RunKept ==
  ASSUME TypeOK, TypeOK', NEW r \in Runs, RunOK(r), SameForRun(r)
  PROVE  RunOK(r)'
<1>0. /\ \A x \in resuming : x.request.id \in Ids
      /\ \A e \in effects : e.id \in Ids
      /\ results[r] \in Seq(Outcomes) /\ Len(results[r]) \in Nat
      /\ pending \in Seq(Requests) /\ pending' \in Seq(Requests)
  BY DEF TypeOK, ApprovalsTyped, EffectsTyped, HandlersTyped, Outcomes, Requests
<1>1. ASSUME NEW i \in Ids, i[1] = r, answer[i] # "none" \/ i[2] > Len(results[r])
      PROVE  answer'[i] = answer[i]
  <2> SUFFICES i \notin IdsOf(pending)
    BY <1>1 DEF SameForRun
  <2>1. ASSUME i \in IdsOf(pending) PROVE FALSE
    <3>1. PICK k \in DOMAIN pending : pending[k].id = i
      BY <2>1 DEF IdsOf
    <3>2. StoppedAt(pending[k]) /\ answer[i] = "none"
      BY <1>1, <3>1 DEF RunOK
    <3>3. i[2] = Len(results[r])
      BY <1>1, <3>1, <3>2 DEF StoppedAt
    <3> QED
      BY <1>0, <1>1, <3>2, <3>3
  <2> QED
    BY <2>1
<1>2. \A x : x.id[1] = r => StoppedAt(x)' = StoppedAt(x)
  BY DEF SameForRun, StoppedAt
<1>3. Behind(r)'
  BY DEF RunOK, SameForRun, Behind, At
<1>4. ASSUME NEW k \in DOMAIN pending', pending'[k].id[1] = r
      PROVE  StoppedAt(pending[k])' /\ answer'[pending'[k].id] = "none"
  <2>1. PICK j \in DOMAIN pending : pending'[k] = pending[j]
    BY <1>4 DEF SameForRun
  <2>2. StoppedAt(pending[j]) /\ answer[pending[j].id] = "none"
    BY <1>4, <2>1 DEF RunOK
  <2>3. pending[j].id \in Ids /\ pending[j].id \in IdsOf(pending')
    <3>1. pending[j] \in Requests
      BY <1>0
    <3> QED
      BY <2>1, <3>1 DEF Requests, IdsOf
  <2>4. StoppedAt(pending[k])'
    BY <1>4, <2>1, <2>2 DEF StoppedAt, SameForRun
  <2> QED
    BY <1>4, <2>1, <2>2, <2>3, <2>4 DEF SameForRun
<1>5. ASSUME NEW x \in resuming', x.request.id[1] = r
      PROVE  ResumingOK(x)'
  <2>1. x \in resuming /\ ResumingOK(x) /\ x.request.id \in Ids
    BY <1>0, <1>5 DEF RunOK, SameForRun
  <2>2. answer'[x.request.id] = answer[x.request.id]
    BY <1>1, <1>5, <2>1 DEF ResumingOK
  <2>3. StoppedAt(x.request)'
    BY <1>2, <1>5, <2>1 DEF ResumingOK
  <2>4. \A e \in effects' : e.approved => e.id # x.request.id
    BY <1>5, <2>1 DEF ResumingOK, SameForRun
  <2>5. \A y \in resuming' : y.request.id = x.request.id => y = x
    BY <1>5, <2>1 DEF ResumingOK, SameForRun
  <2>6. [id |-> x.request.id, command |-> x.request.command] \in shown'
    BY <2>1 DEF ResumingOK, SameForRun
  <2> QED
    BY <2>1, <2>2, <2>3, <2>4, <2>5, <2>6 DEF ResumingOK
<1>6. \A i \in Ids : i[1] = r /\ i[2] > Len(results'[r]) => answer'[i] = "none"
  BY <1>1 DEF RunOK, SameForRun
<1>7. \A x \in shown' : x.id[1] = r =>
         x.id[2] <= Len(results'[r]) /\ x.command = body'[r].commands[x.id[2]]
  BY DEF RunOK, SameForRun
<1>8. ASSUME NEW e \in effects', e.id[1] = r
      PROVE  EffectOK(e, r)'
  <2>1. e \in effects /\ EffectOK(e, r) /\ e.id \in Ids /\ results'[r] = results[r]
        /\ shown \subseteq shown'
    BY <1>0, <1>8 DEF RunOK, SameForRun
  <2>2. answer[e.id] # "none" => answer'[e.id] = answer[e.id]
    BY <1>1, <1>8, <2>1
  <2> QED
    BY <2>1, <2>2 DEF EffectOK
<1> QED
  BY <1>3, <1>4, <1>5, <1>6, <1>7, <1>8 DEF RunOK

\* So a step of one stream has to be looked at for that stream alone,
LEMMA StreamStep ==
  ASSUME Whole, TypeOK', NEW s \in Streams, StreamOK(s)',
         UNCHANGED <<body, results, pending, resuming>>,
         \A h \in Handlers \ {s} : stage'[h] = stage[h],
         \A t \in Streams \ {s} :
            todo'[t] = todo[t] /\ round'[t] = round[t] /\ minted'[t] = minted[t],
         \A g : g \in gates' /\ g[1] # s <=> g \in gates /\ g[1] # s,
         \A i \in Ids : i[1] # s => answer'[i] = answer[i],
         shown \subseteq shown', \A x \in shown' : x.id[1] # s => x \in shown,
         \A e \in effects' : e.id[1] # s => e \in effects
  PROVE  Whole'
<1>0. /\ TypeOK /\ TablesOK /\ (\A t \in Streams : StreamOK(t)) /\ \A r \in Runs : RunOK(r)
      /\ Streams \cap Runs = {} /\ Handlers = Streams \cup Runs
  BY ServerAssumption DEF Whole, ServerAssumption, Handlers
<1>1. ASSUME NEW t \in Streams \ {s} PROVE StreamOK(t)'
  <2>1. SameForStream(t)
    BY <1>0 DEF SameForStream
  <2> QED
    BY <1>0, <2>1, StreamKept
<1>2. ASSUME NEW r \in Runs PROVE RunOK(r)'
  <2>1. r \in Handlers \ {s} /\ r # s
    BY <1>0
  <2>2. SameForRun(r)
    BY <1>0, <2>1 DEF SameForRun
  <2> QED
    BY <1>0, <2>2, RunKept
<1>3. TablesOK'
  BY <1>0 DEF TablesOK
<1> QED
  BY <1>1, <1>2, <1>3 DEF Whole

\* and one of a run for that run and for the tables.
LEMMA RunsStep ==
  ASSUME Whole, TypeOK', NEW r \in Runs, RunOK(r)', TablesOK',
         UNCHANGED <<todo, round, minted, gates>>,
         \A h \in Handlers \ {r} : stage'[h] = stage[h],
         \A q \in Runs \ {r} : body'[q] = body[q] /\ results'[q] = results[q],
         \A k \in DOMAIN pending' : pending'[k].id[1] # r =>
            \E j \in DOMAIN pending : pending'[k] = pending[j],
         \A i \in Ids : i[1] # r =>
            answer'[i] = answer[i] \/ i \in IdsOf(pending) \ IdsOf(pending'),
         \A x \in resuming' : x.request.id[1] # r => x \in resuming,
         shown \subseteq shown', \A x \in shown' : x.id[1] # r => x \in shown,
         \A e \in effects' : e.id[1] # r => e \in effects
  PROVE  Whole'
<1>0. /\ TypeOK /\ TablesOK /\ (\A t \in Streams : StreamOK(t)) /\ \A q \in Runs : RunOK(q)
      /\ Streams \cap Runs = {} /\ Handlers = Streams \cup Runs
  BY ServerAssumption DEF Whole, ServerAssumption, Handlers
<1>1. ASSUME NEW t \in Streams PROVE StreamOK(t)'
  <2>0. t # r /\ t \in Handlers \ {r}
    BY <1>0
  <2>1. \A i \in Ids : i[1] = t => i \notin IdsOf(pending)
    BY <1>0 DEF TablesOK, IdsOf
  <2>2. SameForStream(t)
    BY <1>0, <2>0, <2>1 DEF SameForStream
  <2> QED
    BY <1>0, <2>2, StreamKept
<1>2. ASSUME NEW q \in Runs \ {r} PROVE RunOK(q)'
  <2>1. q \in Handlers \ {r} /\ q # r
    BY <1>0
  <2>2. SameForRun(q)
    BY <1>0, <2>1 DEF SameForRun
  <2> QED
    BY <1>0, <2>2, RunKept
<1> QED
  BY <1>1, <1>2 DEF Whole

-----------------------------------------------------------------------------
(* The steps of a stream.                                                  *)

\* One that leaves the gates alone.
LEMMA Moved ==
  ASSUME TypeOK, NEW s \in Streams, StreamOK(s), UNCHANGED <<gates, answer, shown, minted>>,
         stage[s] # "parked", stage'[s] \in {"plan", "rehearse", "ended"}, Proceeding(s)',
         \A e \in effects' : e.id[1] = s =>
            \/ e \in effects
            \/ /\ e.approved /\ e.nth = 1 /\ answer[e.id] = "yes"
               /\ [id |-> e.id, command |-> e.command] \in shown
  PROVE  StreamOK(s)'
<1>1. {g \in gates' : g[1] = s} = {}
  BY DEF StreamOK
<1>2. AskedOfAgent(s)'
  BY DEF AskedOfAgent
<1>3. /\ \A i \in Ids : i[1] = s /\ i[2] > minted'[s] => answer'[i] = "none"
      /\ \A x \in shown' : x.id[1] = s => x.id[2] <= minted'[s]
  BY DEF StreamOK
<1>4. \A e \in effects' : e.id[1] = s =>
         /\ e.approved /\ e.nth = 1 /\ answer'[e.id] = "yes"
         /\ [id |-> e.id, command |-> e.command] \in shown'
  BY DEF StreamOK
<1> QED
  BY <1>1, <1>2, <1>3, <1>4 DEF StreamOK

\* A stream's numbers, and what it has left of its turn.
LEMMA NumbersOf ==
  ASSUME TypeOK, NEW s \in Streams
  PROVE  /\ minted[s] \in Nat /\ round[s] \in 0 .. MaxSteps /\ round[s] \in Nat
         /\ MaxSteps \in Nat \ {0} /\ MaxCalls \in Nat /\ round[s] * MaxCalls \in Nat
         /\ todo[s] \in Seq(CallRecords) /\ Len(todo[s]) \in Nat
<1>1. minted[s] \in Nat /\ round[s] \in 0 .. MaxSteps
  BY DEF TypeOK, HandlersTyped
<1>2. MaxSteps \in Nat \ {0} /\ MaxCalls \in Nat
  BY ServerAssumption DEF ServerAssumption
<1>3. todo[s] \in Seq(CallRecords)
  BY DEF TypeOK, HandlersTyped, CallRecords
<1>4. Len(todo[s]) \in Nat
  BY <1>3
<1>5. round[s] \in Nat /\ round[s] * MaxCalls \in Nat
  BY <1>1, <1>2
<1> QED
  BY <1>1, <1>2, <1>3, <1>4, <1>5

LEMMA ProceedsWithNext ==
  ASSUME TypeOK, NEW s \in Streams, Proceeding(s), stage[s] \in {"rehearse", "real"},
         NextCall(s), UNCHANGED <<round, minted>>
  PROVE  Proceeding(s)'
<1>1. todo[s] # <<>>
  BY DEF Proceeding
<1>2. /\ stage'[s] \in {"rehearse", "plan", "ended"}
      /\ stage'[s] = "rehearse" => todo'[s] # <<>>
      /\ stage'[s] = "plan" => round[s] < MaxSteps
      /\ Len(todo'[s]) = Len(todo[s]) - 1
  BY <1>1, NextCallGoes
<1>3. stage'[s] # "ended" => minted'[s] + Outstanding(s)' <= round'[s] * MaxCalls
  <2> DEFINE p == round[s] * MaxCalls
             n == Len(todo[s])
  <2>1. p \in Nat /\ n \in Nat /\ minted[s] \in Nat
    BY NumbersOf
  <2>2. minted[s] + (n - IF stage[s] = "real" THEN 1 ELSE 0) <= p
    BY DEF Proceeding, Outstanding
  <2>3. Outstanding(s)' = n - 1 /\ minted'[s] = minted[s] /\ round'[s] * MaxCalls = p
    <3>1. Outstanding(s)' = Len(todo'[s]) - 0
      BY <1>2 DEF Outstanding
    <3> HIDE DEF n
    <3>2. Len(todo'[s]) = n - 1
      BY <1>2 DEF n
    <3> QED
      BY <2>1, <3>1, <3>2
  <2> HIDE DEF p, n
  <2> QED
    BY <2>1, <2>2, <2>3
<1> QED
  BY <1>2, <1>3 DEF Proceeding

LEMMA ProceedsWithTurn ==
  ASSUME TypeOK, NEW s \in Streams, Proceeding(s), NEW t \in Turns, Turn(s, t)
  PROVE  Proceeding(s)' /\ stage'[s] \in {"rehearse", "ended"}
<1>0. t \in Seq(CallRecords) /\ Len(t) <= MaxCalls
  BY ServerAssumption DEF ServerAssumption, CallRecords
<1>1. t \in Seq(CallRecords) /\ Len(t) <= MaxCalls /\ Len(t) \in Nat
  BY <1>0
<1>2. /\ stage[s] = "plan" /\ todo'[s] = t /\ round'[s] = round[s] + 1 /\ minted'[s] = minted[s]
      /\ stage'[s] = IF t = <<>> THEN "ended" ELSE "rehearse"
  BY DEF Turn, Goto, TypeOK, StagesTyped, HandlersTyped, Handlers
<1>3. minted[s] <= round[s] * MaxCalls
  BY <1>2, NumbersOf DEF Proceeding, Outstanding
<1>4. (round[s] + 1) * MaxCalls = round[s] * MaxCalls + MaxCalls
  BY NumbersOf
<1>5. minted'[s] + Len(todo'[s]) <= round'[s] * MaxCalls
  BY <1>1, <1>2, <1>3, <1>4, NumbersOf
<1> QED
  BY <1>1, <1>2, <1>5, NumbersOf DEF Proceeding, Outstanding

\* What moving on leaves of the other streams and runs.
LEMMA OthersStay ==
  ASSUME TypeOK, NEW s \in Streams, NextCall(s) \/ (UNCHANGED todo /\ \E x : Goto(s, x))
  PROVE  /\ \A h \in Handlers \ {s} : stage'[h] = stage[h]
         /\ \A t \in Streams \ {s} : todo'[t] = todo[t]
BY DEF NextCall, Goto, TypeOK, StagesTyped, HandlersTyped

LEMMA MovingKeeps ==
  ASSUME Whole, TypeOK', NEW s \in Streams,
         \/ AskAgent(s) \/ (\E t \in Turns : Turn(s, t)) \/ TurnFails(s) \/ Pass(s)
         \/ (Rehearsed(s) /\ NextCall(s) /\ UNCHANGED <<minted, gates, shown>>)
  PROVE  Whole'
<1>0. TypeOK /\ StreamOK(s) /\ Proceeding(s) /\ s \in Handlers
  BY DEF Whole, StreamOK, Handlers
<1>1. UNCHANGED <<body, results, pending, resuming, gates, answer, shown, minted, effects>>
  BY DEF AskAgent, Turn, TurnFails, Pass, Rehearsed
<1>2. /\ stage[s] # "parked" /\ stage'[s] \in {"plan", "rehearse", "ended"} /\ Proceeding(s)'
      /\ \A h \in Handlers \ {s} : stage'[h] = stage[h]
      /\ \A t \in Streams \ {s} : todo'[t] = todo[t] /\ round'[t] = round[t]
  <2>1. CASE AskAgent(s) \/ TurnFails(s)
    <3>1. PICK x \in {"plan", "ended"} : Goto(s, x) /\ (x = "plan" => stage[s] = "idle")
      BY <2>1 DEF AskAgent, TurnFails
    <3>2. stage'[s] = x /\ stage[s] \in {"idle", "plan"} /\ UNCHANGED <<todo, round, minted>>
      BY <1>0, <2>1, <3>1 DEF AskAgent, TurnFails, Goto, TypeOK, StagesTyped
    <3>3. Proceeding(s)'
      BY <1>0, <3>1, <3>2, NumbersOf DEF Proceeding, Outstanding
    <3> QED
      BY <1>0, <3>1, <3>2, <3>3, OthersStay
  <2>2. CASE \E t \in Turns : Turn(s, t)
    <3>1. PICK t \in Turns : Turn(s, t)
      BY <2>2
    <3>2. Proceeding(s)' /\ stage'[s] \in {"rehearse", "ended"}
      BY <1>0, <3>1, ProceedsWithTurn
    <3>3. \A h \in Handlers \ {s} : stage'[h] = stage[h]
      BY <1>0, <3>1 DEF Turn, Goto, TypeOK, StagesTyped
    <3>4. \A q \in Streams \ {s} : todo'[q] = todo[q] /\ round'[q] = round[q]
      BY <1>0, <3>1 DEF Turn, TypeOK, HandlersTyped
    <3> QED
      BY <3>1, <3>2, <3>3, <3>4 DEF Turn
  <2>3. CASE Pass(s) \/ (Rehearsed(s) /\ NextCall(s))
    <3>1. stage[s] = "rehearse" /\ NextCall(s) /\ UNCHANGED <<round, minted>> /\ todo[s] # <<>>
      BY <1>0, <1>1, <2>3 DEF Pass, Rehearsed, Proceeding
    <3>2. Proceeding(s)'
      BY <1>0, <3>1, ProceedsWithNext
    <3>3. stage'[s] \in {"rehearse", "plan", "ended"}
      BY <1>0, <3>1, NextCallGoes
    <3> QED
      BY <1>0, <3>1, <3>2, <3>3, OthersStay
  <2> QED
    BY <2>1, <2>2, <2>3
<1>3. StreamOK(s)'
  BY <1>0, <1>1, <1>2, Moved
<1> QED
  BY <1>1, <1>2, <1>3, StreamStep

\* An approved command is run, or its run throws: what it does, it was approved for, and it
\* does it once.
LEMMA ActingKeeps ==
  ASSUME Whole, TypeOK', NEW s \in Streams, RealRun(s) \/ CallThrows(s)
  PROVE  Whole'
<1>0. TypeOK /\ StreamOK(s) /\ Proceeding(s) /\ AskedOfAgent(s) /\ s \in Handlers
  BY DEF Whole, StreamOK, Handlers
<1>1. UNCHANGED <<body, results, pending, resuming, gates, answer, shown, minted, round>>
  BY DEF RealRun, CallThrows
<1>2. stage[s] \in {"rehearse", "real"} /\ todo[s] # <<>>
      /\ (NextCall(s) \/ (Goto(s, "ended") /\ UNCHANGED todo))
  BY <1>0 DEF RealRun, CallThrows, Proceeding
<1>3. /\ stage'[s] \in {"plan", "rehearse", "ended"} /\ Proceeding(s)'
      /\ \A h \in Handlers \ {s} : stage'[h] = stage[h]
      /\ \A t \in Streams \ {s} : todo'[t] = todo[t]
  <2>1. CASE NextCall(s)
    BY <1>0, <1>1, <1>2, <2>1, ProceedsWithNext, NextCallGoes, OthersStay
  <2>2. CASE Goto(s, "ended") /\ UNCHANGED todo
    <3>1. stage'[s] = "ended"
      BY <1>0, <2>2 DEF Goto, TypeOK, StagesTyped
    <3>2. Proceeding(s)'
      BY <3>1 DEF Proceeding
    <3> QED
      BY <1>0, <2>2, <3>1, <3>2, OthersStay
  <2> QED
    BY <1>2, <2>1, <2>2
<1>4. ASSUME NEW e \in effects', e \notin effects
      PROVE  /\ e.id[1] = s /\ e.approved /\ e.nth = 1 /\ answer[e.id] = "yes"
             /\ [id |-> e.id, command |-> e.command] \in shown
  <2>1. PICK a \in Actions, res \in Outcomes :
           /\ stage[s] = "real" /\ Current(s) \in Ids /\ Head(todo[s]).command \in Commands
           /\ Perform(Current(s), Head(todo[s]).command, a, res, TRUE)
    BY <1>0, <1>4, Acts
  <2>2. /\ e.id = Current(s) /\ e.command = Head(todo[s]).command /\ e.approved = TRUE
        /\ Unacted(Current(s)) => e.nth = 1
    <3> DEFINE c == Head(todo[s]).command
               id == Current(s)
    <3>1. c \in Commands /\ id \in Ids /\ Perform(id, c, a, res, TRUE)
      BY <2>1
    <3> HIDE DEF c, id
    <3>2. e.id = id /\ e.command = c /\ e.approved = TRUE
      BY <1>0, <1>4, <3>1, PerformAdds DEF Added
    <3>3. Unacted(id) => e.nth = 1
      BY <1>0, <1>4, <3>1, PerformAdds DEF Added
    <3> QED
      BY <3>2, <3>3 DEF c, id
  <2>3. /\ answer[Current(s)] = "yes" /\ \A f \in effects : f.id # Current(s)
        /\ [id |-> Current(s), command |-> Head(todo[s]).command] \in shown
    BY <1>0, <2>1 DEF AskedOfAgent
  <2> QED
    BY <2>2, <2>3 DEF Current, Unacted
<1>5. StreamOK(s)'
  BY <1>0, <1>1, <1>2, <1>3, <1>4, Moved
<1>6. \A e \in effects' : e.id[1] # s => e \in effects
  BY <1>4
<1> QED
  BY <1>1, <1>3, <1>5, <1>6, StreamStep

\* A new approval: its id is used for the first time.
LEMMA ParkKeeps ==
  ASSUME Whole, TypeOK', NEW s \in Streams, Rehearsed(s), Park(s), UNCHANGED todo
  PROVE  Whole'
<1>0. TypeOK /\ StreamOK(s) /\ Proceeding(s) /\ s \in Handlers /\ todo[s] # <<>>
      /\ stage[s] = "rehearse"
  BY DEF Whole, StreamOK, Handlers, Rehearsed, Proceeding
<1> DEFINE id == <<s, minted[s] + 1>>
           x == [id |-> id, command |-> Head(todo[s]).command]
<1>1. UNCHANGED <<body, results, pending, resuming, round, answer, effects>>
  BY DEF Rehearsed
<1>2. /\ minted' = [minted EXCEPT ![s] = @ + 1] /\ gates' = gates \cup {id}
      /\ shown' = IF s \in gone THEN shown ELSE shown \cup {x}
      /\ Goto(s, "parked")
  BY DEF Park
<1>3. id \in Ids /\ id[1] = s /\ id[2] = minted[s] + 1 /\ x.id = id /\ minted[s] \in Nat
      /\ x.command = Head(todo[s]).command
  BY <1>0, NextId, NumbersOf
<1>4. /\ stage'[s] = "parked" /\ minted'[s] = minted[s] + 1
      /\ \A h \in Handlers \ {s} : stage'[h] = stage[h]
      /\ \A t \in Streams \ {s} : minted'[t] = minted[t]
  BY <1>0, <1>2 DEF Goto, TypeOK, StagesTyped, HandlersTyped
<1>5. Current(s)' = id
  BY <1>4 DEF Current
<1> HIDE DEF id, x
<1>6. \A g \in gates : g[1] # s
  BY <1>0 DEF StreamOK
<1>7. \A y \in shown : y.id[1] = s => y.id # id
  BY <1>0, <1>3 DEF StreamOK
<1>8. \A y \in shown' : y.id = id => y.command = Head(todo'[s]).command
  BY <1>2, <1>3, <1>7
<1>9. Proceeding(s)'
  <2> DEFINE p == round[s] * MaxCalls
             n == Len(todo[s])
  <2>1. p \in Nat /\ n \in Nat /\ minted[s] \in Nat
    BY <1>0, NumbersOf
  <2>2. minted[s] + n <= p
    BY <1>0, <2>1 DEF Proceeding, Outstanding
  <2>3. Outstanding(s)' = n - 1 /\ minted'[s] = minted[s] + 1 /\ round'[s] * MaxCalls = p
    BY <1>1, <1>4 DEF Outstanding
  <2> HIDE DEF p, n
  <2>4. minted'[s] + Outstanding(s)' <= round'[s] * MaxCalls /\ minted'[s] > 0
    BY <2>1, <2>2, <2>3
  <2> QED
    BY <1>0, <1>4, <2>4 DEF Proceeding
<1>10. StreamOK(s)'
  <2>1. {g \in gates' : g[1] = s} = {Current(s)'}
    BY <1>2, <1>3, <1>5, <1>6
  <2>2. \A g \in gates' : g[1] = s => answer'[g] = "none"
    BY <1>0, <1>1, <1>2, <1>3, <1>6 DEF StreamOK
  <2>3. AskedOfAgent(s)'
    BY <1>4, <1>5, <1>8 DEF AskedOfAgent
  <2>4. \A i \in Ids : i[1] = s /\ i[2] > minted'[s] => answer'[i] = "none"
    BY <1>0, <1>1, <1>3, <1>4, IdsAre DEF StreamOK
  <2>5. \A y \in shown' : y.id[1] = s => y.id[2] <= minted'[s]
    <3>1. \A y \in shown : y.id \in Ids
      BY <1>0 DEF TypeOK, ApprovalsTyped
    <3>2. \A y \in shown : y.id[1] = s => y.id[2] <= minted[s] + 1
      BY <1>0, <1>3, <3>1, IdsAre DEF StreamOK
    <3> QED
      BY <1>2, <1>3, <1>4, <3>2
  <2>6. \A e \in effects' : e.id[1] = s =>
           /\ e.approved /\ e.nth = 1 /\ answer'[e.id] = "yes"
           /\ [id |-> e.id, command |-> e.command] \in shown'
    BY <1>0, <1>1, <1>2 DEF StreamOK
  <2> QED
    BY <1>4, <1>9, <2>1, <2>2, <2>3, <2>4, <2>5, <2>6 DEF StreamOK
<1>11. (\A g : g \in gates' /\ g[1] # s <=> g \in gates /\ g[1] # s)
       /\ shown \subseteq shown' /\ \A y \in shown' : y.id[1] # s => y \in shown
  BY <1>2, <1>3
<1> QED
  BY <1>1, <1>4, <1>10, <1>11, StreamStep

\* A parked stream whose gate is settled: with a yes it is about to run what was shown, with
\* a no it goes on behind it.
LEMMA SettledOK ==
  ASSUME TypeOK, NEW s \in Streams, StreamOK(s), stage[s] = "parked", NEW yes \in BOOLEAN,
         \A g \in gates' : g[1] # s,
         answer'[Current(s)] = IF yes THEN "yes" ELSE "no",
         \A i \in Ids : i[1] = s /\ i # Current(s) => answer'[i] = answer[i],
         IF yes THEN stage'[s] = "real" /\ todo'[s] = todo[s]
         ELSE /\ stage'[s] \in {"rehearse", "plan", "ended"}
              /\ stage'[s] = "rehearse" => todo'[s] # <<>>
              /\ stage'[s] = "plan" => round[s] < MaxSteps
              /\ Len(todo'[s]) = Len(todo[s]) - 1,
         UNCHANGED <<round, minted, shown, effects>>,
         yes => \E x \in shown : x.id = Current(s)
  PROVE  StreamOK(s)'
<1>0. /\ Proceeding(s) /\ AskedOfAgent(s) /\ Current(s) \in Ids /\ todo[s] # <<>>
      /\ Current(s)' = Current(s) /\ Current(s)[1] = s /\ Current(s)[2] = minted[s]
      /\ minted[s] \in Nat /\ answer[Current(s)] = "none"
  <2>1. Proceeding(s) /\ AskedOfAgent(s) /\ {g \in gates : g[1] = s} = {Current(s)}
    BY DEF StreamOK
  <2>2. Current(s) \in Ids /\ todo[s] # <<>>
    BY <2>1, CurrentId, HeadIs
  <2>3. minted[s] \in Nat
    BY NumbersOf
  <2>4. Current(s) \in gates /\ Current(s)[1] = s
    BY <2>1
  <2>5. answer[Current(s)] = "none"
    BY <2>4 DEF StreamOK
  <2> QED
    BY <2>1, <2>2, <2>3, <2>4, <2>5 DEF Current
<1>1. Proceeding(s)'
  <2> DEFINE p == round[s] * MaxCalls
             n == Len(todo[s])
  <2>1. p \in Nat /\ n \in Nat /\ minted[s] \in Nat
    BY NumbersOf
  <2>2. minted[s] + (n - 1) <= p /\ minted[s] > 0
    BY <1>0 DEF Proceeding, Outstanding
  <2>3. round'[s] * MaxCalls = p /\ minted'[s] = minted[s]
    OBVIOUS
  <2>4. Outstanding(s)' = n - 1
    <3>1. CASE yes
      BY <3>1 DEF Outstanding
    <3>2. CASE ~yes
      <4>1. Outstanding(s)' = Len(todo'[s]) - 0
        BY <3>2 DEF Outstanding
      <4>2. Len(todo'[s]) = n - 1
        BY <3>2
      <4> HIDE DEF n
      <4> QED
        BY <2>1, <4>1, <4>2
    <3> QED
      BY <3>1, <3>2
  <2> HIDE DEF p, n
  <2>5. minted'[s] + Outstanding(s)' <= round'[s] * MaxCalls /\ minted'[s] > 0
    BY <2>1, <2>2, <2>3, <2>4
  <2> QED
    BY <1>0, <2>5 DEF Proceeding
<1>2. {g \in gates' : g[1] = s} = {} /\ stage'[s] # "parked"
  OBVIOUS
<1>3. AskedOfAgent(s)'
  <2> SUFFICES ASSUME stage'[s] = "real"
               PROVE  /\ answer'[Current(s)] = "yes"
                      /\ [id |-> Current(s), command |-> Head(todo'[s]).command] \in shown
                      /\ \A e \in effects : e.id # Current(s)
    BY <1>0, <1>2 DEF AskedOfAgent
  <2>1. yes
    OBVIOUS
  <2>2. PICK x \in shown : x.id = Current(s)
    BY <2>1
  <2>3. x.command = Head(todo[s]).command
    BY <1>0, <2>2 DEF AskedOfAgent
  <2>4. x = [id |-> x.id, command |-> x.command]
    BY DEF TypeOK, ApprovalsTyped
  <2>5. \A e \in effects : e.id # Current(s)
    BY <1>0 DEF StreamOK
  <2> QED
    BY <2>1, <2>2, <2>3, <2>4, <2>5
<1>4. \A i \in Ids : i[1] = s /\ i[2] > minted'[s] => answer'[i] = "none"
  BY <1>0 DEF StreamOK
<1>5. \A x \in shown' : x.id[1] = s => x.id[2] <= minted'[s]
  BY DEF StreamOK
<1>6. \A e \in effects' : e.id[1] = s =>
         /\ e.approved /\ e.nth = 1 /\ answer'[e.id] = "yes"
         /\ [id |-> e.id, command |-> e.command] \in shown'
  BY <1>0 DEF StreamOK, TypeOK, EffectsTyped
<1> QED
  BY <1>1, <1>2, <1>3, <1>4, <1>5, <1>6 DEF StreamOK

LEMMA SettlingKeeps ==
  ASSUME Whole, TypeOK', NEW s \in Streams, stage[s] = "parked", NEW yes \in BOOLEAN,
         Settled({s}, yes), yes => \E x \in shown : x.id = Current(s),
         UNCHANGED <<round, minted, body, results, pending, resuming, shown, effects>>
  PROVE  Whole'
<1>0. TypeOK /\ StreamOK(s) /\ Current(s)[1] = s /\ \A g \in gates : g \in Ids
  BY DEF Whole, Current, TypeOK, ApprovalsTyped
<1>1. {g \in gates : g[1] = s} = {Current(s)}
  BY <1>0 DEF StreamOK
<1>2. gates' = {g \in gates : g[1] # s}
  BY DEF Settled
<1>3. answer'[Current(s)] = IF yes THEN "yes" ELSE "no"
  <2>1. Current(s) \in gates
    BY <1>1
  <2> QED
    BY <1>0, <2>1 DEF Settled
<1>4. \A i \in Ids : i # Current(s) => answer'[i] = answer[i]
  BY <1>1 DEF Settled
<1>5. StreamOK(s)'
  <2>1. IF yes THEN stage'[s] = "real" /\ todo'[s] = todo[s]
        ELSE /\ stage'[s] \in {"rehearse", "plan", "ended"}
             /\ stage'[s] = "rehearse" => todo'[s] # <<>>
             /\ stage'[s] = "plan" => round[s] < MaxSteps
             /\ Len(todo'[s]) = Len(todo[s]) - 1
    BY DEF Settled
  <2> QED
    BY <1>0, <1>2, <1>3, <1>4, <2>1, SettledOK
<1>6. /\ \A h \in Handlers \ {s} : stage'[h] = stage[h]
      /\ \A t \in Streams \ {s} : todo'[t] = todo[t]
  BY DEF Settled
<1>7. \A i \in Ids : i[1] # s => answer'[i] = answer[i]
  BY <1>0, <1>4
<1> QED
  BY <1>2, <1>5, <1>6, <1>7, StreamStep

\* The shutdown settles everything that is open, and leaves the rest.
LEMMA ClosingKeeps ==
  ASSUME Whole, Inv, TypeOK', Close
  PROVE  Whole'
<1>0. /\ TypeOK /\ TablesOK /\ (\A t \in Streams : StreamOK(t)) /\ \A r \in Runs : RunOK(r)
      /\ Streams \cap Runs = {} /\ Handlers = Streams \cup Runs
  BY ServerAssumption DEF Whole, ServerAssumption, Handlers
<1>1. /\ \A h \in Handlers : stage[h] # "parked" => stage'[h] = stage[h]
      /\ \A s \in Streams :
            IF stage[s] = "parked"
            THEN /\ stage'[s] \in {"rehearse", "plan", "ended"}
                 /\ stage'[s] = "rehearse" => todo'[s] # <<>>
                 /\ stage'[s] = "plan" => round[s] < MaxSteps
                 /\ Len(todo'[s]) = Len(todo[s]) - 1
            ELSE todo'[s] = todo[s]
      /\ gates' = {} /\ pending' = <<>>
  BY CloseSettles
<1>2. \A i \in Ids : answer'[i] = IF i \in gates \cup IdsOf(pending) THEN "no" ELSE answer[i]
  BY CloseSettles
<1>3. UNCHANGED <<gone, round, minted, body, results, resuming, shown, effects>>
  BY DEF Close
<1>4. ASSUME NEW s \in Streams PROVE StreamOK(s)'
  <2>1. \A i \in Ids : i[1] = s => i \notin IdsOf(pending)
    BY <1>0 DEF TablesOK, IdsOf
  <2>2. CASE stage[s] = "parked"
    <3>1. {g \in gates : g[1] = s} = {Current(s)} /\ Current(s) \in Ids /\ Current(s)[1] = s
      BY <1>0, <2>2, CurrentId DEF StreamOK, Current
    <3>2. Current(s) \in gates
      BY <3>1
    <3>3. answer'[Current(s)] = "no"
      BY <1>2, <3>1, <3>2
    <3>4. \A i \in Ids : i[1] = s /\ i # Current(s) => answer'[i] = answer[i]
      BY <1>2, <2>1, <3>1
    <3>5. /\ stage'[s] \in {"rehearse", "plan", "ended"}
          /\ stage'[s] = "rehearse" => todo'[s] # <<>>
          /\ stage'[s] = "plan" => round[s] < MaxSteps
          /\ Len(todo'[s]) = Len(todo[s]) - 1
      BY <1>1, <2>2
    <3>6. \A g \in gates' : g[1] # s
      BY <1>1
    <3> QED
      BY <1>0, <1>3, <2>2, <3>3, <3>4, <3>5, <3>6, SettledOK
  <2>3. CASE stage[s] # "parked"
    <3>1. {g \in gates : g[1] = s} = {} /\ {g \in gates' : g[1] = s} = {}
      BY <1>0, <1>1, <2>3 DEF StreamOK
    <3>2. \A i \in Ids : i[1] = s => answer'[i] = answer[i]
      BY <1>2, <2>1, <3>1
    <3>3. SameForStream(s)
      BY <1>0, <1>1, <1>3, <2>3, <3>1, <3>2 DEF SameForStream
    <3> QED
      BY <1>0, <3>3, StreamKept
  <2> QED
    BY <2>2, <2>3
<1>5. ASSUME NEW r \in Runs PROVE RunOK(r)'
  <2>1. stage'[r] = stage[r]
    BY <1>0, <1>1 DEF TypeOK, StagesTyped
  <2>2. DOMAIN pending' = {} /\ IdsOf(pending') = {}
    BY <1>1 DEF IdsOf
  <2>3. \A i \in Ids : i[1] = r => answer'[i] = answer[i] \/ i \in IdsOf(pending)
    BY <1>0, <1>2 DEF TablesOK
  <2>4. SameForRun(r)
    BY <1>3, <2>1, <2>2, <2>3 DEF SameForRun
  <2> QED
    BY <1>0, <2>4, RunKept
<1>6. TablesOK'
  <2>1. DOMAIN pending' = {} /\ Len(pending') = 0 /\ Cap \in Nat
    BY <1>1, ServerAssumption DEF ServerAssumption
  <2> QED
    BY <1>0, <1>1, <1>3, <2>1 DEF TablesOK
<1> QED
  BY <1>4, <1>5, <1>6 DEF Whole

-----------------------------------------------------------------------------
(* The steps of a run.                                                     *)

LEMMA RunFacts ==
  ASSUME TypeOK, NEW r \in Runs
  PROVE  /\ r \in Handlers /\ results[r] \in Seq(Outcomes) /\ Len(results[r]) \in Nat
         /\ DOMAIN results[r] = 1 .. Len(results[r]) /\ At(r) = Len(results[r]) + 1
<1>1. results[r] \in Seq(Outcomes)
  BY DEF TypeOK, HandlersTyped, Outcomes
<1>2. Len(results[r]) \in Nat /\ DOMAIN results[r] = 1 .. Len(results[r])
  BY <1>1
<1> QED
  BY <1>1, <1>2 DEF Handlers, At

\* A run that has not stopped has asked nothing.
LEMMA NothingAsked ==
  ASSUME NEW r, RunOK(r), stage[r] # "ended"
  PROVE  /\ \A k \in DOMAIN pending : pending[k].id[1] # r
         /\ \A x \in resuming : x.request.id[1] # r
<1>1. ASSUME NEW k \in DOMAIN pending, pending[k].id[1] = r PROVE FALSE
  <2>1. StoppedAt(pending[k])
    BY <1>1 DEF RunOK
  <2> QED
    BY <1>1, <2>1 DEF StoppedAt
<1>2. ASSUME NEW x \in resuming, x.request.id[1] = r PROVE FALSE
  <2>1. StoppedAt(x.request)
    BY <1>2 DEF RunOK, ResumingOK
  <2> QED
    BY <1>2, <2>1 DEF StoppedAt
<1> QED
  BY <1>1, <1>2

\* A request has nothing behind it.
LEMMA PostingKeeps ==
  ASSUME Whole, TypeOK', NEW r \in Runs, NEW b \in Asks[r], Post(r, b)
  PROVE  Whole'
<1>0. /\ TypeOK /\ TablesOK /\ RunOK(r) /\ Behind(r) /\ stage[r] = "idle" /\ r \in Handlers
      /\ DOMAIN body = Runs
  BY DEF Whole, RunOK, Post, Handlers, TypeOK, HandlersTyped
<1>1. /\ body' = [body EXCEPT ![r] = b]
      /\ UNCHANGED <<serving, gone, todo, round, minted, results, gates, pending, late,
                     resuming, shown, answer, effects>>
  BY DEF Post
<1>2. /\ stage'[r] \in {"running", "ended"} /\ body'[r] = b
      /\ \A h \in Handlers \ {r} : stage'[h] = stage[h]
      /\ \A q \in Runs \ {r} : body'[q] = body[q]
  BY <1>0, <1>1 DEF Post, Goto, TypeOK, StagesTyped
<1>3. results[r] = <<>> /\ Len(results[r]) = 0 /\ At(r) = 1
  BY <1>0 DEF Behind, At
<1>4. 1 \in DOMAIN b.commands
  <2>1. b.commands \in Seq(Commands) /\ Len(b.commands) \in 1 .. MaxBatch /\ MaxBatch \in Nat
    BY ServerAssumption DEF ServerAssumption
  <2> QED
    BY <2>1
<1>5. \A e \in effects : e.id[1] # r
  BY <1>0 DEF Behind
<1>6. \A x \in shown : x.id[1] # r
  <2>1. \A x \in shown : x.id \in Ids
    BY <1>0 DEF TypeOK, ApprovalsTyped
  <2>2. \A x \in shown : x.id[1] = r => x.id[2] \in 1 .. MaxBatch
    BY <1>0, <2>1, ServerAssumption DEF Ids, ServerAssumption
  <2> QED
    BY <1>0, <1>3, <2>2, ServerAssumption DEF RunOK, ServerAssumption
<1>7. /\ \A k \in DOMAIN pending : pending[k].id[1] # r
      /\ \A x \in resuming : x.request.id[1] # r
  BY <1>0, NothingAsked
<1>8. Behind(r)'
  BY <1>1, <1>2, <1>3, <1>4, <1>5 DEF Behind, At
<1>9. RunOK(r)'
  BY <1>0, <1>1, <1>5, <1>6, <1>7, <1>8 DEF RunOK
<1>10. TablesOK'
  BY <1>0, <1>1 DEF TablesOK
<1> QED
  BY <1>1, <1>2, <1>9, <1>10, RunsStep

\* What a step does without an answer.
LEMMA RunActs ==
  ASSUME TypeOK, NEW r \in Runs, stage[r] = "running", Behind(r), NEW action \in Actions,
         NEW result, Perform(<<r, At(r)>>, StepOf(r), action, result, FALSE)
  PROVE  \A e \in effects' \ effects :
            /\ result \in {"success", "failed"}
            /\ e.id = <<r, At(r)>> /\ e.approved = FALSE /\ e.action = action
<1> DEFINE id == <<r, At(r)>>
           c == StepOf(r)
<1>1. id \in Ids /\ c \in Commands
  BY BoundIs
<1>2. PICK no \in BOOLEAN : no = FALSE /\ Perform(id, c, action, result, no)
  OBVIOUS
<1> HIDE DEF id, c
<1>3. Added(id, c, action, result, no)
  BY <1>1, <1>2, PerformAdds
<1> QED
  BY <1>2, <1>3 DEF id, Added

\* A step that throws is the last one, and may have acted.
LEMMA ThrowingKeeps ==
  ASSUME Whole, TypeOK', NEW r \in Runs, RunThrows(r)
  PROVE  Whole'
<1>0. /\ TypeOK /\ TablesOK /\ RunOK(r) /\ Behind(r) /\ stage[r] = "running" /\ r \in Handlers
  BY DEF Whole, RunOK, RunThrows, Handlers
<1>1. UNCHANGED <<serving, gone, todo, round, minted, body, results, gates, pending, late,
                  resuming, shown, answer>>
  BY DEF RunThrows
<1>2. stage'[r] = "ended" /\ \A h \in Handlers \ {r} : stage'[h] = stage[h]
  BY <1>0 DEF RunThrows, Goto, TypeOK, StagesTyped
<1>3. /\ At(r) = Len(results[r]) + 1 /\ Len(results[r]) \in Nat
      /\ \A i \in 1 .. Len(results[r]) : batchStepSucceeded(results[r][i], body[r].dryRun)
  BY <1>0, RunFacts DEF Behind
<1>4. /\ \A k \in DOMAIN pending : pending[k].id[1] # r
      /\ \A x \in resuming : x.request.id[1] # r
  BY <1>0, NothingAsked
<1>5. ASSUME NEW e \in effects', e \notin effects
      PROVE  /\ e.id = <<r, At(r)>> /\ e.approved = FALSE /\ e.action = "allow"
             /\ ~body[r].dryRun
  <2>1. ~body[r].dryRun /\ Perform(<<r, At(r)>>, StepOf(r), "allow", "failed", FALSE)
    BY <1>5 DEF RunThrows
  <2>2. <<r, At(r)>> \in Ids /\ StepOf(r) \in Commands /\ "allow" \in Actions
    BY <1>0, BoundIs DEF Actions
  <2> QED
    <3>1. e.id = <<r, At(r)>> /\ e.approved = FALSE /\ e.action = "allow"
      BY <1>0, <1>5, <2>1, <2>2, RunActs
    <3> QED
      BY <2>1, <3>1
<1>6. Behind(r)'
  <2>1. \A i \in 1 .. Len(results'[r]) : batchStepSucceeded(results'[r][i], body'[r].dryRun)
    BY <1>1, <1>3
  <2>2. \A e \in effects' :
           e.id[1] = r => stage'[r] # "idle" /\ ~body'[r].dryRun /\ e.id[2] <= At(r)'
    <3>1. At(r)' = At(r) /\ At(r) <= At(r)
      BY <1>1, <1>3 DEF At
    <3>2. \A e \in effects : e.id[1] = r => ~body[r].dryRun /\ e.id[2] <= At(r)
      BY <1>0 DEF Behind
    <3> SUFFICES ASSUME NEW e \in effects', e.id[1] = r
                 PROVE  ~body[r].dryRun /\ e.id[2] <= At(r)
      BY <1>1, <1>2, <3>1
    <3>3. CASE e \in effects
      BY <3>2, <3>3
    <3>4. CASE e \notin effects
      <4>1. e.id = <<r, At(r)>> /\ ~body[r].dryRun
        BY <1>5, <3>4
      <4> QED
        BY <1>3, <4>1
    <3> QED
      BY <3>3, <3>4
  <2> QED
    BY <1>2, <2>1, <2>2 DEF Behind
<1>7. ASSUME NEW e \in effects', e.id[1] = r
      PROVE  EffectOK(e, r)'
  <2>1. CASE e \in effects
    BY <1>0, <1>1, <1>7, <2>1 DEF RunOK, EffectOK
  <2>2. CASE e \notin effects
    <3>1. /\ e.id = <<r, At(r)>> /\ e.approved = FALSE /\ e.action = "allow"
          /\ ~body[r].dryRun
      BY <1>5, <2>2
    <3>2. \A i \in 1 .. e.id[2] - 1 : results[r][i] = "success"
      BY <1>3, <3>1 DEF batchStepSucceeded
    <3> QED
      BY <1>1, <3>1, <3>2 DEF EffectOK
  <2> QED
    BY <2>1, <2>2
<1>8. RunOK(r)'
  BY <1>0, <1>1, <1>4, <1>6, <1>7 DEF RunOK
<1>9. TablesOK'
  BY <1>0, <1>1 DEF TablesOK
<1>10. \A e \in effects' : e.id[1] # r => e \in effects
  <2> SUFFICES ASSUME NEW e \in effects', e \notin effects PROVE e.id[1] = r
    OBVIOUS
  <2>1. e.id = <<r, At(r)>>
    BY <1>5
  <2> QED
    BY <2>1
<1> QED
  BY <1>1, <1>2, <1>8, <1>9, <1>10, RunsStep

\* What a step does to the tables: nothing, or it asks, and the oldest make room.
LEMMA BindingKeeps ==
  ASSUME TypeOK, TablesOK, TablesAgree, NEW r \in Runs, RunOK(r), stage[r] = "running",
         BindApproval(r), UNCHANGED <<gates, resuming>>
  PROVE  /\ TablesOK'
         /\ \A k \in DOMAIN pending' :
               IF pending'[k].id[1] = r THEN pending'[k] = Bound(r)
               ELSE \E j \in DOMAIN pending : pending'[k] = pending[j]
         /\ <<r, At(r)>> \in IdsOf(pending')
         /\ \A i \in Ids : answer'[i] = answer[i] \/ i \in IdsOf(pending) \ IdsOf(pending')
         /\ shown \subseteq shown'
         /\ \A x \in shown' :
               x \in shown \/ x = [id |-> <<r, At(r)>>, command |-> StepOf(r)]
<1>0. Behind(r) /\ Bound(r).id = <<r, At(r)>>
  BY DEF RunOK, Bound
<1>1. /\ pending' \in Seq(Requests) /\ Len(pending') <= Cap /\ Len(pending') >= 1
      /\ pending'[Len(pending')] = Bound(r)
      /\ \A i \in Ids :
            answer'[i] = IF i \in IdsOf(pending) \ IdsOf(pending') THEN "no" ELSE answer[i]
      /\ shown' = IF r \in gone THEN shown
                  ELSE shown \cup {[id |-> <<r, At(r)>>, command |-> StepOf(r)]}
  BY <1>0, BindGoes
<1>2. PICK d \in 0 .. Len(pending) :
         /\ Len(pending') = Len(pending) - d + 1
         /\ \A k \in 1 .. Len(pending) - d : pending'[k] = pending[k + d]
  BY <1>0, BindGoes
<1>3. pending \in Seq(Requests)
  BY DEF TypeOK, ApprovalsTyped, Requests
<1>4. Len(pending) \in Nat /\ DOMAIN pending = 1 .. Len(pending)
  BY <1>3
<1> DEFINE m == Len(pending) - d
<1>5. /\ m \in Nat /\ Len(pending') = m + 1 /\ DOMAIN pending' = 1 .. m + 1
      /\ \A k \in 1 .. m : k + d \in DOMAIN pending /\ pending'[k] = pending[k + d]
      /\ pending'[m + 1] = Bound(r)
  <2>1. DOMAIN pending' = 1 .. Len(pending')
    BY <1>1
  <2> QED
    BY <1>1, <1>2, <1>4, <2>1
<1> HIDE DEF m
<1>6. \A k \in DOMAIN pending : pending[k].id[1] # r
  BY NothingAsked
<1>7. \A k \in 1 .. m : pending'[k].id[1] # r /\ pending'[k].id[1] \in Runs
  BY <1>5, <1>6 DEF TablesOK
<1>8. pending'[m + 1].id = <<r, At(r)>> /\ pending'[m + 1].id[1] = r
  <2>1. pending'[m + 1].id = Bound(r).id
    BY <1>5
  <2> QED
    BY <1>0, <2>1
<1>9. TablesOK'
  <2>1. \A k \in DOMAIN pending' : pending'[k].id[1] \in Runs
    <3> SUFFICES ASSUME NEW k \in 1 .. m + 1 PROVE pending'[k].id[1] \in Runs
      BY <1>5
    <3>1. k \in 1 .. m \/ k = m + 1
      BY <1>5
    <3> QED
      BY <1>7, <1>8, <3>1
  <2>2. ASSUME NEW j \in DOMAIN pending', NEW k \in DOMAIN pending',
               pending'[j].id = pending'[k].id
        PROVE  j = k
    <3>1. (j \in 1 .. m \/ j = m + 1) /\ (k \in 1 .. m \/ k = m + 1)
      <4>1. j \in 1 .. m + 1 /\ k \in 1 .. m + 1 /\ m \in Nat
        BY <1>5, <2>2
      <4> QED
        BY <4>1
    <3>2. CASE j \in 1 .. m /\ k \in 1 .. m
      <4>1. j + d \in DOMAIN pending /\ k + d \in DOMAIN pending
            /\ pending[j + d].id = pending[k + d].id
        BY <1>5, <2>2, <3>2
      <4>2. j + d = k + d
        BY <4>1 DEF TablesOK
      <4> QED
        BY <1>4, <3>2, <4>2
    <3> QED
      BY <1>7, <1>8, <2>2, <3>1, <3>2
  <2> QED
    BY <1>1, <2>1, <2>2 DEF TablesOK
<1>10. ASSUME NEW k \in DOMAIN pending'
       PROVE  IF pending'[k].id[1] = r THEN pending'[k] = Bound(r)
              ELSE \E j \in DOMAIN pending : pending'[k] = pending[j]
  <2>1. k \in 1 .. m \/ k = m + 1
    BY <1>5
  <2>2. CASE k \in 1 .. m
    <3>1. pending'[k].id[1] # r /\ k + d \in DOMAIN pending /\ pending'[k] = pending[k + d]
      BY <1>5, <1>7, <2>2
    <3> QED
      BY <3>1
  <2>3. CASE k = m + 1
    BY <1>5, <1>8, <2>3
  <2> QED
    BY <2>1, <2>2, <2>3
<1>11. <<r, At(r)>> \in IdsOf(pending')
  <2>1. m + 1 \in DOMAIN pending'
    BY <1>5
  <2> QED
    BY <1>8, <2>1 DEF IdsOf
<1> QED
  BY <1>1, <1>9, <1>10, <1>11

\* A step goes on behind what succeeded, acts if nobody has to be asked, and asks otherwise.
LEMMA RunningKeeps ==
  ASSUME Whole, TablesAgree, TypeOK', NEW r \in Runs, RunStep(r)
  PROVE  Whole'
<1>0. /\ TypeOK /\ TablesOK /\ RunOK(r) /\ Behind(r) /\ stage[r] = "running" /\ r \in Handlers
      /\ body[r] \in Asks[r] /\ results[r] \in Seq(Outcomes) /\ Len(results[r]) \in Nat
      /\ At(r) = Len(results[r]) + 1 /\ At(r) \in DOMAIN body[r].commands
      /\ <<r, At(r)>> \in Ids /\ StepOf(r) = body[r].commands[At(r)]
      /\ body[r].dryRun \in BOOLEAN
  <2>1. TypeOK /\ TablesOK /\ RunOK(r) /\ Behind(r) /\ stage[r] = "running"
    BY DEF Whole, RunOK, RunStep
  <2> QED
    BY <2>1, RunFacts, BoundIs DEF StepOf
<1>1. PICK action \in Decisions[StepOf(r)], result \in Outcomes : Stepped(r, action, result)
  BY StepIs
<1> DEFINE n == At(r)
           id == <<r, n>>
           asked == result = "approval_required" /\ ~body[r].editor
<1>2. /\ result \in Results(action, "none", body[r].dryRun)
      /\ Perform(id, StepOf(r), action, result, FALSE)
      /\ results' = [results EXCEPT ![r] = Append(@, result)]
      /\ IF n < Len(body[r].commands) /\ batchStepSucceeded(result, body[r].dryRun)
         THEN UNCHANGED stage ELSE Goto(r, "ended")
      /\ IF asked THEN BindApproval(r) ELSE UNCHANGED <<pending, late, answer, shown>>
  BY <1>1 DEF Stepped
<1>3. UNCHANGED <<serving, gone, todo, round, minted, body, gates, resuming>>
  BY DEF RunStep
<1>4. action \in Actions
  BY <1>0, BoundIs, DecisionsAre
<1>5. /\ result \in Outcomes
      /\ result \in {"success", "failed"} => ~body[r].dryRun /\ action # "approval_required"
  BY <1>2, Outcome
<1>6. /\ results'[r] = Append(results[r], result) /\ Len(results'[r]) = n
      /\ results'[r][n] = result
      /\ \A i \in 1 .. n - 1 : results'[r][i] = results[r][i]
      /\ \A q \in Runs \ {r} : results'[q] = results[q]
  <2>1. results'[r] = Append(results[r], result) /\ \A q \in Runs \ {r} : results'[q] = results[q]
    BY <1>2 DEF TypeOK, HandlersTyped, Whole
  <2>2. /\ Len(Append(results[r], result)) = Len(results[r]) + 1
        /\ Append(results[r], result)[Len(results[r]) + 1] = result
        /\ \A i \in 1 .. Len(results[r]) : Append(results[r], result)[i] = results[r][i]
    BY <1>0, <1>5
  <2> QED
    BY <1>0, <2>1, <2>2
<1>7. n \in Nat /\ n - 1 = Len(results[r]) /\ n > 0
  BY <1>0
<1> HIDE DEF n
<1>8. /\ stage'[r] \in {"running", "ended"} /\ \A h \in Handlers \ {r} : stage'[h] = stage[h]
      /\ stage'[r] = "running" =>
            n < Len(body[r].commands) /\ batchStepSucceeded(result, body[r].dryRun)
      /\ asked => stage'[r] = "ended"
  <2>1. asked => ~batchStepSucceeded(result, body[r].dryRun)
    BY DEF batchStepSucceeded
  <2> QED
    BY <1>0, <1>2, <2>1 DEF Goto, TypeOK, StagesTyped
<1>9. \A i \in 1 .. n - 1 : batchStepSucceeded(results[r][i], body[r].dryRun)
  BY <1>0, <1>7 DEF Behind
<1>10. ASSUME NEW e \in effects', e \notin effects
       PROVE  /\ e.id = id /\ e.approved = FALSE /\ e.action # "approval_required"
              /\ ~body[r].dryRun
  <2>1. /\ result \in {"success", "failed"}
        /\ e.id = <<r, At(r)>> /\ e.approved = FALSE /\ e.action = action
    BY <1>0, <1>2, <1>4, <1>10, RunActs DEF n
  <2> QED
    BY <1>5, <2>1 DEF n
<1>11. /\ \A k \in DOMAIN pending : pending[k].id[1] # r
       /\ \A x \in resuming : x.request.id[1] # r
  BY <1>0, NothingAsked
<1>12. Behind(r)'
  <2>1. \A i \in 1 .. Len(results'[r]) :
           i < Len(results'[r]) \/ stage'[r] = "running"
           => batchStepSucceeded(results'[r][i], body'[r].dryRun)
    <3> SUFFICES ASSUME NEW i \in 1 .. n, i < n \/ stage'[r] = "running"
                 PROVE  batchStepSucceeded(results'[r][i], body[r].dryRun)
      BY <1>3, <1>6
    <3>1. CASE i \in 1 .. n - 1
      BY <1>6, <1>9, <3>1
    <3>2. CASE i = n
      BY <1>6, <1>7, <1>8, <3>2
    <3> QED
      BY <1>7, <3>1, <3>2
  <2>2. stage'[r] = "running" => At(r)' \in DOMAIN body'[r].commands
    <3>1. body[r].commands \in Seq(Commands)
      BY <1>0, ServerAssumption DEF ServerAssumption
    <3>2. At(r)' = n + 1
      BY <1>6 DEF At
    <3> QED
      BY <1>3, <1>7, <1>8, <3>1, <3>2
  <2>3. \A e \in effects' :
           e.id[1] = r => stage'[r] # "idle" /\ ~body'[r].dryRun /\ e.id[2] <= At(r)'
    <3>1. At(r)' = n + 1 /\ \A e \in effects : e.id \in Ids
      BY <1>0, <1>6 DEF At, TypeOK, EffectsTyped
    <3> SUFFICES ASSUME NEW e \in effects', e.id[1] = r
                 PROVE  ~body[r].dryRun /\ e.id[2] <= n + 1
      BY <1>3, <1>8, <3>1
    <3>2. CASE e \in effects
      <4>1. ~body[r].dryRun /\ e.id[2] <= n /\ e.id[2] \in Nat
        BY <1>0, <3>1, <3>2, IdsAre DEF Behind, n
      <4> QED
        BY <1>7, <4>1
    <3>3. CASE e \notin effects
      <4>1. e.id = id /\ ~body[r].dryRun
        BY <1>10, <3>3
      <4> QED
        BY <1>7, <4>1
    <3> QED
      BY <3>2, <3>3
  <2> QED
    BY <1>8, <2>1, <2>2, <2>3 DEF Behind
<1>13. ASSUME NEW e \in effects', e.id[1] = r
       PROVE  EffectOK(e, r)'
  <2>1. CASE e \in effects
    <3>1. e.id \in Ids /\ e.id[2] \in 1 .. n /\ EffectOK(e, r) /\ ~body[r].dryRun
      <4>1. e.id \in Ids
        BY <1>0, <2>1 DEF TypeOK, EffectsTyped
      <4>2. e.id[2] > 0 /\ e.id[2] \in Nat
        BY <4>1, ServerAssumption DEF Ids, ServerAssumption
      <4>3. e.id[2] <= n /\ EffectOK(e, r) /\ ~body[r].dryRun
        BY <1>0, <1>13, <2>1 DEF RunOK, Behind, n
      <4> QED
        BY <1>7, <4>1, <4>2, <4>3
    <3>2. ~e.approved
      <4> SUFFICES ASSUME e.approved PROVE FALSE
        OBVIOUS
      <4>1. results[r][n - 1] = "approval_required" /\ n - 1 \in 1 .. n - 1
        BY <1>7, <3>1 DEF EffectOK
      <4> QED
        BY <1>9, <4>1 DEF batchStepSucceeded
    <3>3. \A i \in 1 .. e.id[2] - 1 : results'[r][i] = "success"
      BY <1>6, <1>7, <3>1 DEF EffectOK
    <3> QED
      BY <3>1, <3>2, <3>3 DEF EffectOK
  <2>2. CASE e \notin effects
    <3>1. e.id = id /\ e.approved = FALSE /\ e.action # "approval_required" /\ ~body[r].dryRun
      BY <1>10, <2>2
    <3>2. \A i \in 1 .. n - 1 : results'[r][i] = "success"
      BY <1>6, <1>9, <3>1 DEF batchStepSucceeded
    <3> QED
      BY <3>1, <3>2 DEF EffectOK
  <2> QED
    BY <2>1, <2>2
<1>14. /\ TablesOK'
       /\ \A k \in DOMAIN pending' :
             IF pending'[k].id[1] = r THEN pending'[k] = Bound(r) /\ asked
             ELSE \E j \in DOMAIN pending : pending'[k] = pending[j]
       /\ asked => id \in IdsOf(pending')
       /\ \A i \in Ids : answer'[i] = answer[i] \/ i \in IdsOf(pending) \ IdsOf(pending')
       /\ shown \subseteq shown'
       /\ \A x \in shown' : x \in shown \/ x = [id |-> id, command |-> StepOf(r)]
  <2>1. CASE asked
    <3>1. BindApproval(r)
      BY <1>2, <2>1
    <3> QED
      BY <1>0, <1>3, <2>1, <3>1, BindingKeeps DEF n
  <2>2. CASE ~asked
    <3>1. UNCHANGED <<pending, late, answer, shown>>
      BY <1>2, <2>2
    <3> QED
      BY <1>0, <1>3, <1>11, <2>2, <3>1 DEF TablesOK
  <2> QED
    BY <2>1, <2>2
<1>15. \A i \in Ids : i[1] = r => i \notin IdsOf(pending)
  BY <1>11 DEF IdsOf
<1>16. ASSUME NEW k \in DOMAIN pending', pending'[k].id[1] = r
       PROVE  StoppedAt(pending[k])' /\ answer'[pending'[k].id] = "none"
  <2>1. pending'[k] = Bound(r) /\ asked
    BY <1>14, <1>16
  <2>2. pending'[k].id = id /\ pending'[k].command = body[r].commands[n]
        /\ pending'[k].dryRun = body[r].dryRun
    BY <1>0, <2>1 DEF Bound, n
  <2>3. answer'[id] = "none"
    <3>1. answer[id] = "none"
      BY <1>0, <1>7 DEF RunOK, n
    <3> QED
      BY <1>0, <1>14, <1>15, <3>1 DEF n
  <2>4. stage'[r] = "ended" /\ results'[r][n] = "approval_required" /\ Len(results'[r]) = n
    BY <1>6, <1>8, <2>1
  <2>5. n \in DOMAIN body[r].commands
    BY <1>0 DEF n
  <2> QED
    BY <1>3, <2>2, <2>3, <2>4, <2>5 DEF StoppedAt
<1>17. \A i \in Ids : i[1] = r /\ i[2] > Len(results'[r]) => answer'[i] = "none"
  <2> SUFFICES ASSUME NEW i \in Ids, i[1] = r, i[2] > n PROVE answer'[i] = "none"
    BY <1>6
  <2>1. i[2] > n - 1
    BY <1>7, IdsAre
  <2>2. answer[i] = "none"
    BY <1>0, <1>7, <2>1 DEF RunOK
  <2> QED
    BY <1>14, <1>15, <2>2
<1>18. ASSUME NEW x \in shown', x.id[1] = r
       PROVE  x.id[2] <= Len(results'[r]) /\ x.command = body'[r].commands[x.id[2]]
  <2>1. CASE x \in shown
    <3>1. x.id[2] <= n - 1 /\ x.command = body[r].commands[x.id[2]] /\ x.id[2] \in Nat
      BY <1>0, <1>7, <1>18, <2>1, IdsAre DEF RunOK, TypeOK, ApprovalsTyped
    <3> QED
      BY <1>3, <1>6, <1>7, <3>1
  <2>2. CASE x = [id |-> id, command |-> StepOf(r)]
    <3>1. x.id[2] = n /\ x.command = body[r].commands[n]
      BY <1>0, <2>2 DEF n
    <3> QED
      BY <1>3, <1>6, <1>7, <3>1
  <2> QED
    BY <1>14, <2>1, <2>2
<1>19. \A x \in resuming' : x.request.id[1] # r
  BY <1>3, <1>11
<1>20. RunOK(r)'
  BY <1>12, <1>13, <1>16, <1>17, <1>18, <1>19 DEF RunOK
<1>21. \A e \in effects' : e.id[1] # r => e \in effects
  <2> SUFFICES ASSUME NEW e \in effects', e \notin effects PROVE e.id[1] = r
    OBVIOUS
  <2>1. e.id = id
    BY <1>10
  <2> QED
    BY <2>1
<1>22. \A x \in shown' : x.id[1] # r => x \in shown
  BY <1>14
<1>23. \A k \in DOMAIN pending' : pending'[k].id[1] # r =>
          \E j \in DOMAIN pending : pending'[k] = pending[j]
  BY <1>14
<1> QED
  BY <1>3, <1>6, <1>8, <1>14, <1>20, <1>21, <1>22, <1>23, RunsStep

\* An answer takes one request from the table, and it is run as it was shown.
LEMMA ApprovingKeeps ==
  ASSUME Whole, TypeOK', NEW id \in Ids, NEW yes \in BOOLEAN, Approve(id, yes)
  PROVE  Whole'
<1>0. TypeOK /\ TablesOK /\ \A r \in Runs : RunOK(r)
  BY DEF Whole
<1>1. PICK k \in DOMAIN pending :
         /\ pending[k].id = id
         /\ pending' = SubSeq(pending, 1, k - 1) \o SubSeq(pending, k + 1, Len(pending))
         /\ late' = late \ {id}
         /\ IF id \in late
            THEN resuming' = resuming /\ answer' = [answer EXCEPT ![id] = "no"]
            ELSE /\ resuming' = resuming \cup {[request |-> pending[k], yes |-> yes]}
                 /\ answer' = [answer EXCEPT ![id] = IF yes THEN "yes" ELSE "no"]
  BY DEF Approve
<1>2. /\ UNCHANGED <<serving, gates, shown, effects>>
      /\ UNCHANGED <<stage, gone, todo, round, minted, body, results>>
  BY DEF Approve, handlers
<1>3. PICK x \in shown : x.id = id
  BY DEF Approve
<1> DEFINE r == id[1]
           new == [request |-> pending[k], yes |-> yes]
<1>4. /\ r \in Runs /\ RunOK(r) /\ StoppedAt(pending[k]) /\ answer[id] = "none"
      /\ id[2] = Len(results[r])
  <2>1. r \in Runs
    BY <1>0, <1>1 DEF TablesOK
  <2>2. RunOK(r) /\ StoppedAt(pending[k]) /\ answer[id] = "none"
    BY <1>0, <1>1, <2>1 DEF RunOK
  <2> QED
    BY <1>1, <2>1, <2>2 DEF StoppedAt
<1>5. pending \in Seq(Requests)
  BY <1>0 DEF TypeOK, ApprovalsTyped, Requests
<1>6. /\ k \in 1 .. Len(pending) /\ pending[k] \in Requests
      /\ DOMAIN pending = 1 .. Len(pending) /\ Len(pending) \in Nat
  BY <1>5
<1>7. pending' = Without(pending, k)
  BY <1>1 DEF Without
<1>8. /\ pending' \in Seq(Requests) /\ Len(pending') = Len(pending) - 1
      /\ \A j \in 1 .. k - 1 : pending'[j] = pending[j]
      /\ \A j \in k .. Len(pending) - 1 : pending'[j] = pending[j + 1]
  BY <1>5, <1>6, <1>7, RemoveGoes
<1>9. DOMAIN pending' = 1 .. Len(pending) - 1
  BY <1>8
<1>10. \A j \in DOMAIN pending' : \E i \in DOMAIN pending : i # k /\ pending'[j] = pending[i]
  <2>1. \A j \in 1 .. Len(pending) - 1 :
           \E i \in 1 .. Len(pending) : i # k /\ Without(pending, k)[j] = pending[i]
    BY <1>5, <1>6, RemoveIds
  <2> QED
    BY <1>6, <1>7, <1>9, <2>1
<1>11. \A j \in DOMAIN pending' : pending'[j].id # id
  BY <1>0, <1>1, <1>10 DEF TablesOK
<1>12. \A i \in Ids : i # id => answer'[i] = answer[i]
  BY <1>0, <1>1 DEF TypeOK, ApprovalsTyped
<1>13. resuming' \subseteq resuming \cup {new}
  BY <1>1
<1>14. ASSUME new \in resuming', new \notin resuming
       PROVE  answer'[id] = IF yes THEN "yes" ELSE "no"
  BY <1>0, <1>1, <1>14 DEF TypeOK, ApprovalsTyped
<1>15. new.request = pending[k] /\ new.yes = yes /\ new.request.id = id
  BY <1>1
<1> HIDE DEF new
<1>16. TablesOK'
  <2>1. \A j \in DOMAIN pending' : pending'[j].id[1] \in Runs
    BY <1>0, <1>10 DEF TablesOK
  <2>2. ASSUME NEW i \in DOMAIN pending', NEW j \in DOMAIN pending',
               pending'[i].id = pending'[j].id
        PROVE  i = j
    <3> DEFINE from(q) == IF q < k THEN q ELSE q + 1
    <3>1. \A q \in DOMAIN pending' : from(q) \in DOMAIN pending /\ pending'[q] = pending[from(q)]
      <4> SUFFICES ASSUME NEW q \in 1 .. Len(pending) - 1
                   PROVE  from(q) \in 1 .. Len(pending) /\ pending'[q] = pending[from(q)]
        BY <1>6, <1>9
      <4>1. CASE q < k
        <5>1. q \in 1 .. k - 1
          BY <1>6, <4>1
        <5> QED
          BY <1>6, <1>8, <4>1, <5>1
      <4>2. CASE ~(q < k)
        <5>1. q \in k .. Len(pending) - 1
          BY <1>6, <4>2
        <5> QED
          BY <1>6, <1>8, <4>2, <5>1
      <4> QED
        BY <4>1, <4>2
    <3>2. from(i) = from(j)
      <4> HIDE DEF from
      <4> QED
        BY <1>0, <2>2, <3>1 DEF TablesOK
    <3> QED
      BY <1>6, <1>9, <3>2
  <2>3. \A y \in resuming' : y.request.id[1] \in Runs
    BY <1>0, <1>4, <1>13, <1>15 DEF TablesOK
  <2>4. Len(pending') <= Cap
    BY <1>0, <1>6, <1>8, ServerAssumption DEF TablesOK, ServerAssumption
  <2> QED
    BY <1>0, <1>2, <2>1, <2>2, <2>3, <2>4 DEF TablesOK
<1>17. \A y : StoppedAt(y)' = StoppedAt(y)
  BY <1>2 DEF StoppedAt
<1>18. ASSUME NEW e \in effects, e.approved \/ e.action = "approval_required", e.id = id
       PROVE  FALSE
  <2>1. EffectOK(e, r)
    BY <1>4, <1>18 DEF RunOK
  <2>2. answer[id] # "none"
    BY <1>18, <2>1 DEF EffectOK
  <2> QED
    BY <1>4, <2>2
<1>19. ASSUME NEW j \in DOMAIN pending', pending'[j].id[1] = r
       PROVE  StoppedAt(pending[j])' /\ answer'[pending'[j].id] = "none"
  <2>1. PICK i \in DOMAIN pending : i # k /\ pending'[j] = pending[i]
    BY <1>10
  <2>2. StoppedAt(pending[i]) /\ answer[pending[i].id] = "none" /\ pending[i].id \in Ids
    <3>1. pending[i] \in Requests
      BY <1>5
    <3> QED
      BY <1>4, <1>19, <2>1, <3>1 DEF RunOK, Requests
  <2>3. StoppedAt(pending[j])'
    BY <1>2, <2>1, <2>2 DEF StoppedAt
  <2> QED
    BY <1>11, <1>12, <2>1, <2>2, <2>3
<1>20. ASSUME NEW y \in resuming', y.request.id[1] = r
       PROVE  ResumingOK(y)'
  <2>0. \A z \in resuming : z.request.id[1] = r => z.request.id # id
    BY <1>4 DEF RunOK, ResumingOK
  <2>1. CASE y \in resuming
    <3>1. ResumingOK(y) /\ y.request.id \in Ids /\ y.request.id # id
      BY <1>0, <1>4, <1>20, <2>0, <2>1 DEF RunOK, TypeOK, ApprovalsTyped
    <3>2. \A z \in resuming' : z.request.id = y.request.id => z = y
      BY <1>13, <1>15, <3>1 DEF ResumingOK
    <3> QED
      BY <1>2, <1>12, <1>17, <3>1, <3>2 DEF ResumingOK
  <2>2. CASE y \notin resuming
    <3>1. y = new
      BY <1>13, <2>2
    <3>2. answer'[id] = IF yes THEN "yes" ELSE "no"
      BY <1>14, <1>20, <2>2, <3>1
    <3>3. StoppedAt(y.request)'
      BY <1>4, <1>15, <1>17, <3>1
    <3>4. [id |-> id, command |-> pending[k].command] \in shown
      <4>1. x.command = body[r].commands[id[2]]
        BY <1>3, <1>4 DEF RunOK
      <4>2. pending[k].command = body[r].commands[id[2]]
        BY <1>1, <1>4 DEF StoppedAt
      <4>3. x = [id |-> x.id, command |-> x.command]
        BY <1>0 DEF TypeOK, ApprovalsTyped
      <4> QED
        BY <1>3, <4>1, <4>2, <4>3
    <3>5. \A z \in resuming' : z.request.id = y.request.id => z = y
      BY <1>13, <1>15, <2>0, <3>1
    <3>6. \A e \in effects : e.approved => e.id # id
      BY <1>18
    <3> QED
      BY <1>2, <1>15, <3>1, <3>2, <3>3, <3>4, <3>5, <3>6 DEF ResumingOK
  <2> QED
    BY <2>1, <2>2
<1>21. \A i \in Ids : i[1] = r /\ i[2] > Len(results'[r]) => answer'[i] = "none"
  <2> SUFFICES ASSUME NEW i \in Ids, i[1] = r, i[2] > Len(results[r]) PROVE answer'[i] = "none"
    BY <1>2
  <2>1. i # id
    BY <1>0, <1>4, IdsAre, RunFacts
  <2> QED
    BY <1>4, <1>12, <2>1 DEF RunOK
<1>22. \A y \in shown' : y.id[1] = r =>
          y.id[2] <= Len(results'[r]) /\ y.command = body'[r].commands[y.id[2]]
  BY <1>2, <1>4 DEF RunOK
<1>23. ASSUME NEW e \in effects', e.id[1] = r
       PROVE  EffectOK(e, r)'
  <2>1. e \in effects /\ EffectOK(e, r) /\ e.id \in Ids
    BY <1>0, <1>2, <1>4, <1>23 DEF RunOK, TypeOK, EffectsTyped
  <2>2. e.approved \/ e.action = "approval_required" => answer'[e.id] = answer[e.id]
    BY <1>12, <1>18, <1>23, <2>1
  <2> QED
    BY <1>2, <2>1, <2>2 DEF EffectOK
<1>24. Behind(r)'
  BY <1>2, <1>4 DEF RunOK, Behind, At
<1>25. RunOK(r)'
  BY <1>19, <1>20, <1>21, <1>22, <1>23, <1>24 DEF RunOK
<1>26. \A i \in Ids : i[1] # r => answer'[i] = answer[i]
  BY <1>12
<1>27. \A y \in resuming' : y.request.id[1] # r => y \in resuming
  BY <1>13, <1>15
<1> QED
  BY <1>2, <1>4, <1>10, <1>16, <1>25, <1>26, <1>27, RunsStep

\* An approved request acts once, for the yes it was given.
LEMMA ResumingKeeps ==
  ASSUME Whole, TypeOK', NEW x \in resuming, Resume(x)
  PROVE  Whole'
<1> DEFINE id == x.request.id
           c == x.request.command
           r == id[1]
<1>0. TypeOK /\ TablesOK /\ (\A q \in Runs : RunOK(q)) /\ r \in Runs /\ RunOK(r) /\ ResumingOK(x)
  BY DEF Whole, TablesOK, RunOK
<1>1. resuming' = resuming \ {x}
      /\ UNCHANGED <<serving, handlers, gates, pending, late, shown, answer>>
  BY DEF Resume
<1>2. /\ UNCHANGED <<serving, gates, pending, late, shown, answer>>
      /\ UNCHANGED <<stage, gone, todo, round, minted, body, results>>
  BY <1>1 DEF handlers
<1>3. x.request \in Requests /\ id \in Ids /\ c \in Commands /\ x.request.dryRun \in BOOLEAN
      /\ x.yes \in BOOLEAN
  <2>1. x.request \in Requests /\ x.yes \in BOOLEAN
    BY <1>0 DEF TypeOK, ApprovalsTyped, Requests
  <2> QED
    BY <2>1 DEF Requests
<1>4. /\ answer[id] = IF x.yes THEN "yes" ELSE "no"
      /\ [id |-> id, command |-> c] \in shown
      /\ Unacted(id) /\ \A y \in resuming : y.request.id = id => y = x
  BY <1>0 DEF ResumingOK, Unacted
<1>5. /\ stage[r] = "ended" /\ id[2] = Len(results[r]) /\ results[r][id[2]] = "approval_required"
      /\ x.request.dryRun = body[r].dryRun
  BY <1>0 DEF ResumingOK, StoppedAt
<1>6. PICK action \in Decisions[c], result \in Outcomes :
                    /\ result \in Results(action, IF x.yes THEN "yes" ELSE "no", x.request.dryRun)
                    /\ Perform(id, c, action, result, TRUE)
  BY Outcome DEF Resume
<1>7. action \in Actions
  BY <1>3, DecisionsAre
<1> HIDE DEF c
<1>8. PICK ap \in BOOLEAN : ap = TRUE /\ Perform(id, c, action, result, ap)
  BY <1>6
<1>a. Added(id, c, action, result, ap)
  <2> HIDE DEF id
  <2> QED
    BY <1>0, <1>3, <1>7, <1>8, PerformAdds
<1>9. ASSUME NEW e \in effects', e \notin effects
      PROVE  /\ e.id = id /\ e.command = c /\ e.approved = TRUE /\ e.action = action /\ e.nth = 1
             /\ result \in {"success", "failed"}
  BY <1>4, <1>8, <1>9, <1>a DEF Added
<1>10. result \in {"success", "failed"} =>
          ~body[r].dryRun /\ (action = "approval_required" => x.yes)
  <2>1. result \in {"success", "failed"} =>
           /\ ~x.request.dryRun
           /\ action = "approval_required" =>
                 (IF x.yes THEN "yes" ELSE "no") \notin {"no", "none"}
    BY <1>6, Outcome
  <2> QED
    BY <1>5, <2>1
<1>11. \A i \in 1 .. Len(results[r]) - 1 : batchStepSucceeded(results[r][i], body[r].dryRun)
  <2>1. Len(results[r]) \in Nat
    BY <1>0, RunFacts
  <2> QED
    BY <1>0, <2>1 DEF RunOK, Behind
<1>12. ASSUME NEW e \in effects', e.id[1] = r
       PROVE  EffectOK(e, r)'
  <2>1. CASE e \in effects
    <3>1. EffectOK(e, r)
      BY <1>0, <1>12, <2>1 DEF RunOK
    <3> QED
      BY <1>2, <3>1 DEF EffectOK
  <2>2. CASE e \notin effects
    <3>1. /\ e.id = id /\ e.command = c /\ e.approved = TRUE /\ e.action = action /\ e.nth = 1
          /\ ~body[r].dryRun /\ (action = "approval_required" => x.yes)
      BY <1>9, <1>10, <2>2
    <3>2. \A i \in 1 .. id[2] - 1 : results[r][i] = "success"
      BY <1>5, <1>11, <3>1 DEF batchStepSucceeded
    <3>3. [id |-> e.id, command |-> e.command] \in shown /\ answer[e.id] # "none"
          /\ (action = "approval_required" => answer[e.id] = "yes")
      BY <1>4, <3>1
    <3> HIDE DEF id, r
    <3>4. results[r][e.id[2]] = "approval_required" /\ Len(results[r]) = e.id[2]
      BY <1>5, <3>1
    <3> QED
      BY <1>2, <3>1, <3>2, <3>3, <3>4 DEF EffectOK
  <2> QED
    BY <2>1, <2>2
<1>13. Behind(r)'
  <2>1. \A e \in effects' :
           e.id[1] = r => stage[r] # "idle" /\ ~body[r].dryRun /\ e.id[2] <= At(r)
    <3> SUFFICES ASSUME NEW e \in effects', e.id[1] = r
                 PROVE  ~body[r].dryRun /\ e.id[2] <= At(r)
      BY <1>5
    <3>1. CASE e \in effects
      BY <1>0, <3>1 DEF RunOK, Behind
    <3>2. CASE e \notin effects
      <4>1. e.id = id /\ ~body[r].dryRun
        BY <1>9, <1>10, <3>2
      <4>2. id[2] <= At(r)
        BY <1>0, <1>5, RunFacts
      <4> QED
        BY <4>1, <4>2
    <3> QED
      BY <3>1, <3>2
  <2>2. At(r)' = At(r)
    BY <1>2 DEF At
  <2> QED
    BY <1>0, <1>2, <2>1, <2>2 DEF RunOK, Behind
<1>14. ASSUME NEW y \in resuming', y.request.id[1] = r
       PROVE  ResumingOK(y)'
  <2>1. y \in resuming /\ y # x /\ ResumingOK(y)
    BY <1>0, <1>1, <1>14 DEF RunOK
  <2>2. y.request.id # id
    BY <1>4, <2>1
  <2>3. \A e \in effects' : e.approved => e.id # y.request.id
    <3> SUFFICES ASSUME NEW e \in effects', e.approved PROVE e.id # y.request.id
      OBVIOUS
    <3>1. CASE e \in effects
      BY <2>1, <3>1 DEF ResumingOK
    <3>2. CASE e \notin effects
      BY <1>9, <2>2, <3>2
    <3> QED
      BY <3>1, <3>2
  <2>4. StoppedAt(y.request)'
    BY <1>2, <2>1 DEF ResumingOK, StoppedAt
  <2> QED
    BY <1>1, <1>2, <2>1, <2>3, <2>4 DEF ResumingOK
<1>15. \A k \in DOMAIN pending' : pending'[k].id[1] = r =>
          StoppedAt(pending[k])' /\ answer'[pending'[k].id] = "none"
  BY <1>0, <1>2 DEF RunOK, StoppedAt
<1>16. RunOK(r)'
  BY <1>0, <1>2, <1>12, <1>13, <1>14, <1>15 DEF RunOK
<1>17. TablesOK'
  BY <1>0, <1>1, <1>2 DEF TablesOK
<1>18. \A e \in effects' : e.id[1] # r => e \in effects
  <2> SUFFICES ASSUME NEW e \in effects', e \notin effects PROVE e.id[1] = r
    OBVIOUS
  <2> QED
    BY <1>9
<1> HIDE DEF r
<1>19. \A y \in resuming' : y.request.id[1] # r => y \in resuming
  BY <1>1
<1> QED
  BY <1>0, <1>2, <1>16, <1>17, <1>18, <1>19, RunsStep

\* What changes no more than the times, who is there and the server's own state.
LEMMA QuietKeeps ==
  ASSUME Whole, TypeOK',
         UNCHANGED <<stage, todo, round, minted, body, results>>,
         UNCHANGED <<gates, pending, resuming, shown, answer, effects>>
  PROVE  Whole'
<1>0. /\ TypeOK /\ TablesOK /\ (\A t \in Streams : StreamOK(t)) /\ \A q \in Runs : RunOK(q)
  BY DEF Whole
<1>1. UNCHANGED <<stage, todo, round, minted, body, results>>
  OBVIOUS
<1>2. ASSUME NEW s \in Streams PROVE StreamOK(s)'
  <2>1. SameForStream(s)
    BY <1>1 DEF SameForStream
  <2> QED
    BY <1>0, <2>1, StreamKept
<1>3. ASSUME NEW r \in Runs PROVE RunOK(r)'
  <2>1. SameForRun(r)
    BY <1>1 DEF SameForRun
  <2> QED
    BY <1>0, <2>1, RunKept
<1>4. TablesOK'
  BY <1>0 DEF TablesOK
<1> QED
  BY <1>2, <1>3, <1>4 DEF Whole

-----------------------------------------------------------------------------
(* The invariant.                                                          *)

\* A stream's gate is settled for one stream at a time, or for none.
LEMMA OneIsSettled ==
  ASSUME Inv, TypeOK', NEW s \in Streams, stage[s] = "parked", NEW yes \in BOOLEAN,
         Settle({s}, yes), yes => \E x \in shown : x.id = Current(s),
         UNCHANGED <<round, minted, body, results, pending, resuming, shown, effects>>
  PROVE  Whole'
<1>1. /\ TypeOK /\ TablesAgree /\ \A t \in Streams : Proceeding(t)
      /\ {s} \in SUBSET ParkedOf(Streams)
  BY DEF Inv, ServerInv, ParkedOf
<1>2. Settled({s}, yes)
  BY <1>1, SettleGoes
<1>3. Whole
  BY InvIsWhole
<1> QED
  BY <1>2, <1>3, SettlingKeeps

LEMMA NoneIsSettled ==
  ASSUME TypeOK, Settle({}, FALSE)
  PROVE  UNCHANGED <<stage, todo, gates, answer>>
<1>1. /\ stage' = [h \in Handlers |-> stage[h]] /\ todo' = [s \in Streams |-> todo[s]]
      /\ gates' = gates /\ answer' = [i \in Ids |-> answer[i]]
  BY DEF Settle
<1> QED
  BY <1>1 DEF TypeOK, StagesTyped, HandlersTyped, ApprovalsTyped

LEMMA StreamKeeps ==
  ASSUME Inv, Whole, TypeOK', NEW s \in Streams, AskAgent(s) \/ Proceed(s)
  PROVE  Whole'
<1>1. CASE AskAgent(s) \/ (\E t \in Turns : Turn(s, t)) \/ TurnFails(s) \/ Pass(s)
  BY <1>1, MovingKeeps
<1>2. CASE Rehearsed(s)
  <2>1. \/ NextCall(s) /\ UNCHANGED <<minted, gates, shown>>
        \/ Park(s) /\ UNCHANGED todo
    BY <1>2 DEF Rehearsed
  <2> QED
    BY <1>2, <2>1, MovingKeeps, ParkKeeps
<1>3. CASE RealRun(s) \/ CallThrows(s)
  BY <1>3, ActingKeeps
<1>4. CASE GateTimeout(s)
  <2>1. /\ stage[s] = "parked" /\ Settle({s}, FALSE)
        /\ UNCHANGED <<round, minted, body, results, pending, resuming, shown, effects>>
    BY <1>4 DEF GateTimeout
  <2> QED
    BY <2>1, OneIsSettled
<1> QED
  BY <1>1, <1>2, <1>3, <1>4 DEF Proceed

LEMMA InvKept ==
  ASSUME Inv, Next
  PROVE  Whole'
<1>0. Whole /\ TypeOK' /\ TablesAgree /\ TypeOK
  BY InvIsWhole, TypeKept DEF Inv, ServerInv
<1>1. ASSUME NEW s \in Streams, AskAgent(s) PROVE Whole'
  BY <1>0, <1>1, StreamKeeps
<1>2. ASSUME NEW r \in Runs, NEW b \in Asks[r], Post(r, b) PROVE Whole'
  BY <1>0, <1>2, PostingKeeps
<1>3. ASSUME NEW h \in Handlers, Proceed(h) PROVE Whole'
  <2>1. CASE h \in Streams
    BY <1>0, <1>3, <2>1, StreamKeeps
  <2>2. CASE h \notin Streams
    <3>1. h \in Runs /\ (RunStep(h) \/ RunThrows(h))
      BY <1>3, <2>2 DEF Handlers, Proceed
    <3> QED
      BY <1>0, <3>1, RunningKeeps, ThrowingKeeps
  <2> QED
    BY <2>1, <2>2
<1>4. ASSUME NEW h \in Handlers, Disconnect(h) PROVE Whole'
  <2>1. /\ Settle(ParkedOf({h} \cap Streams), FALSE)
        /\ UNCHANGED <<round, minted, body, results, pending, resuming, shown, effects>>
    BY <1>4 DEF Disconnect
  <2>2. CASE h \in Streams /\ stage[h] = "parked"
    <3>1. ParkedOf({h} \cap Streams) = {h}
      BY <2>2 DEF ParkedOf
    <3> QED
      BY <1>0, <2>1, <2>2, <3>1, OneIsSettled
  <2>3. CASE ~(h \in Streams /\ stage[h] = "parked")
    <3>1. ParkedOf({h} \cap Streams) = {}
      BY <2>3 DEF ParkedOf
    <3>2. UNCHANGED <<stage, todo, gates, answer>>
      BY <1>0, <2>1, <3>1, NoneIsSettled
    <3> QED
      BY <1>0, <2>1, <3>2, QuietKeeps
  <2> QED
    BY <2>2, <2>3
<1>5. ASSUME NEW i \in Ids, NEW yes \in BOOLEAN, AnswerGate(i, yes) PROVE Whole'
  <2>1. /\ {i[1]} \in SUBSET ParkedOf(Streams) /\ Settle({i[1]}, yes)
        /\ i = Current(i[1]) /\ \E x \in shown : x.id = i
    BY <1>5, Settles
  <2>2. i[1] \in Streams /\ stage[i[1]] = "parked"
    BY <2>1 DEF ParkedOf
  <2>3. UNCHANGED <<round, minted, body, results, pending, resuming, shown, effects>>
    BY <1>5 DEF AnswerGate
  <2> QED
    BY <1>0, <2>1, <2>2, <2>3, OneIsSettled
<1>6. ASSUME NEW i \in Ids, NEW yes \in BOOLEAN, Approve(i, yes) PROVE Whole'
  BY <1>0, <1>6, ApprovingKeeps
<1>7. ASSUME Resumed PROVE Whole'
  <2>1. PICK x \in resuming : Resume(x)
    BY <1>7 DEF Resumed
  <2> QED
    BY <1>0, <2>1, ResumingKeeps
<1>8. ASSUME Expire \/ Closed PROVE Whole'
  <2>1. /\ UNCHANGED <<stage, todo, round, minted, body, results>>
        /\ UNCHANGED <<gates, pending, resuming, shown, answer, effects>>
    BY <1>8 DEF Expire, Closed, handlers
  <2> QED
    BY <1>0, <2>1, QuietKeeps
<1>9. ASSUME Close PROVE Whole'
  BY <1>0, <1>9, ClosingKeeps
<1> QED
  BY <1>1, <1>2, <1>3, <1>4, <1>5, <1>6, <1>7, <1>8, <1>9 DEF Next

LEMMA InvUnchanged ==
  ASSUME Inv, UNCHANGED vars
  PROVE  Whole'
<1>1. /\ UNCHANGED <<stage, todo, round, minted, body, results>>
      /\ UNCHANGED <<gates, pending, resuming, shown, answer, effects>>
      /\ UNCHANGED <<serving, gone, late>>
  BY DEF vars, handlers
<1>2. TypeOK'
  BY <1>1 DEF Inv, ServerInv, TypeOK, StagesTyped, HandlersTyped, ApprovalsTyped, EffectsTyped, IdsOf
<1> QED
  BY <1>1, <1>2, InvIsWhole, QuietKeeps

\* The handlers, the tables of approvals and what was executed stay in step, whatever the
\* clients, the models and policy do.
THEOREM ServerInvariant == Spec => []Inv
<1>1. Init => Inv
  BY Start
<1>2. Inv /\ [Next]_vars => Whole'
  BY InvKept, InvUnchanged
<1>3. Whole => Inv
  BY WholeIsInv
<1> QED
  BY <1>1, <1>2, <1>3, PTL DEF Spec

\* ... and so do the parts of it that the run checks.
THEOREM ServerKeepsInv == Spec => []ServerInv
<1>1. Inv => ServerInv
  BY DEF Inv
<1> QED
  BY <1>1, ServerInvariant, PTL

\* What is executed on the strength of an approval is what was shown, once, and with the
\* yes that policy or the agent's gate asked for.
THEOREM ServerActsAsShown == Spec => []ApprovedAsShown
<1>1. Inv => ApprovedAsShown
  BY DEF Inv
<1> QED
  BY <1>1, ServerInvariant, PTL

\* A batch executes nothing behind a step that did not succeed.
THEOREM ServerRunsInOrder == Spec => []BatchInOrder
<1>1. Inv => BatchInOrder
  BY DEF Inv
<1> QED
  BY <1>1, ServerInvariant, PTL

-----------------------------------------------------------------------------
(* The refinement: what each step does to the approvals.                   *)

Open == gates \cup IdsOf(pending)
Status == [i \in Ids |-> ApprovalStatus(i)]
Acting(e) == e.approved /\ (e.id[1] \in Streams \/ e.action = "approval_required")
Acted == {e.id : e \in {f \in effects : Acting(f)}}
NoneAnswered == \A i \in Open : answer[i] = "none"

ApprovalStep == Approvals!Move \/ (\E i \in Ids : Approvals!Act(i)) \/ UNCHANGED <<Status, Acted>>

\* What is open is closed with an answer, nothing else gets one, and a yes comes alone.
Answering ==
  /\ \A i \in Open : i \in Open' \/ answer'[i] # "none"
  /\ \A i \in Ids : i \notin Open => answer'[i] = answer[i]
  /\ \A i \in Open : answer'[i] = "yes" =>
        \A j \in Ids : j # i => (j \in Open' <=> j \in Open) /\ answer'[j] = answer[j]

LEMMA AnsweringMoves ==
  ASSUME TypeOK, TypeOK', NoneAnswered, NoneAnswered', Answering, Acted' = Acted
  PROVE  Approvals!Move
<1>1. ASSUME NEW i \in Ids
      PROVE  /\ answer[i] \in {"none", "yes", "no"} /\ answer'[i] \in {"none", "yes", "no"}
             /\ Status[i] = IF i \in Open THEN "open"
                            ELSE IF answer[i] = "yes" THEN "granted"
                            ELSE IF answer[i] = "no" THEN "denied" ELSE "none"
             /\ Status'[i] = IF i \in Open' THEN "open"
                             ELSE IF answer'[i] = "yes" THEN "granted"
                             ELSE IF answer'[i] = "no" THEN "denied" ELSE "none"
  <2>1. answer[i] \in {"none", "yes", "no"} /\ answer'[i] \in {"none", "yes", "no"}
    BY DEF TypeOK, ApprovalsTyped
  <2> QED
    BY <2>1 DEF Status, ApprovalStatus, Open
<1> DEFINE changed == {i \in Ids : Status'[i] # Status[i]}
<1>2. Status' \in [Ids -> Approvals!Statuses]
  BY <1>1 DEF Status, Approvals!Statuses
<1>3. ASSUME NEW i \in changed
      PROVE  <<Status[i], Status'[i]>> \in Approvals!Moves
  BY <1>1 DEF Approvals!Moves, Answering, NoneAnswered
<1>4. ASSUME NEW i \in changed, Status'[i] = "granted"
      PROVE  changed = {i}
  <2>1. i \in Open /\ answer'[i] = "yes"
    BY <1>1, <1>4 DEF Answering
  <2>2. \A j \in Ids : j # i => Status'[j] = Status[j]
    BY <1>1, <2>1 DEF Answering
  <2> QED
    BY <2>2
<1> QED
  BY <1>2, <1>3, <1>4 DEF Approvals!Move, Status, Acted, Acting

\* Nothing happens to the tables.
LEMMA TablesStay ==
  ASSUME TypeOK, UNCHANGED <<gates, pending, answer>>
  PROVE  Status' = Status /\ Open' = Open
BY DEF Status, ApprovalStatus, Open, IdsOf

\* An approved command acts.
LEMMA ApprovedActs ==
  ASSUME TypeOK, TypeOK', NoneAnswered, UNCHANGED <<gates, pending, answer>>,
         NEW id \in Ids, Unacted(id), effects \subseteq effects',
         \A e \in effects' \ effects : e.id = id /\ (Acting(e) => answer[id] = "yes")
  PROVE  ApprovalStep
<1>1. Status' = Status
  BY TablesStay
<1>2. CASE \E e \in effects' \ effects : Acting(e)
  <2>1. answer[id] = "yes" /\ Acted' = Acted \cup {id}
    BY <1>2 DEF Acted, Acting
  <2>2. id \notin Acted
    BY DEF Unacted, Acted, Acting
  <2>3. Status[id] = "granted"
    BY <2>1 DEF Status, ApprovalStatus, NoneAnswered, Open
  <2>4. Approvals!Act(id)
    BY <1>1, <2>1, <2>2, <2>3 DEF Approvals!Act, Status, Acted, Acting
  <2> QED
    BY <2>4 DEF ApprovalStep
<1>3. CASE ~\E e \in effects' \ effects : Acting(e)
  <2>1. Acted' = Acted
    BY <1>3 DEF Acted, Acting
  <2> QED
    BY <1>1, <2>1 DEF ApprovalStep
<1> QED
  BY <1>2, <1>3

\* The tables and the effects stay.
LEMMA NothingActs ==
  ASSUME TypeOK, UNCHANGED <<gates, pending, answer, effects>>
  PROVE  ApprovalStep
<1>1. Status' = Status /\ Acted' = Acted
  BY TablesStay DEF Acted, Acting
<1> QED
  BY <1>1 DEF ApprovalStep
LEMMA OpenAreIds ==
  ASSUME TypeOK
  PROVE  Open \subseteq Ids
<1>1. pending \in Seq(Requests) /\ gates \subseteq Ids
  BY DEF TypeOK, ApprovalsTyped, Requests
<1>2. \A k \in DOMAIN pending : pending[k] \in Requests
  BY <1>1
<1>3. \A k \in DOMAIN pending : pending[k].id \in Ids
  BY <1>2 DEF Requests
<1> QED
  BY <1>1, <1>3 DEF Open, IdsOf

LEMMA OpenAreUnanswered == Inv => NoneAnswered
BY DEF Inv, ServerInv, TablesAgree, NoneAnswered, Open, IdsOf

\* What is not approved is no concern of the approvals.
LEMMA UnapprovedActs ==
  ASSUME effects \subseteq effects', \A e \in effects' \ effects : ~e.approved
  PROVE  Acted' = Acted
<1>1. \A e \in effects' : Acting(e) <=> e \in effects /\ Acting(e)
  BY DEF Acting
<1>2. \A e \in effects : e \in effects'
  OBVIOUS
<1>3. \A i : i \in Acted <=> \E e \in effects : Acting(e) /\ i = e.id
  BY DEF Acted
<1>4. \A i : i \in Acted' <=> \E e \in effects' : Acting(e) /\ i = e.id
  BY DEF Acted, Acting
<1> QED
  BY <1>1, <1>2, <1>3, <1>4

LEMMA MoveIsStep ==
  ASSUME TypeOK, TypeOK', NoneAnswered, NoneAnswered', Answering, Acted' = Acted
  PROVE  ApprovalStep
BY AnsweringMoves DEF ApprovalStep

\* The gate of a stream is settled.
LEMMA SettlingAnswers ==
  ASSUME Inv, TypeOK', NoneAnswered', NEW s \in Streams, stage[s] = "parked",
         NEW yes \in BOOLEAN, Settle({s}, yes), UNCHANGED <<pending, effects>>
  PROVE  ApprovalStep
<1>1. /\ TypeOK /\ TablesAgree /\ (\A t \in Streams : Proceeding(t)) /\ NoneAnswered
      /\ {s} \in SUBSET ParkedOf(Streams)
  BY OpenAreUnanswered DEF Inv, ServerInv, ParkedOf
<1>2. Settled({s}, yes)
  BY <1>1, SettleGoes
<1>3. /\ gates' = {g \in gates : g[1] # s}
      /\ \A i \in Ids : i \in gates /\ i[1] = s => answer'[i] = IF yes THEN "yes" ELSE "no"
      /\ \A i \in Ids : ~(i \in gates /\ i[1] = s) => answer'[i] = answer[i]
  BY <1>2 DEF Settled
<1>4. {g \in gates : g[1] = s} = {Current(s)} /\ gates \subseteq Ids
  BY <1>1 DEF TablesAgree, TypeOK, ApprovalsTyped, Current
<1>5. IdsOf(pending') = IdsOf(pending)
  BY DEF IdsOf
<1>6. \A i \in Ids : i \in gates /\ i[1] = s <=> i = Current(s)
  BY <1>4
<1>7. \A i \in Ids : i # Current(s) =>
         (i \in Open' <=> i \in Open) /\ answer'[i] = answer[i]
  BY <1>3, <1>4, <1>5, <1>6 DEF Open
<1>8. Current(s) \in Open /\ answer'[Current(s)] \in {"yes", "no"}
  BY <1>3, <1>4, <1>6 DEF Open
<1>9. Open \subseteq Ids
  BY <1>1, OpenAreIds
<1>10. Answering
  <2>1. \A i \in Open : i \in Open' \/ answer'[i] # "none"
    BY <1>7, <1>8, <1>9
  <2>2. \A i \in Ids : i \notin Open => answer'[i] = answer[i]
    BY <1>7, <1>8
  <2>3. \A i \in Open : answer'[i] = "yes" => i = Current(s)
    BY <1>1, <1>7, <1>9 DEF NoneAnswered
  <2> QED
    BY <1>7, <2>1, <2>2, <2>3 DEF Answering
<1>11. Acted' = Acted
  BY DEF Acted, Acting
<1> QED
  BY <1>1, <1>10, <1>11, MoveIsStep

\* A question is put: it was not open, and has no answer.
LEMMA ParkingAsks ==
  ASSUME Inv, TypeOK', NoneAnswered', NEW s \in Streams, Park(s),
         UNCHANGED <<pending, answer, effects>>
  PROVE  ApprovalStep
<1>1. TypeOK /\ NoneAnswered
  BY OpenAreUnanswered DEF Inv, ServerInv
<1>2. Open \subseteq Open' /\ answer' = answer /\ Acted' = Acted
  BY DEF Park, Open, Acted, Acting, IdsOf
<1>3. Open \subseteq Ids
  BY <1>1, OpenAreIds
<1>4. Answering
  BY <1>1, <1>2, <1>3 DEF Answering, NoneAnswered
<1> QED
  BY <1>1, <1>2, <1>4, MoveIsStep

\* A step of a run is bound, and older ones may be dropped.
LEMMA BindingAsks ==
  ASSUME Inv, TypeOK', NoneAnswered', NEW r \in Runs, stage[r] = "running", BindApproval(r),
         Acted' = Acted, UNCHANGED gates
  PROVE  ApprovalStep
<1>1. TypeOK /\ NoneAnswered /\ TablesAgree /\ Behind(r)
  BY OpenAreUnanswered DEF Inv, ServerInv
<1>2. \A i \in Ids :
         answer'[i] = IF i \in IdsOf(pending) \ IdsOf(pending') THEN "no" ELSE answer[i]
  BY <1>1, BindGoes
<1>3. Open \subseteq Ids
  BY <1>1, OpenAreIds
<1>4. Open' = gates \cup IdsOf(pending') /\ Open = gates \cup IdsOf(pending)
  BY DEF Open, IdsOf
<1>5. Answering
  BY <1>1, <1>2, <1>3, <1>4 DEF Answering, NoneAnswered
<1> QED
  BY <1>1, <1>5, MoveIsStep

\* The answer to a bound step, or a yes that comes too late.
LEMMA ApprovingAnswers ==
  ASSUME Inv, TypeOK', NoneAnswered', NEW id \in Ids, NEW yes \in BOOLEAN, Approve(id, yes)
  PROVE  ApprovalStep
<1>1. TypeOK /\ NoneAnswered /\ TablesAgree
  BY OpenAreUnanswered DEF Inv, ServerInv
<1>2. PICK k \in DOMAIN pending :
         /\ pending[k].id = id
         /\ pending' = SubSeq(pending, 1, k - 1) \o SubSeq(pending, k + 1, Len(pending))
         /\ \E a \in {"yes", "no"} : answer' = [answer EXCEPT ![id] = a]
  BY DEF Approve
<1>3. pending' = Without(pending, k)
  BY <1>2 DEF Without
<1>4. pending \in Seq(Requests)
  BY <1>1 DEF TypeOK, ApprovalsTyped, Requests
<1>5. k \in 1 .. Len(pending) /\ DOMAIN pending = 1 .. Len(pending) /\ Len(pending) \in Nat
  BY <1>4
<1>6. pending' \in Seq(Requests) /\ Len(pending') = Len(pending) - 1
  BY <1>3, <1>4, <1>5, RemoveGoes
<1>7. DOMAIN pending' = 1 .. Len(pending) - 1
  BY <1>6
<1>8. \A j \in DOMAIN pending : j # k => pending[j].id \in IdsOf(pending')
  <2>1. \A j \in 1 .. Len(pending) : j # k => pending[j].id \in IdsOf(Without(pending, k))
    BY <1>4, <1>5, RemoveIds
  <2> QED
    BY <1>3, <1>5, <2>1
<1>9. \A j \in DOMAIN pending' : \E i \in DOMAIN pending : i # k /\ pending'[j] = pending[i]
  <2>1. \A j \in 1 .. Len(pending) - 1 :
           \E i \in 1 .. Len(pending) : i # k /\ Without(pending, k)[j] = pending[i]
    BY <1>4, <1>5, RemoveIds
  <2> QED
    BY <1>3, <1>5, <1>7, <2>1
<1>10. IdsOf(pending') = IdsOf(pending) \ {id}
  <2>1. \A j \in DOMAIN pending : pending[j].id = id => j = k
    BY <1>1, <1>2 DEF TablesAgree
  <2>2. \A i : i \in IdsOf(pending) <=> \E j \in DOMAIN pending : i = pending[j].id
    BY DEF IdsOf
  <2>3. \A i : i \in IdsOf(pending') <=> \E j \in DOMAIN pending' : i = pending'[j].id
    BY DEF IdsOf
  <2>4. ASSUME NEW i \in IdsOf(pending'), i \notin IdsOf(pending) \ {id} PROVE FALSE
    <3>1. PICK j \in DOMAIN pending' : i = pending'[j].id
      BY <2>3
    <3>2. PICK n \in DOMAIN pending : n # k /\ pending'[j] = pending[n]
      BY <1>9
    <3> QED
      BY <2>1, <2>2, <2>4, <3>1, <3>2
  <2>5. ASSUME NEW i \in IdsOf(pending) \ {id} PROVE i \in IdsOf(pending')
    <3>1. PICK j \in DOMAIN pending : i = pending[j].id
      BY <2>2
    <3> QED
      BY <1>2, <1>8, <2>5, <3>1
  <2> QED
    BY <2>4, <2>5
<1>11. id \notin gates /\ id \in IdsOf(pending) /\ gates' = gates /\ effects' = effects
  <2>1. id[1] \in Runs /\ \A g \in gates : g[1] \in Streams
    BY <1>1, <1>2 DEF TablesAgree
  <2> QED
    BY <1>2, <2>1, ServerAssumption DEF Approve, IdsOf, ServerAssumption
<1>12. Open \subseteq Ids
  BY <1>1, OpenAreIds
<1>13. Open' = Open \ {id} /\ id \in Open
  BY <1>10, <1>11 DEF Open, IdsOf
<1>14. answer'[id] \in {"yes", "no"} /\ \A i \in Ids : i # id => answer'[i] = answer[i]
  BY <1>1, <1>2 DEF TypeOK, ApprovalsTyped
<1>15. Answering
  BY <1>1, <1>12, <1>13, <1>14 DEF Answering, NoneAnswered
<1>16. Acted' = Acted
  BY <1>11 DEF Acted, Acting
<1> QED
  BY <1>1, <1>15, <1>16, MoveIsStep

\* close() denies whatever is open.
LEMMA ClosingAnswers ==
  ASSUME Inv, TypeOK', NoneAnswered', Close
  PROVE  ApprovalStep
<1>1. TypeOK /\ NoneAnswered
  BY OpenAreUnanswered DEF Inv, ServerInv
<1>2. \A i \in Ids : answer'[i] = IF i \in Open THEN "no" ELSE answer[i]
  BY DEF Close, Open
<1>3. Open \subseteq Ids
  BY <1>1, OpenAreIds
<1>4. Answering
  BY <1>2, <1>3 DEF Answering
<1>5. Acted' = Acted
  BY DEF Close, Acted, Acting
<1> QED
  BY <1>1, <1>4, <1>5, MoveIsStep
\* What a stream does by itself.
LEMMA StreamAsks ==
  ASSUME Inv, TypeOK', NoneAnswered', NEW s \in Streams, AskAgent(s) \/ Proceed(s)
  PROVE  ApprovalStep
<1>0. TypeOK /\ NoneAnswered /\ Proceeding(s) /\ AskedOfAgent(s)
  BY OpenAreUnanswered DEF Inv, ServerInv
<1>1. CASE AskAgent(s) \/ (\E t \in Turns : Turn(s, t)) \/ TurnFails(s) \/ Pass(s)
  <2>1. UNCHANGED <<gates, pending, answer, effects>>
    BY <1>1 DEF AskAgent, Turn, TurnFails, Pass
  <2> QED
    BY <1>0, <2>1, NothingActs
<1>2. CASE Rehearsed(s)
  <2>1. UNCHANGED <<pending, answer, effects>> /\ (UNCHANGED gates \/ Park(s))
    BY <1>2 DEF Rehearsed
  <2> QED
    BY <1>0, <2>1, NothingActs, ParkingAsks
<1>3. CASE RealRun(s) \/ CallThrows(s)
  <2>1. UNCHANGED <<gates, pending, answer>>
    BY <1>3 DEF RealRun, CallThrows
  <2>2. CASE UNCHANGED effects
    BY <1>0, <2>1, <2>2, NothingActs
  <2>3. CASE ~UNCHANGED effects
    <3> DEFINE id == Current(s)
               c == Head(todo[s]).command
    <3>1. PICK a \in Actions, res \in Outcomes :
             stage[s] = "real" /\ id \in Ids /\ c \in Commands /\ Perform(id, c, a, res, TRUE)
      BY <1>0, <1>3, <2>3, Acts
    <3>2. answer[id] = "yes" /\ Unacted(id)
      BY <1>0, <3>1 DEF AskedOfAgent, Unacted
    <3> HIDE DEF id, c
    <3>3. PICK ap \in BOOLEAN : ap = TRUE /\ Perform(id, c, a, res, ap)
      BY <3>1
    <3>4. Added(id, c, a, res, ap)
      BY <1>0, <3>1, <3>3, PerformAdds
    <3>5. effects \subseteq effects' /\ \A e \in effects' \ effects : e.id = id
      BY <3>4 DEF Added
    <3> QED
      BY <1>0, <2>1, <3>1, <3>2, <3>5, ApprovedActs
  <2> QED
    BY <2>2, <2>3
<1>4. CASE GateTimeout(s)
  <2>1. stage[s] = "parked" /\ Settle({s}, FALSE) /\ UNCHANGED <<pending, effects>>
    BY <1>4 DEF GateTimeout
  <2> QED
    BY <2>1, SettlingAnswers
<1> QED
  BY <1>1, <1>2, <1>3, <1>4 DEF Proceed

\* What a run does: its effects are not approved.
LEMMA RunAsks ==
  ASSUME Inv, TypeOK', NoneAnswered', NEW r \in Runs, RunStep(r) \/ RunThrows(r)
  PROVE  ApprovalStep
<1>0. TypeOK /\ NoneAnswered /\ Behind(r) /\ stage[r] = "running"
  BY OpenAreUnanswered DEF Inv, ServerInv, RunStep, RunThrows
<1>a. StepOf(r) \in Commands
  BY <1>0, BoundIs
<1>1. Acted' = Acted
  <2>1. CASE UNCHANGED effects
    BY <2>1 DEF Acted, Acting
  <2>2. CASE ~UNCHANGED effects
    <3>1. PICK a \in Actions, res \in Outcomes : Perform(<<r, At(r)>>, StepOf(r), a, res, FALSE)
      <4>1. CASE RunStep(r)
        <5>1. PICK action \in Decisions[StepOf(r)], result \in Outcomes : Stepped(r, action, result)
          BY <4>1, StepIs
        <5> QED
          BY <1>a, <5>1, DecisionsAre DEF Stepped
      <4>2. CASE RunThrows(r)
        <5>1. Perform(<<r, At(r)>>, StepOf(r), "allow", "failed", FALSE)
          BY <2>2, <4>2 DEF RunThrows
        <5> QED
          BY <5>1 DEF Actions, Outcomes
      <4> QED
        BY <4>1, <4>2
    <3>2. effects \subseteq effects'
      BY <3>1 DEF Perform
    <3>3. \A e \in effects' \ effects : e.approved = FALSE
      BY <1>0, <3>1, RunActs
    <3> QED
      BY <3>2, <3>3, UnapprovedActs
  <2> QED
    BY <2>1, <2>2
<1>2. UNCHANGED gates /\ (BindApproval(r) \/ UNCHANGED <<pending, answer>>)
  BY DEF RunStep, RunThrows
<1>3. CASE UNCHANGED <<pending, answer>>
  BY <1>0, <1>1, <1>2, <1>3, TablesStay DEF ApprovalStep
<1> QED
  BY <1>0, <1>1, <1>2, <1>3, BindingAsks

\* An approved step is run again.
LEMMA ResumingActs ==
  ASSUME Inv, TypeOK', NEW x \in resuming, Resume(x)
  PROVE  ApprovalStep
<1> DEFINE id == x.request.id
           c == x.request.command
<1>0. TypeOK /\ NoneAnswered /\ AskedOfRun
  BY OpenAreUnanswered DEF Inv, ServerInv
<1>1. id \in Ids /\ c \in Commands /\ x.yes \in BOOLEAN
  BY <1>0 DEF TypeOK, ApprovalsTyped
<1>2. /\ id[1] \in Runs /\ id[1] \notin Streams
      /\ answer[id] = (IF x.yes THEN "yes" ELSE "no") /\ Unacted(id)
  BY <1>0, ServerAssumption DEF AskedOfRun, StoppedAt, Unacted, ServerAssumption
<1>3. PICK a \in Decisions[c], result \in Outcomes :
                    /\ result \in Results(a, IF x.yes THEN "yes" ELSE "no", x.request.dryRun)
                    /\ Perform(id, c, a, result, TRUE)
  BY Outcome DEF Resume
<1>4. a \in Actions
  BY <1>1, DecisionsAre
<1>5. UNCHANGED <<gates, pending, answer>>
  BY DEF Resume
<1>6. result \in {"success", "failed"} /\ a = "approval_required" => x.yes
  BY <1>3, Outcome
<1> HIDE DEF id, c
<1>7. PICK ap \in BOOLEAN : ap = TRUE /\ Perform(id, c, a, result, ap)
  BY <1>3
<1>8. Added(id, c, a, result, ap)
  BY <1>0, <1>1, <1>4, <1>7, PerformAdds
<1>9. effects \subseteq effects'
      /\ \A e \in effects' \ effects :
            result \in {"success", "failed"} /\ e.id = id /\ e.action = a
  BY <1>8 DEF Added
<1>10. \A e \in effects' \ effects : Acting(e) => answer[id] = "yes"
  BY <1>2, <1>6, <1>9 DEF Acting
<1> QED
  BY <1>0, <1>1, <1>2, <1>5, <1>9, <1>10, ApprovedActs

LEMMA StepIsApproval ==
  ASSUME Inv, TypeOK', NoneAnswered', Next
  PROVE  ApprovalStep
<1>0. TypeOK /\ TablesAgree
  BY DEF Inv, ServerInv
<1>1. ASSUME NEW s \in Streams, AskAgent(s) PROVE ApprovalStep
  BY <1>1, StreamAsks
<1>2. ASSUME NEW r \in Runs, NEW b \in Asks[r], Post(r, b) PROVE ApprovalStep
  <2>1. UNCHANGED <<gates, pending, answer, effects>>
    BY <1>2 DEF Post
  <2> QED
    BY <1>0, <2>1, NothingActs
<1>3. ASSUME NEW h \in Handlers, Proceed(h) PROVE ApprovalStep
  <2>1. CASE h \in Streams
    BY <1>3, <2>1, StreamAsks
  <2>2. CASE h \notin Streams
    <3>1. h \in Runs /\ (RunStep(h) \/ RunThrows(h))
      BY <1>3, <2>2 DEF Handlers, Proceed
    <3> QED
      BY <3>1, RunAsks
  <2> QED
    BY <2>1, <2>2
<1>4. ASSUME NEW h \in Handlers, Disconnect(h) PROVE ApprovalStep
  <2>1. Settle(ParkedOf({h} \cap Streams), FALSE) /\ UNCHANGED <<pending, effects>>
    BY <1>4 DEF Disconnect
  <2>2. CASE h \in Streams /\ stage[h] = "parked"
    <3>1. ParkedOf({h} \cap Streams) = {h}
      BY <2>2 DEF ParkedOf
    <3> QED
      BY <2>1, <2>2, <3>1, SettlingAnswers
  <2>3. CASE ~(h \in Streams /\ stage[h] = "parked")
    <3>1. ParkedOf({h} \cap Streams) = {}
      BY <2>3 DEF ParkedOf
    <3>2. UNCHANGED <<gates, answer>>
      BY <1>0, <2>1, <3>1, NoneIsSettled
    <3> QED
      BY <1>0, <2>1, <3>2, NothingActs
  <2> QED
    BY <2>2, <2>3
<1>5. ASSUME NEW i \in Ids, NEW yes \in BOOLEAN, AnswerGate(i, yes) PROVE ApprovalStep
  <2>1. {i[1]} \in SUBSET ParkedOf(Streams) /\ Settle({i[1]}, yes)
    BY <1>5, Settles
  <2>2. i[1] \in Streams /\ stage[i[1]] = "parked"
    BY <2>1 DEF ParkedOf
  <2>3. UNCHANGED <<pending, effects>>
    BY <1>5 DEF AnswerGate
  <2> QED
    BY <2>1, <2>2, <2>3, SettlingAnswers
<1>6. ASSUME NEW i \in Ids, NEW yes \in BOOLEAN, Approve(i, yes) PROVE ApprovalStep
  BY <1>6, ApprovingAnswers
<1>7. ASSUME Resumed PROVE ApprovalStep
  <2>1. PICK x \in resuming : Resume(x)
    BY <1>7 DEF Resumed
  <2> QED
    BY <2>1, ResumingActs
<1>8. ASSUME Expire \/ Closed PROVE ApprovalStep
  <2>1. UNCHANGED <<gates, pending, answer, effects>>
    BY <1>8 DEF Expire, Closed
  <2> QED
    BY <1>0, <2>1, NothingActs
<1>9. ASSUME Close PROVE ApprovalStep
  BY <1>9, ClosingAnswers
<1> QED
  BY <1>1, <1>2, <1>3, <1>4, <1>5, <1>6, <1>7, <1>8, <1>9 DEF Next

\* The server's two tables, its gates and their timers implement the approvals a person
\* relies on: a question is put once, settled once, and only a yes lets its command act,
\* once.
THEOREM ServerImplementsApproval == Spec => ApprovalSpec
<1>1. Init => Approvals!Init
  BY DEF Init, Approvals!Init, ApprovalStatus, IdsOf
<1>2. Inv /\ Inv' /\ [Next]_vars => [Approvals!Next]_<<Status, Acted>>
  <2> SUFFICES ASSUME Inv, Inv', [Next]_vars PROVE ApprovalStep
    BY DEF ApprovalStep, Approvals!Next
  <2>1. TypeOK /\ TypeOK' /\ NoneAnswered'
    <3>1. TypeOK /\ TypeOK' /\ TablesAgree'
      BY DEF Inv, ServerInv
    <3> QED
      BY <3>1 DEF TablesAgree, NoneAnswered, Open, IdsOf
  <2>2. CASE Next
    BY <2>1, <2>2, StepIsApproval
  <2>3. CASE UNCHANGED vars
    <3>1. UNCHANGED <<gates, pending, answer, effects>>
      BY <2>3 DEF vars
    <3> QED
      BY <2>1, <3>1, NothingActs
  <2> QED
    BY <2>2, <2>3
<1> QED
  BY <1>1, <1>2, ServerInvariant, PTL DEF Spec, ApprovalSpec, Approvals!Spec, Status, Acted, Acting
=============================================================================
