--------------------------- MODULE FrontEnds_proofs ---------------------------
(***************************************************************************)
(* Proofs about the front ends, each in its place beside the others, whose *)
(* files it leaves alone: the layers of the registry, runs of functions,   *)
(* the command line of the web terminal, its editor tabs and the           *)
(* interactive terminal.                                                   *)
(***************************************************************************)
EXTENDS FrontEnds, FiniteSetTheorems, SequenceTheorems, TLAPS

\* The steps of the others do not touch what runs of functions share ...
LEMMA FunctionsBehave == Spec => F!Spec
<1>1. Init => F!Init
  BY DEF Init
<1>2. [Next]_vars => [F!Next]_(F!vars)
  BY DEF Next, vars, functions, F!vars
<1> QED
  BY <1>1, <1>2, PTL DEF Spec, F!Spec

\* ... nor the layers of the registry.
LEMMA RegistryBehaves == Spec => G!Spec
<1>1. Init => G!Init
  BY DEF Init
<1>2. [Next]_vars => [G!Next]_(G!vars)
  BY DEF Next, vars, registry, G!vars
<1> QED
  BY <1>1, <1>2, PTL DEF Spec, G!Spec
-----------------------------------------------------------------------------
(* The layers of the registry: what a session loads as official is what a  *)
(* pinned key signed, wherever promotions are killed and however they      *)
(* write into each other's files.                                          *)

LayerStates == {"absent", "cut", "mixed", "whole"}
LayerFiles == {"defs", "manifest", "drafts"}

\* What the proofs need of the variables' types.
LayerShape ==
    /\ file \in [LayerFiles -> [state : LayerStates, defs : SUBSET Defs]]
    /\ \A f \in LayerFiles : file[f].state = "absent" => file[f].defs = {}
    /\ pinned \in BOOLEAN /\ touched \in BOOLEAN
    /\ \A j \in Terminals : job[j].drafts \subseteq Defs /\ job[j].eligible \subseteq Defs
    /\ DOMAIN job = Terminals
    /\ sess \in [at : {"closed", "verify", "manifest", "official", "custom", "ready"},
                 pinned : BOOLEAN, defs : SUBSET Defs, official : SUBSET Defs,
                 custom : SUBSET Defs]

\* What a session has verified so far is what the files say, unless they were written since.
LayerVouched ==
    ~touched =>
      /\ sess.at = "manifest" => file["defs"] = G!Whole(sess.defs)
      /\ sess.at = "official" /\ file["defs"].defs # {} =>
           sess.pinned /\ file["manifest"] = G!Whole(file["defs"].defs)

LayerInv == LayerShape /\ LayerVouched

\* What is finite there, and how many it is.
LEMMA LayersCounted ==
  /\ \A S : G!Cardinality(S) = Cardinality(S)
  /\ \A S : G!IsFiniteSet(S) <=> IsFiniteSet(S)
<1>1. \A S : G!Cardinality(S) = Cardinality(S)
  BY DEF G!Cardinality, Cardinality
<1>2. \A S : G!IsFiniteSet(S) <=> IsFiniteSet(S)
  BY DEF G!IsFiniteSet, IsFiniteSet
<1> QED
  BY <1>1, <1>2

\* Definitions of which each has an id of its own, as counting them tells.
LEMMA OwnIds ==
  ASSUME IsFiniteSet(Defs), NEW ds \in SUBSET Defs, Cardinality(G!Ids(ds)) = Cardinality(ds),
         NEW d \in ds, NEW e \in ds, d.id = e.id
  PROVE  d = e
<1> DEFINE idOf == [x \in ds |-> x.id]
<1>1. IsFiniteSet(ds)
  BY FS_Subset
<1>2. idOf \in Surjection(ds, G!Ids(ds))
  BY DEF Surjection, G!Ids
<1>3. idOf \in Injection(ds, G!Ids(ds))
  BY <1>1, <1>2, FS_Surjection
<1> QED
  BY <1>3 DEF Injection, IsInjective

\* A layer that is verified has the signed definitions, no more and no less.
LEMMA VerifiedIsSigned ==
  ASSUME IsFiniteSet(Defs), NEW ds \in SUBSET Defs, NEW signed \in SUBSET Defs, NEW pins,
         G!Verified(ds, signed, pins)
  PROVE  signed = ds /\ (ds # {} => pins)
<1>1. ds \subseteq signed /\ (ds # {} => pins)
  BY DEF G!Verified, G!SignedAs
<1>2. ASSUME NEW s \in signed PROVE s \in ds
  <2>1. PICK d \in ds : d.id = s.id
    BY DEF G!Verified, G!Ids
  <2>2. d \in signed /\ Cardinality(G!Ids(signed)) = Cardinality(signed)
    BY <1>1, LayersCounted DEF G!Verified
  <2>3. d = s
    BY <2>1, <2>2, OwnIds
  <2> QED
    BY <2>3
<1> QED
  BY <1>1, <1>2

-----------------------------------------------------------------------------
LEMMA LayersBegin == G!Init => LayerInv
<1> SUFFICES ASSUME G!Init PROVE LayerInv
  OBVIOUS
<1>1. sess = [at |-> "closed", pinned |-> FALSE, defs |-> {}, official |-> {}, custom |-> {}]
  BY DEF G!Init, G!NewSession
<1>2. file = [f \in LayerFiles |-> [state |-> "absent", defs |-> {}]] /\ pinned \in BOOLEAN
      /\ touched = FALSE
      /\ job = [j \in Terminals |-> [at |-> "start", cut |-> FALSE, drafts |-> {},
                                      eligible |-> {}]]
  BY DEF G!Init, LayerFiles, G!Over
<1>3. file \in [LayerFiles -> [state : LayerStates, defs : SUBSET Defs]]
  BY <1>2 DEF LayerStates
<1>4. sess \in [at : {"closed", "verify", "manifest", "official", "custom", "ready"},
                pinned : BOOLEAN, defs : SUBSET Defs, official : SUBSET Defs,
                custom : SUBSET Defs]
  BY <1>1
<1>5. LayerShape
  BY <1>2, <1>3, <1>4 DEF LayerShape
<1>6. LayerVouched
  BY <1>1 DEF LayerVouched
<1> QED
  BY <1>5, <1>6 DEF LayerInv

\* Who edits or promotes leaves the session as it is, and says when it writes to the layer.
LEMMA LayerWritten ==
  ASSUME LayerInv, sess' = sess, pinned' \in BOOLEAN,
         touched' \in BOOLEAN, touched => touched',
         NEW f \in LayerFiles,
         \E c \in [state : LayerStates \ {"absent"}, defs : SUBSET Defs] :
            file' = [file EXCEPT ![f] = c],
         f \in G!Official => touched',
         DOMAIN job' = Terminals,
         \A j \in Terminals : job'[j].drafts \subseteq Defs /\ job'[j].eligible \subseteq Defs
  PROVE  LayerInv'
<1>1. PICK c \in [state : LayerStates \ {"absent"}, defs : SUBSET Defs] :
         file' = [file EXCEPT ![f] = c]
  OBVIOUS
<1>2. LayerShape'
  <2>1. file' \in [LayerFiles -> [state : LayerStates, defs : SUBSET Defs]]
    BY <1>1 DEF LayerInv, LayerShape
  <2>2. \A g \in LayerFiles : file'[g].state = "absent" => file'[g].defs = {}
    <3>1. c.state # "absent"
      OBVIOUS
    <3> QED
      BY <1>1, <3>1 DEF LayerInv, LayerShape
  <2> QED
    BY <2>1, <2>2 DEF LayerInv, LayerShape
<1>3. ~touched' => file'["defs"] = file["defs"] /\ file'["manifest"] = file["manifest"]
  BY <1>1 DEF LayerInv, LayerShape, G!Official, LayerFiles
<1>4. LayerVouched'
  BY <1>3 DEF LayerInv, LayerShape, LayerVouched
<1> QED
  BY <1>2, <1>4 DEF LayerInv

\* A step of a promotion that writes nothing.
LEMMA LayerUnwritten ==
  ASSUME LayerInv, UNCHANGED <<file, pinned, sess, touched>>, DOMAIN job' = Terminals,
         \A j \in Terminals : job'[j].drafts \subseteq Defs /\ job'[j].eligible \subseteq Defs
  PROVE  LayerInv'
BY DEF LayerInv, LayerShape, LayerVouched

\* The people: drafts are written, or the key is pinned.
LEMMA PeopleKeep ==
  ASSUME LayerInv, G!Learn \/ G!Edit \/ G!Pin
  PROVE  LayerInv'
<1>1. ASSUME NEW ds \in SUBSET Defs, G!Draft(ds) PROVE LayerInv'
  <2>1. PICK c \in {G!Cut, G!Whole(ds)} : file' = [file EXCEPT !["drafts"] = c]
    BY <1>1 DEF G!Draft
  <2>2. c \in [state : LayerStates \ {"absent"}, defs : SUBSET Defs]
    BY DEF G!Cut, G!Whole, LayerStates
  <2>3. UNCHANGED <<pinned, job, sess, touched>>
    BY <1>1 DEF G!Draft
  <2> QED
    BY <2>1, <2>2, <2>3, LayerWritten DEF LayerInv, LayerShape, G!Official, LayerFiles
<1>2. CASE G!Learn
  BY <1>1, <1>2 DEF G!Learn, G!Accepted
<1>3. CASE G!Edit
  BY <1>1, <1>3 DEF G!Edit
<1>4. CASE G!Pin
  BY <1>4 DEF G!Pin, LayerInv, LayerShape, LayerVouched
<1> QED
  BY <1>2, <1>3, <1>4

\* idel promote.
LEMMA PromotionsKeep ==
  ASSUME LayerInv, NEW j \in Terminals,
         \/ G!Reverify(j) \/ G!Unreadable(j) \/ G!Confirm(j)
         \/ G!CutFile(j) \/ G!FillFile(j) \/ G!Crash(j)
  PROVE  LayerInv'
<1>1. file \in [LayerFiles -> [state : LayerStates, defs : SUBSET Defs]] /\ DOMAIN job = Terminals
      /\ \A i \in Terminals : job[i].drafts \subseteq Defs /\ job[i].eligible \subseteq Defs
      /\ pinned \in BOOLEAN /\ touched \in BOOLEAN
  BY DEF LayerInv, LayerShape
<1>2. ASSUME NEW to, job' = [job EXCEPT ![j] = G!Over(to)]
      PROVE  DOMAIN job' = Terminals
             /\ \A i \in Terminals : job'[i].drafts \subseteq Defs /\ job'[i].eligible \subseteq Defs
  BY <1>1, <1>2 DEF G!Over
<1>3. CASE G!Reverify(j)
  <2>1. PICK es \in SUBSET {d \in file["drafts"].defs : d.ok} :
           job' = [job EXCEPT ![j] =
                     IF es = {} THEN G!Over("start")
                     ELSE [@ EXCEPT !.at = "confirm", !.drafts = file["drafts"].defs,
                                    !.eligible = es]]
    BY <1>3 DEF G!Reverify
  <2>2. file["drafts"].defs \subseteq Defs
    BY <1>1 DEF LayerFiles
  <2>3. DOMAIN job' = Terminals
        /\ \A i \in Terminals : job'[i].drafts \subseteq Defs /\ job'[i].eligible \subseteq Defs
    BY <1>1, <2>1, <2>2 DEF G!Over
  <2> QED
    BY <1>3, <2>3, LayerUnwritten DEF G!Reverify
<1>4. CASE G!Unreadable(j) \/ G!Crash(j)
  BY <1>2, <1>4, LayerUnwritten DEF G!Unreadable, G!Crash
<1>5. CASE G!Confirm(j)
  <2>1. CASE job' = [job EXCEPT ![j].at = "defs"]
    <3>1. DOMAIN job' = Terminals
          /\ \A i \in Terminals : job'[i].drafts \subseteq Defs /\ job'[i].eligible \subseteq Defs
      BY <1>1, <2>1
    <3> QED
      BY <1>5, <3>1, LayerUnwritten DEF G!Confirm
  <2>2. CASE job' = [job EXCEPT ![j] = G!Over("start")]
    BY <1>2, <1>5, <2>2, LayerUnwritten DEF G!Confirm
  <2> QED
    BY <1>5, <2>1, <2>2 DEF G!Confirm
<1>6. CASE G!CutFile(j)
  <2>1. job[j].at \in LayerFiles
    BY <1>1, <1>6 DEF G!CutFile
  <2>2. DOMAIN job' = Terminals
        /\ \A i \in Terminals : job'[i].drafts \subseteq Defs /\ job'[i].eligible \subseteq Defs
    BY <1>1, <1>6 DEF G!CutFile
  <2>3. G!Cut \in [state : LayerStates \ {"absent"}, defs : SUBSET Defs]
    BY DEF G!Cut, LayerStates
  <2>4. file' = [file EXCEPT ![job[j].at] = G!Cut] /\ touched' = (touched \/ job[j].at \in G!Official)
        /\ sess' = sess /\ pinned' = pinned
    BY <1>6 DEF G!CutFile
  <2> QED
    BY <1>1, <2>1, <2>2, <2>3, <2>4, LayerWritten
<1>7. CASE G!FillFile(j)
  <2>1. job[j].at \in LayerFiles
    BY <1>1, <1>7 DEF G!FillFile
  <2>2. DOMAIN job' = Terminals
        /\ \A i \in Terminals : job'[i].drafts \subseteq Defs /\ job'[i].eligible \subseteq Defs
    <3> DEFINE i == CHOOSE k \in DOMAIN G!Stages : G!Stages[k] = job[j].at
    <3>1. job' = [job EXCEPT ![j] = IF i = 3 THEN G!Over("start")
                                    ELSE [@ EXCEPT !.at = G!Stages[i + 1], !.cut = FALSE]]
      BY <1>7 DEF G!FillFile
    <3> HIDE DEF i
    <3> QED
      BY <1>1, <3>1 DEF G!Over
  <2>3. G!Content(j, job[j].at) \in SUBSET Defs
    BY <1>1 DEF G!Content
  <2>4. PICK c \in {G!Whole(G!Content(j, job[j].at)), G!Mixed} : file' = [file EXCEPT ![job[j].at] = c]
    BY <1>7 DEF G!FillFile, G!Filled
  <2>5. c \in [state : LayerStates \ {"absent"}, defs : SUBSET Defs]
    BY <2>3 DEF G!Whole, G!Mixed, LayerStates
  <2>6. touched' = (touched \/ job[j].at \in G!Official) /\ sess' = sess /\ pinned' = pinned
    BY <1>7 DEF G!FillFile
  <2> QED
    BY <1>1, <2>1, <2>2, <2>4, <2>5, <2>6, LayerWritten
<1> QED
  BY <1>3, <1>4, <1>5, <1>6, <1>7

\* A session: here what is verified becomes what is loaded.
LEMMA SessionsKeep ==
  ASSUME IsFiniteSet(Defs), LayerInv,
         G!Start \/ G!ReadDefs \/ G!ReadManifest \/ G!LoadOfficial \/ G!LoadCustom
  PROVE  LayerInv'
<1> USE DEF G!Elsewhere
<1>1. file["defs"] \in [state : LayerStates, defs : SUBSET Defs]
      /\ file["manifest"] \in [state : LayerStates, defs : SUBSET Defs]
      /\ file["drafts"] \in [state : LayerStates, defs : SUBSET Defs]
      /\ (file["defs"].state = "absent" => file["defs"].defs = {})
  BY DEF LayerInv, LayerShape, LayerFiles
<1>2. sess \in [at : {"closed", "verify", "manifest", "official", "custom", "ready"},
                pinned : BOOLEAN, defs : SUBSET Defs, official : SUBSET Defs,
                custom : SUBSET Defs] /\ pinned \in BOOLEAN
  BY DEF LayerInv, LayerShape
<1>3. CASE G!Start
  <2>1. sess' = [at |-> "verify", pinned |-> FALSE, defs |-> {}, official |-> {}, custom |-> {}]
    BY <1>3 DEF G!Start, G!NewSession
  <2> QED
    BY <1>3, <2>1 DEF G!Start, LayerInv, LayerShape, LayerVouched
<1>4. CASE G!ReadDefs
  <2>1. sess' = [sess EXCEPT !.at = CASE file["defs"].state = "whole" -> "manifest"
                                     [] file["defs"].state = "absent" -> "official"
                                     [] OTHER -> "custom",
                            !.pinned = pinned, !.defs = file["defs"].defs]
        /\ touched' = FALSE /\ UNCHANGED <<file, pinned, job>>
    BY <1>4 DEF G!ReadDefs
  <2>2. CASE file["defs"].state = "whole"
    <3>1. sess' = [sess EXCEPT !.at = "manifest", !.pinned = pinned, !.defs = file["defs"].defs]
      BY <2>1, <2>2
    <3>2. file["defs"] = G!Whole(file["defs"].defs)
      BY <1>1, <2>2 DEF G!Whole
    <3> QED
      BY <1>1, <1>2, <2>1, <3>1, <3>2 DEF LayerInv, LayerShape, LayerVouched
  <2>3. CASE file["defs"].state = "absent"
    <3>1. sess' = [sess EXCEPT !.at = "official", !.pinned = pinned, !.defs = file["defs"].defs]
      BY <2>1, <2>3
    <3> QED
      BY <1>1, <1>2, <2>1, <2>3, <3>1 DEF LayerInv, LayerShape, LayerVouched
  <2>4. CASE file["defs"].state \notin {"whole", "absent"}
    <3>1. sess' = [sess EXCEPT !.at = "custom", !.pinned = pinned, !.defs = file["defs"].defs]
      BY <2>1, <2>4
    <3> QED
      BY <1>1, <1>2, <2>1, <3>1 DEF LayerInv, LayerShape, LayerVouched
  <2> QED
    BY <2>2, <2>3, <2>4
<1>5. CASE G!ReadManifest
  <2>1. sess.at = "manifest" /\ UNCHANGED <<file, pinned, job, touched>>
    BY <1>5 DEF G!ReadManifest
  <2>2. CASE /\ file["manifest"].state = "whole"
             /\ G!Verified(sess.defs, file["manifest"].defs, sess.pinned)
    <3>1. sess' = [sess EXCEPT !.defs = {}, !.at = "official"]
      BY <1>5, <2>2 DEF G!ReadManifest
    <3>2. file["manifest"].defs = sess.defs /\ (sess.defs # {} => sess.pinned)
      BY <1>1, <1>2, <2>2, VerifiedIsSigned
    <3>3. file["manifest"] = G!Whole(sess.defs)
      BY <1>1, <2>2, <3>2 DEF G!Whole
    <3>4. ~touched => file["defs"].defs = sess.defs
      BY <2>1 DEF LayerInv, LayerVouched, G!Whole
    <3> QED
      BY <1>2, <2>1, <3>1, <3>2, <3>3, <3>4 DEF LayerInv, LayerShape, LayerVouched
  <2>3. CASE ~(/\ file["manifest"].state = "whole"
               /\ G!Verified(sess.defs, file["manifest"].defs, sess.pinned))
    <3>1. sess' = [sess EXCEPT !.defs = {}, !.at = "custom"]
      BY <1>5, <2>3 DEF G!ReadManifest
    <3> QED
      BY <1>2, <2>1, <3>1 DEF LayerInv, LayerShape, LayerVouched
  <2> QED
    BY <2>2, <2>3
<1>6. CASE G!LoadOfficial
  <2>1. sess' = [sess EXCEPT !.at = "custom",
                             !.official = IF G!Loadable("defs") THEN file["defs"].defs ELSE {}]
        /\ UNCHANGED <<file, pinned, job, touched>>
    BY <1>6 DEF G!LoadOfficial
  <2>2. (IF G!Loadable("defs") THEN file["defs"].defs ELSE {}) \in SUBSET Defs
    BY <1>1
  <2> QED
    BY <1>2, <2>1, <2>2 DEF LayerInv, LayerShape, LayerVouched
<1>7. CASE G!LoadCustom
  <2>1. sess' = [sess EXCEPT !.at = "ready",
                             !.custom = IF G!Loadable("drafts") THEN file["drafts"].defs ELSE @]
        /\ UNCHANGED <<file, pinned, job, touched>>
    BY <1>7 DEF G!LoadCustom
  <2>2. (IF G!Loadable("drafts") THEN file["drafts"].defs ELSE sess.custom) \in SUBSET Defs
    BY <1>1, <1>2
  <2> QED
    BY <1>2, <2>1, <2>2 DEF LayerInv, LayerShape, LayerVouched
<1> QED
  BY <1>3, <1>4, <1>5, <1>6, <1>7

-----------------------------------------------------------------------------
\* Only LoadOfficial takes definitions for official, and from what was verified.
LEMMA LayerLoaded ==
  ASSUME LayerInv, G!Next, sess'.official # sess.official, sess'.official # {}, ~touched
  PROVE  sess.pinned /\ file["manifest"] = G!Whole(sess'.official)
<1> DEFINE types == [at : {"closed", "verify", "manifest", "official", "custom", "ready"},
                     pinned : BOOLEAN, defs : SUBSET Defs, official : SUBSET Defs,
                     custom : SUBSET Defs]
<1>1. sess \in types
  BY DEF LayerInv, LayerShape
<1>2. sess' # sess
  OBVIOUS
<1>3. ~G!Start
  BY DEF G!Start, G!NewSession
<1>4. ~G!ReadDefs /\ ~G!ReadManifest /\ ~G!LoadCustom
  BY <1>1 DEF G!ReadDefs, G!ReadManifest, G!LoadCustom
<1>5. G!LoadOfficial
  BY <1>2, <1>3, <1>4 DEF G!Next, G!Learn, G!Edit, G!Draft, G!Pin, G!Reverify, G!Unreadable, G!Confirm, G!CutFile,
     G!FillFile, G!Crash
<1>6. sess.at = "official" /\ sess'.official = file["defs"].defs
  BY <1>1, <1>5 DEF G!LoadOfficial
<1> QED
  BY <1>6 DEF LayerInv, LayerVouched

\* What a session takes as official is, definition by definition, what a pinned key signed,
\* unless the layer was written between its verification and its loading
\* (verifyOfficialLayer, trustedOfficialDir, loadLayerFromDir).
LEMMA RegistryLoadsSigned ==
  ASSUME G!RegistryAssumption
  PROVE  G!Spec => G!LoadedIsSigned
<1>1. IsFiniteSet(Defs)
  BY LayersCounted DEF G!RegistryAssumption
<1>2. LayerInv /\ [G!Next]_(G!vars) => LayerInv'
  <2>1. CASE UNCHANGED G!vars
    BY <2>1 DEF G!vars, LayerInv, LayerShape, LayerVouched
  <2>2. ASSUME LayerInv, G!Next PROVE LayerInv'
    BY <1>1, <2>2, PeopleKeep, PromotionsKeep, SessionsKeep DEF G!Next
  <2> QED
    BY <2>1, <2>2
<1>3. LayerInv /\ [G!Next]_(G!vars) =>
        [sess'.official # sess.official /\ sess'.official # {} /\ ~touched
         => /\ sess.pinned
            /\ file["manifest"] = G!Whole(sess'.official)]_(G!vars)
  BY LayerLoaded
<1> QED
  BY <1>2, <1>3, LayersBegin, PTL DEF G!Spec, G!LoadedIsSigned

\* What a session takes as official is, definition by definition, what a pinned key signed,
\* unless the layer was written between its verification and its loading
\* (verifyOfficialLayer, trustedOfficialDir, loadLayerFromDir).
THEOREM SignedIsLoaded == Spec => LoadedIsSigned
<1>1. G!RegistryAssumption
  BY FrontEndsAssumption
<1>2. G!Spec => G!LoadedIsSigned
  BY <1>1, RegistryLoadsSigned
<1> QED
  BY <1>2, RegistryBehaves, PTL DEF LoadedIsSigned
-----------------------------------------------------------------------------
(* Runs of functions: a single-use request reaches its function once at    *)
(* most, and every row in the store comes from a run the evidence has as   *)
(* executed, however the runs interleave and wherever they are killed.     *)

RunPlaces == {"start", "store", "evidence", "nonces", "admit", "lock", "consume", "rename",
           "decline", "consumed", "replayed", "execute", "write", "fill", "done", "failed"}
RunHashes == Runs \X Nat \X {"refused", "event", "executed"}
RunWritten == [by : Runs, event : {"refused", "event", "executed"}, index : Nat,
            previous : RunHashes \cup {F!None}, hash : RunHashes]

\* What the proofs need of the variables' types.
RunsShape ==
    /\ pc \in [Runs -> RunPlaces] /\ lock \in BOOLEAN /\ began \in [Runs -> BOOLEAN]
    /\ DOMAIN mem = Runs /\ DOMAIN used = Runs
    /\ evidence \in Seq(RunWritten)
    /\ tail \in [Runs -> [index : Nat, previous : RunHashes \cup {F!None}]]

RunsInv == RunsShape /\ F!AdmissionInv /\ F!RowsInv

\* At first nothing has begun.
LEMMA RunsStart == F!Init => RunsInv
<1> SUFFICES ASSUME F!Init PROVE RunsInv
  OBVIOUS
<1>1. RunsShape
  <2>1. evidence \in Seq(RunWritten)
    BY DEF F!Init
  <2>2. tail \in [Runs -> [index : Nat, previous : RunHashes \cup {F!None}]]
    BY DEF F!Init
  <2> QED
    BY <2>1, <2>2 DEF F!Init, RunsShape, RunPlaces
<1>2. F!AdmissionInv
  BY DEF F!Init, F!AdmissionInv, F!Holding, F!Paid
<1>3. F!RowsInv
  BY DEF F!Init, F!RowsInv
<1> QED
  BY <1>1, <1>2, <1>3 DEF RunsInv

\* An event is added at the end, in its type, and what was executed still is; with it, a run
\* that records its execution is.
LEMMA RunRecorded ==
  ASSUME RunsShape, NEW p \in Runs, NEW event \in {"refused", "event", "executed"},
         F!Write(p, event)
  PROVE  /\ evidence' \in Seq(RunWritten)
         /\ tail' \in [Runs -> [index : Nat, previous : RunHashes \cup {F!None}]]
         /\ \A q : F!Executed(q) => F!Executed(q)'
         /\ event = "executed" => F!Executed(p)'
<1> DEFINE hash == <<p, tail[p].index, event>>
           new == [by |-> p, event |-> event, index |-> tail[p].index,
                   previous |-> tail[p].previous, hash |-> hash]
<1>1. tail[p] \in [index : Nat, previous : RunHashes \cup {F!None}]
  BY DEF RunsShape
<1>2. hash \in RunHashes
  BY <1>1 DEF RunHashes
<1>3. new \in RunWritten
  BY <1>1, <1>2 DEF RunWritten
<1>4. evidence' = Append(evidence, new)
      /\ tail' = [tail EXCEPT ![p] = [index |-> @.index + 1, previous |-> hash]]
  BY DEF F!Write
<1> HIDE DEF new, hash
<1>5. evidence \in Seq(RunWritten)
  BY DEF RunsShape
<1>6. evidence' \in Seq(RunWritten)
  BY <1>3, <1>4, <1>5
<1>7. tail' \in [Runs -> [index : Nat, previous : RunHashes \cup {F!None}]]
  BY <1>1, <1>2, <1>4 DEF RunsShape
<1>8. /\ Len(evidence') = Len(evidence) + 1 /\ evidence'[Len(evidence) + 1] = new
      /\ \A i \in DOMAIN evidence : i \in DOMAIN evidence' /\ evidence'[i] = evidence[i]
      /\ Len(evidence) + 1 \in DOMAIN evidence'
  BY <1>3, <1>4, <1>5
<1>9. \A q : F!Executed(q) => F!Executed(q)'
  BY <1>8 DEF F!Executed
<1>10. event = "executed" => F!Executed(p)'
  BY <1>8 DEF F!Executed, new
<1> QED
  BY <1>6, <1>7, <1>9, <1>10

-----------------------------------------------------------------------------
\* A step keeps the types.
LEMMA RunShapeKept ==
  ASSUME RunsInv, NEW p \in Runs, F!Run(p) \/ F!Crash(p)
  PROVE  RunsShape'
<1> USE DEF RunsShape, RunPlaces, F!Goto, F!files, F!own
<1>0. RunsShape
  BY DEF RunsInv
<1>1. CASE F!Load(p)
  BY <1>0, <1>1 DEF F!Load
<1>2. CASE F!ReadStore(p)
  BY <1>0, <1>2 DEF F!ReadStore
<1>3. CASE F!ReadEvidence(p)
  <2>1. F!End \in [index : Nat, previous : RunHashes \cup {F!None}]
    <3>1. CASE evidence = <<>>
      BY <3>1 DEF F!End
    <3>2. CASE evidence # <<>>
      <4>1. evidence[Len(evidence)] \in RunWritten
        BY <1>0, <3>2
      <4> QED
        BY <1>0, <3>2, <4>1 DEF F!End, RunWritten
    <3> QED
      BY <3>1, <3>2
  <2> QED
    BY <1>0, <1>3, <2>1 DEF F!ReadEvidence
<1>4. CASE F!ReadNonces(p)
  BY <1>0, <1>4 DEF F!ReadNonces
<1>5. ASSUME F!Refuse(p) PROVE RunsShape'
  BY <1>0, <1>5, RunRecorded DEF F!Refuse
<1>6. CASE F!Admit(p)
  BY <1>0, <1>5, <1>6 DEF F!Admit, F!Begin
<1>7. CASE F!Lock(p) \/ F!Reread(p) \/ F!Rename(p)
  BY <1>0, <1>7 DEF F!Lock, F!Reread, F!Rename
<1>8. CASE F!Unlock(p)
  BY <1>0, <1>8 DEF F!Unlock, F!Begin
<1>9. CASE F!Replayed(p) \/ F!Refused(p)
  BY <1>5, <1>9 DEF F!Replayed, F!Refused
<1>10. CASE F!Query(p) \/ F!Insert(p) \/ F!Guard(p) \/ F!Invoke(p) \/ F!Return(p)
  BY <1>0, <1>10 DEF F!Query, F!Insert, F!Guard, F!Invoke, F!Return, F!Advance
<1>11. CASE F!AppendEvidence(p)
  BY <1>0, <1>11, RunRecorded DEF F!AppendEvidence
<1>12. CASE F!Succeed(p)
  BY <1>0, <1>12, RunRecorded DEF F!Succeed
<1>13. CASE F!Truncate(p) \/ F!Fill(p) \/ F!Crash(p)
  BY <1>0, <1>13 DEF F!Truncate, F!Fill, F!Crash
<1> QED
  BY <1>1, <1>2, <1>3, <1>4, <1>6, <1>7, <1>8, <1>9, <1>10, <1>11, <1>12, <1>13 DEF F!Run

\* A step that neither begins the function nor touches nonces and lock, and leaves its run at a
\* place outside the lock, keeps the first half.
LEMMA RunAside ==
  ASSUME RunsShape, F!AdmissionInv, NEW p \in Runs, NEW where \in RunPlaces \ F!Holding,
         F!Goto(p, where), where = "lock" => req[p].single,
         UNCHANGED <<nonces, lock, req, began>>, \A q \in Runs \ {p} : used'[q] = used[q]
  PROVE  F!AdmissionInv'
BY DEF RunsShape, F!AdmissionInv, F!Goto, F!Paid, F!Holding, RunPlaces

\* A step keeps the order of admission.
LEMMA RunAdmissionKept ==
  ASSUME RunsInv, NEW p \in Runs, F!Run(p) \/ F!Crash(p)
  PROVE  F!AdmissionInv'
<1> USE DEF F!files, F!own
<1>0. RunsShape /\ F!AdmissionInv
  BY DEF RunsInv
<1>1. CASE F!Load(p)
  BY <1>0, <1>1, RunAside DEF F!Load, RunPlaces, F!Holding
<1>2. CASE F!ReadStore(p)
  BY <1>0, <1>2, RunAside DEF F!ReadStore, RunPlaces, F!Holding
<1>3. CASE F!ReadEvidence(p)
  BY <1>0, <1>3, RunAside DEF F!ReadEvidence, RunPlaces, F!Holding
<1>4. CASE F!ReadNonces(p)
  <2>1. \A q \in Runs \ {p} : used'[q] = used[q]
    BY <1>0, <1>4 DEF F!ReadNonces, RunsShape
  <2> QED
    BY <1>0, <1>4, <2>1, RunAside DEF F!ReadNonces, RunPlaces, F!Holding
<1>5. ASSUME F!Refuse(p) PROVE F!AdmissionInv'
  BY <1>0, <1>5, RunAside DEF F!Refuse, RunPlaces, F!Holding
<1>6. CASE F!Admit(p)
  <2>1. CASE F!Refuse(p)
    BY <1>5, <2>1
  <2>2. CASE req[p].single /\ F!Goto(p, "lock") /\ UNCHANGED <<frames, began>>
             /\ UNCHANGED <<F!files, req, rehearsal, mem, tail, used>>
    BY <1>0, <2>2, RunAside DEF RunPlaces, F!Holding
  <2>3. CASE ~req[p].single /\ F!Begin(p)
             /\ UNCHANGED <<F!files, req, rehearsal, mem, tail, used>>
    BY <1>0, <2>3 DEF F!Begin, F!Goto, RunsShape, F!AdmissionInv, F!Paid, F!Holding
  <2> QED
    BY <1>6, <2>1, <2>2, <2>3 DEF F!Admit
<1>7. CASE F!Lock(p)
  <2>1. CASE lock
    BY <1>0, <1>7, <2>1, RunAside DEF F!Lock, RunPlaces, F!Holding
  <2>2. CASE ~lock
    BY <1>0, <1>7, <2>2 DEF F!Lock, F!Goto, RunsShape, F!AdmissionInv, F!Paid, F!Holding
  <2> QED
    BY <2>1, <2>2
<1>8. CASE F!Reread(p)
  BY <1>0, <1>8 DEF F!Reread, F!Spent, F!Goto, RunsShape, F!AdmissionInv, F!Paid, F!Holding
<1>9. CASE F!Rename(p)
  <2>1. pc[p] = "rename" /\ nonces' = nonces \cup {req[p].nonce} /\ req[p].nonce \notin nonces
        /\ req' = req /\ lock' = lock /\ began' = began /\ used' = used
        /\ pc' = [pc EXCEPT ![p] = "consumed"]
    BY <1>0, <1>9 DEF F!Rename, F!Goto, F!AdmissionInv
  <2>2. \A q \in Runs : q # p => pc'[q] = pc[q] /\ pc[q] \notin F!Holding
    BY <1>0, <2>1 DEF RunsShape, F!AdmissionInv, F!Holding
  <2>3. \A q \in Runs : q # p => F!Paid(q)' = F!Paid(q)
    BY <2>1, <2>2 DEF F!Paid
  <2>4. pc'[p] = "consumed"
    BY <1>0, <2>1 DEF RunsShape
  <2> QED
    BY <1>0, <2>1, <2>2, <2>3, <2>4 DEF F!AdmissionInv, F!Holding, F!Paid
<1>10. CASE F!Unlock(p)
  <2>1. \A q \in Runs : q # p => pc[q] \notin F!Holding
    BY <1>0, <1>10 DEF F!Unlock, F!AdmissionInv, F!Holding
  <2>2. CASE pc[p] = "consumed"
    <3>1. pc' = [pc EXCEPT ![p] = "execute"] /\ began' = [began EXCEPT ![p] = TRUE]
          /\ nonces' = nonces /\ req' = req /\ used' = used
      BY <1>10, <2>2 DEF F!Unlock, F!Begin, F!Goto
    <3>2. \A q \in Runs : pc'[q] \notin F!Holding
      BY <1>0, <2>1, <3>1 DEF RunsShape, F!Holding
    <3>3. \A q \in Runs : F!Paid(q)' = F!Paid(q)
      BY <1>0, <2>2, <3>1 DEF RunsShape, F!Paid
    <3>4. \A q \in Runs : pc'[q] = "lock" => pc[q] = "lock"
      BY <1>0, <3>1 DEF RunsShape
    <3> QED
      BY <1>0, <3>1, <3>2, <3>3, <3>4 DEF F!AdmissionInv, F!Holding
  <2>3. CASE pc[p] = "decline"
    BY <1>0, <1>10, <2>1, <2>3 DEF F!Unlock, F!Goto, RunsShape, F!AdmissionInv, F!Paid, F!Holding
  <2> QED
    BY <1>10, <2>2, <2>3 DEF F!Unlock
<1>11. CASE F!Replayed(p) \/ F!Refused(p)
  BY <1>5, <1>11 DEF F!Replayed, F!Refused
<1>12. CASE F!Query(p) \/ F!Insert(p) \/ F!Guard(p) \/ F!AppendEvidence(p) \/ F!Return(p)
  BY <1>0, <1>12 DEF F!Query, F!Insert, F!Guard, F!AppendEvidence, F!Return, F!Write,
     F!AdmissionInv, F!Paid
<1>13. CASE F!Invoke(p)
  <2>1. CASE UNCHANGED <<pc, F!files, req, rehearsal, mem, tail, used, began>>
    BY <1>0, <2>1 DEF F!AdmissionInv, F!Paid
  <2>2. CASE F!Goto(p, "failed") /\ UNCHANGED <<F!files, req, rehearsal, mem, tail, used, began>>
    BY <1>0, <2>2, RunAside DEF RunPlaces, F!Holding
  <2> QED
    BY <1>13, <2>1, <2>2 DEF F!Invoke
<1>14. CASE F!Succeed(p)
  BY <1>0, <1>14, RunAside DEF F!Succeed, F!Write, RunPlaces, F!Holding
<1>15. CASE F!Truncate(p) \/ F!Fill(p) \/ F!Crash(p)
  BY <1>0, <1>15, RunAside DEF F!Truncate, F!Fill, F!Crash, RunPlaces, F!Holding
<1> QED
  BY <1>1, <1>2, <1>3, <1>4, <1>6, <1>7, <1>8, <1>9, <1>10, <1>11, <1>12, <1>13, <1>14, <1>15
  DEF F!Run

-----------------------------------------------------------------------------
\* A step that leaves the copies of the others and the store, or takes the store from a run
\* that writes, and whose run is not about to write, keeps the second half.
LEMMA RunRowsAside ==
  ASSUME RunsShape, F!RowsInv, NEW p \in Runs,
         \A q \in Runs \ {p} : pc'[q] = pc[q] /\ mem'[q] = mem[q],
         \A q : F!Executed(q) => F!Executed(q)',
         pc'[p] \in {"write", "fill"} => F!Executed(p)',
         \A r \in store'.rows : F!Executed(r.by)',
         \A r \in mem'[p] : r.by = p \/ F!Executed(r.by)'
  PROVE  F!RowsInv'
BY DEF F!RowsInv

\* A step keeps the origin of the rows.
LEMMA RunRowsKept ==
  ASSUME RunsInv, NEW p \in Runs, F!Run(p) \/ F!Crash(p)
  PROVE  F!RowsInv'
<1> USE DEF F!files, F!own
<1>0. RunsShape /\ F!RowsInv
  BY DEF RunsInv
<1>1. ASSUME UNCHANGED <<store, evidence, mem>>,
             \/ UNCHANGED pc
             \/ \E where \in RunPlaces \ {"write", "fill"} : F!Goto(p, where)
      PROVE  F!RowsInv'
  BY <1>0, <1>1 DEF F!RowsInv, F!Executed, F!Goto, RunsShape
<1>2. ASSUME F!Refuse(p) PROVE F!RowsInv'
  <2>1. \A q : F!Executed(q) => F!Executed(q)'
    BY <1>0, <1>2, RunRecorded DEF F!Refuse
  <2>2. store' = store /\ mem' = mem /\ pc' = [pc EXCEPT ![p] = "done"]
    BY <1>2 DEF F!Refuse, F!Goto
  <2> QED
    BY <1>0, <2>1, <2>2 DEF F!RowsInv, RunsShape
<1>3. CASE F!ReadStore(p)
  <2>1. pc' = [pc EXCEPT ![p] = "evidence"] /\ store' = store /\ evidence' = evidence
        /\ mem' = [mem EXCEPT ![p] = IF store.state = "whole" THEN store.rows ELSE {}]
    BY <1>3 DEF F!ReadStore, F!Goto
  <2>2. \A q : F!Executed(q) => F!Executed(q)'
    BY <2>1 DEF F!Executed
  <2>3. \A r \in mem'[p] : F!Executed(r.by)
    BY <1>0, <2>1 DEF F!RowsInv, RunsShape
  <2> QED
    BY <1>0, <2>1, <2>2, <2>3 DEF F!RowsInv, RunsShape
<1>4. CASE F!Load(p) \/ F!ReadEvidence(p) \/ F!ReadNonces(p)
  BY <1>1, <1>4 DEF F!Load, F!ReadEvidence, F!ReadNonces, RunPlaces
<1>5. CASE F!Admit(p)
  BY <1>1, <1>2, <1>5 DEF F!Admit, F!Begin, RunPlaces
<1>6. CASE F!Lock(p) \/ F!Reread(p) \/ F!Rename(p)
  BY <1>1, <1>6 DEF F!Lock, F!Reread, F!Rename, RunPlaces
<1>7. CASE F!Unlock(p)
  BY <1>1, <1>7 DEF F!Unlock, F!Begin, RunPlaces
<1>8. CASE F!Replayed(p) \/ F!Refused(p)
  BY <1>2, <1>8 DEF F!Replayed, F!Refused
<1>9. CASE F!Query(p) \/ F!Guard(p) \/ F!Return(p) \/ F!Invoke(p)
  BY <1>1, <1>9 DEF F!Query, F!Guard, F!Return, F!Invoke, RunPlaces
<1>10. CASE F!Insert(p)
  <2>1. pc' = pc /\ store' = store /\ evidence' = evidence
        /\ mem' = [mem EXCEPT ![p] = @ \cup {[entity |-> F!Step(p)[2], key |-> req[p].key,
                                              by |-> p]}]
    BY <1>10 DEF F!Insert
  <2>2. \A q : F!Executed(q) => F!Executed(q)'
    BY <2>1 DEF F!Executed
  <2>3. \A r \in mem'[p] : r \in mem[p] \/ r.by = p
    BY <1>0, <2>1 DEF RunsShape
  <2> QED
    BY <1>0, <2>1, <2>2, <2>3 DEF F!RowsInv, RunsShape
<1>11. CASE F!AppendEvidence(p)
  <2>1. \A q : F!Executed(q) => F!Executed(q)'
    BY <1>0, <1>11, RunRecorded DEF F!AppendEvidence
  <2> QED
    BY <1>0, <1>11, <2>1 DEF F!AppendEvidence, F!RowsInv
<1>12. CASE F!Succeed(p)
  <2>1. (\A q : F!Executed(q) => F!Executed(q)') /\ F!Executed(p)'
    BY <1>0, <1>12, RunRecorded DEF F!Succeed
  <2>2. store' = store /\ mem' = mem /\ pc' = [pc EXCEPT ![p] = "write"]
    BY <1>12 DEF F!Succeed, F!Goto
  <2> QED
    BY <1>0, <2>1, <2>2 DEF F!RowsInv, RunsShape
<1>13. CASE F!Truncate(p) \/ F!Fill(p)
  <2>1. pc[p] \in {"write", "fill"} /\ evidence' = evidence /\ mem' = mem
        /\ pc' \in {[pc EXCEPT ![p] = "fill"], [pc EXCEPT ![p] = "done"]}
        /\ store'.rows \in {{}, mem[p]}
    BY <1>13 DEF F!Truncate, F!Fill, F!Goto
  <2>2. \A q : F!Executed(q) => F!Executed(q)'
    BY <2>1 DEF F!Executed
  <2> QED
    BY <1>0, <2>1, <2>2 DEF F!RowsInv, RunsShape
<1>14. CASE F!Crash(p)
  BY <1>1, <1>14 DEF F!Crash, RunPlaces
<1> QED
  BY <1>3, <1>4, <1>5, <1>6, <1>7, <1>8, <1>9, <1>10, <1>11, <1>12, <1>13, <1>14 DEF F!Run

-----------------------------------------------------------------------------
\* So the runs keep both at every step.
LEMMA RunsInductive == F!Spec => []RunsInv
<1>1. RunsInv /\ [F!Next]_(F!vars) => RunsInv'
  <2>1. CASE UNCHANGED F!vars
    BY <2>1 DEF F!vars, RunsInv, RunsShape, F!AdmissionInv, F!RowsInv, F!Paid, F!Executed
  <2>2. ASSUME RunsInv, F!Next PROVE RunsInv'
    BY <2>2, RunShapeKept, RunAdmissionKept, RunRowsKept DEF F!Next, RunsInv
  <2> QED
    BY <2>1, <2>2
<1> QED
  BY <1>1, RunsStart, PTL DEF F!Spec

\* However many runs of a single-use request there are, at once or one after the other, killed
\* and retried, at most one gets to its function (FileNonceStore.consume, runRequest).
THEOREM OnceAdmitted == Spec => []OncePerNonce
<1>1. RunsInv => OncePerNonce
  BY DEF RunsInv, F!AdmissionInv, F!Paid, F!OncePerNonce, OncePerNonce
<1> QED
  BY <1>1, FunctionsBehave, RunsInductive, PTL

\* Every row the store has, or is about to get, comes from a run the evidence has as executed
\* (runFunction, runRequest).
THEOREM RowsAudited == Spec => []StoredIsAudited
<1>1. RunsInv => StoredIsAudited
  BY DEF RunsInv, F!RowsInv, F!StoredIsAudited, F!Executed, StoredIsAudited
<1> QED
  BY <1>1, FunctionsBehave, RunsInductive, PTL

-----------------------------------------------------------------------------
(* The command line of the web terminal.                                   *)

\* Nor do they touch what the web terminal shows.
LEMMA ConsoleBehaves == Spec => C!Spec
<1>1. Init => C!Init
  BY DEF Init
<1>2. [Next]_vars => [C!Next]_(C!vars)
  BY DEF Next, vars, console, C!vars, C!line, C!work, C!asking
<1> QED
  BY <1>1, <1>2, PTL DEF Spec, C!Spec

\* The line that was edited last is this command.
Edits(c) == edited \in DOMAIN entered /\ c = entered[edited]

\* A preview that was asked for since the text last changed is of the line that was edited.
RiskInv ==
    /\ seq \in Nat
    /\ risk # "none" => wiped \/ Edits(risk)
    /\ \A c \in timer \cup asked : c.what = "risk" =>
          /\ c.seq \in Nat /\ c.seq <= seq
          /\ c.seq = seq => wiped \/ Edits(c.text)

\* Another text in the input, edited on a line t, or none: what was asked for before is older.
LEMMA TypedRisk ==
  ASSUME RiskInv, NEW t, t # "none" => Edits(t)',
         NEW others, \A c \in others : c.what # "risk",
         C!Schedule(t, others), asked' = asked
  PROVE  RiskInv'
<1> DEFINE new == C!Timer("risk", t, seq + 1)
<1>1. new.seq = seq + 1 /\ new.text = t
  BY DEF C!Timer
<1>2. /\ seq' = seq + 1 /\ (risk' # "none" => risk' = t)
      /\ timer' \subseteq others \cup {new} /\ (t = "none" => timer' = others)
  BY DEF C!Schedule
<1>3. ASSUME NEW c \in timer' \cup asked', c.what = "risk"
      PROVE  c.seq \in Nat /\ c.seq <= seq + 1 /\ (c.seq = seq + 1 => Edits(c.text)')
  <2>1. CASE c \in asked
    <3>1. seq \in Nat /\ c.seq \in Nat /\ c.seq <= seq
      BY <1>3, <2>1 DEF RiskInv
    <3>2. QED
      BY <3>1
  <2>2. CASE c \notin asked
    <3>1. c = new /\ t # "none"
      BY <1>2, <1>3, <2>2
    <3>2. QED
      BY <1>1, <3>1 DEF RiskInv
  <2>3. QED
    BY <2>1, <2>2
<1>4. seq' \in Nat /\ (risk' # "none" => Edits(risk)')
  BY <1>2 DEF RiskInv, Edits
<1>5. QED
  BY <1>2, <1>3, <1>4 DEF RiskInv, Edits

\* Typing, taking a suggestion and submitting.
LEMMA TypingRisk ==
  ASSUME RiskInv, C!Submit \/ \E e \in Entries : \E i \in DOMAIN e : C!TypeText(e, i)
  PROVE  RiskInv'
<1>1. \A c \in C!Completions : c.what # "risk"
  BY DEF C!Completions
<1>2. CASE C!Submit
  <2>1. C!Schedule("none", C!Completions) /\ asked' = asked
    BY <1>2 DEF C!Submit
  <2>2. QED
    BY <1>1, <2>1, TypedRisk
<1>3. ASSUME NEW e \in Entries, NEW i \in DOMAIN e, C!TypeText(e, i) PROVE RiskInv'
  <2>1. PICK other : other = C!Timer("complete", e[i], 0)
    OBVIOUS
  <2>2. entered' = e /\ edited' = i /\ asked' = asked
    BY <1>3 DEF C!TypeText
  <2>3. PICK t : t = e[i]
    OBVIOUS
  <2>4. Edits(t)'
    BY <2>2, <2>3 DEF Edits
  <2>5. CASE C!Schedule(e[i], {C!Timer("complete", e[i], 0)})
    <3>1. C!Schedule(t, {other}) /\ \A c \in {other} : c.what # "risk"
      BY <2>1, <2>3, <2>5 DEF C!Timer
    <3>2. QED
      BY <2>2, <2>4, <3>1, TypedRisk
  <2>6. CASE C!Schedule(e[i], C!Completions)
    BY <1>1, <2>2, <2>3, <2>4, <2>6, TypedRisk
  <2>7. QED
    BY <1>3, <2>5, <2>6 DEF C!TypeText
<1>4. QED
  BY <1>2, <1>3

\* The timers run out and the previews are answered, in any order.
LEMMA ShowingRisk ==
  ASSUME RiskInv,
         \/ C!ClearInput
         \/ \E c \in timer : C!Fires(c)
         \/ \E c \in asked : C!Shown(c)
  PROVE  RiskInv'
<1>1. CASE C!ClearInput
  BY <1>1 DEF C!ClearInput, RiskInv
<1>2. CASE \E c \in timer : C!Fires(c)
  <2>1. /\ UNCHANGED <<entered, edited, seq, risk, wiped>>
        /\ timer' \cup asked' \subseteq timer \cup asked
    BY <1>2 DEF C!Fires
  <2>2. QED
    BY <2>1 DEF RiskInv, Edits
<1>3. ASSUME NEW c \in asked, C!Shown(c) PROVE RiskInv'
  <2>1. /\ UNCHANGED <<entered, edited, seq, timer, wiped>> /\ asked' \subseteq asked
        /\ \/ risk' = risk
           \/ c.what = "risk" /\ c.seq = seq /\ risk' \in {c.text, "none"}
    BY <1>3 DEF C!Shown, C!Fresh
  <2>2. risk' # "none" => wiped \/ Edits(risk)'
    BY <2>1 DEF RiskInv, Edits
  <2>3. QED
    BY <2>1, <2>2 DEF RiskInv, Edits
<1>4. QED
  BY <1>1, <1>2, <1>3

\* Commands, batches, workflows and approvals leave the input line alone.
LEMMA RiskStep == ASSUME RiskInv, [C!Next]_(C!vars) PROVE RiskInv'
<1>1. ASSUME UNCHANGED C!line PROVE RiskInv'
  BY <1>1 DEF C!line, RiskInv, Edits
<1>2. ASSUME NEW e \in Entries, C!RunWorkflow(e) PROVE RiskInv'
  BY <1>1, <1>2 DEF C!RunWorkflow
<1>3. ASSUME NEW j \in C!Jobs, C!RunLocal(j) \/ C!RunStreamed(j) \/ C!AgentAsks(j) \/ C!AskEnds(j)
      PROVE  RiskInv'
  BY <1>1, <1>3 DEF C!RunLocal, C!RunStreamed, C!AgentAsks, C!AskEnds
<1>4. ASSUME NEW i \in C!Ids, C!GiveUp(i) \/ \E yes \in BOOLEAN : C!Click(i, yes)
      PROVE  RiskInv'
  BY <1>1, <1>4 DEF C!GiveUp, C!Click
<1>5. ASSUME NEW p \in posts, C!Serve(p) \/ C!Lose(p) \/ C!Reply(p) PROVE RiskInv'
  BY <1>1, <1>5 DEF C!Serve, C!Lose, C!Reply
<1>6. CASE UNCHANGED C!vars
  BY <1>1, <1>6 DEF C!vars
<1>7. QED
  BY <1>2, <1>3, <1>4, <1>5, <1>6, TypingRisk, ShowingRisk DEF C!Next

\* However late and in whatever order previews are answered, the risk shown is that of the
\* line of the input that was edited last, but for an empty input after ^C
\* (scheduleRiskPreview, currentInputSegment, previewCommandRisk).
THEOREM RiskIsCurrent == Spec => []RiskShownIsCurrent
<1>1. C!Init => RiskInv
  BY DEF C!Init, RiskInv
<1>2. RiskInv /\ [C!Next]_(C!vars) => RiskInv'
  BY RiskStep
<1>3. RiskInv => RiskShownIsCurrent
  BY DEF RiskInv, Edits, RiskShownIsCurrent, C!RiskShownIsCurrent
<1> QED
  BY <1>1, <1>2, <1>3, ConsoleBehaves, PTL DEF C!Spec

\* The answers under way.
Answers == [id : C!Ids, yes : BOOLEAN, by : {"card", "auto"},
            reply : {"none", "ok", "missing", "lost"}]

Says(yes) == IF yes THEN "yes" ELSE "no"

\* What an approval is, with the answers a click and a rule have had sent.
ApprovalOk(i) ==
    /\ {"server", "card", "auto"} \subseteq DOMAIN appr[i]
    /\ clicked[i] \in {"none", "yes", "no"}
    /\ i > raised => appr[i] = C!NoApproval
    /\ appr[i].card \in {"none", "shown"} => clicked[i] = "none"
    /\ appr[i].card = "told" => appr[i].server = clicked[i]
    /\ appr[i].server = "yes" => appr[i].auto \/ clicked[i] = "yes"

\* An answer is what was clicked, on a card that asks no more; or a rule's, of an approval
\* that has no card yet; and if the server took it, the approval is settled that way.
AnswerOk(p) ==
    /\ p.id <= raised
    /\ p.by = "card" => appr[p.id].card \notin {"none", "shown"} /\ clicked[p.id] = Says(p.yes)
    /\ p.by = "auto" => p.yes /\ appr[p.id].auto /\ appr[p.id].card = "none"
    /\ p.reply = "ok" => appr[p.id].server = Says(p.yes)

\* Each approval has one click, one answer of a rule, and they do not cross.
ApprovalInv ==
    /\ raised \in Nat
    /\ DOMAIN appr = C!Ids /\ DOMAIN clicked = C!Ids
    /\ \A i \in C!Ids : ApprovalOk(i)
    /\ posts \subseteq Answers
    /\ \A p \in posts : AnswerOk(p)
    /\ \A p, q \in posts : p.id = q.id /\ p.by = "auto" => p = q

\* An approval is asked for: nothing is known of it yet.
LEMMA RaiseApproval ==
  ASSUME ApprovalInv, NEW kind, NEW c, NEW low, NEW card \in {"none", "shown"}, NEW byRule,
         C!Raise(kind, c, low, card, byRule), clicked' = clicked,
         \/ posts' = posts
         \/ posts' = C!Post(raised + 1, TRUE, "auto") /\ card = "none" /\ byRule = TRUE
  PROVE  ApprovalInv'
<1> USE FrontEndsAssumption DEF FrontEndsAssumption, C!ConsoleAssumption, C!Ids
<1> DEFINE n == raised + 1
<1>1. /\ raised \in Nat /\ n \in Nat /\ raised' = n /\ n \in C!Ids /\ n > raised
  BY DEF C!Raise, ApprovalInv
<1>2. /\ DOMAIN appr' = C!Ids
      /\ \A i \in C!Ids : i # n => appr'[i] = appr[i]
      /\ appr'[n] = [kind |-> kind, command |-> c, low |-> low, server |-> "open",
                     card |-> card, auto |-> byRule]
  BY <1>1 DEF C!Raise, ApprovalInv
<1>3. clicked[n] = "none" /\ appr[n] = C!NoApproval
  <2>1. ApprovalOk(n) /\ n > raised
    BY <1>1 DEF ApprovalInv
  <2>2. appr[n] = C!NoApproval
    BY <2>1 DEF ApprovalOk
  <2>3. appr[n].card = "none"
    BY <2>2 DEF C!NoApproval
  <2>4. QED
    BY <2>1, <2>2, <2>3 DEF ApprovalOk
<1>4. ASSUME NEW i \in C!Ids PROVE ApprovalOk(i)'
  <2>1. CASE i = n
    BY <1>1, <1>2, <1>3, <2>1 DEF ApprovalOk
  <2>2. CASE i # n
    <3>1. appr'[i] = appr[i] /\ ApprovalOk(i)
      BY <1>2, <2>2 DEF ApprovalInv
    <3>2. i > n => i > raised
      BY <1>1
    <3>3. QED
      BY <1>1, <3>1, <3>2 DEF ApprovalOk
  <2>3. QED
    BY <2>1, <2>2
<1>5. ASSUME NEW p \in posts PROVE AnswerOk(p)'
  <2>1. AnswerOk(p) /\ p.id \in C!Ids
    BY DEF ApprovalInv, Answers
  <2>2. p.id <= raised /\ p.id # n /\ p.id <= n
    BY <1>1, <2>1 DEF AnswerOk
  <2>3. appr'[p.id] = appr[p.id]
    BY <1>2, <2>1, <2>2
  <2>4. QED
    BY <1>1, <2>1, <2>2, <2>3 DEF AnswerOk
<1>6. CASE posts' = posts
  BY <1>1, <1>2, <1>4, <1>5, <1>6 DEF ApprovalInv
<1>7. CASE posts' = C!Post(raised + 1, TRUE, "auto") /\ card = "none" /\ byRule = TRUE
  <2>1. PICK a : a = [id |-> n, yes |-> TRUE, by |-> "auto", reply |-> "none"]
    OBVIOUS
  <2>2. posts' = posts \cup {a}
    BY <1>7, <2>1 DEF C!Post
  <2>3. a \in Answers /\ a.id = n
    BY <1>1, <2>1 DEF Answers
  <2>4. AnswerOk(a)'
    BY <1>1, <1>2, <1>7, <2>1 DEF AnswerOk
  <2>5. \A p \in posts : p.id # n
    <3>1. \A p \in posts : p.id <= raised /\ p.id \in C!Ids
      BY DEF ApprovalInv, AnswerOk, Answers
    <3>2. QED
      BY <1>1, <3>1
  <2>6. \A p, q \in posts' : p.id = q.id /\ p.by = "auto" => p = q
    BY <2>2, <2>3, <2>5 DEF ApprovalInv
  <2>7. posts' \subseteq Answers /\ \A p \in posts' : AnswerOk(p)'
    BY <1>5, <2>2, <2>3, <2>4 DEF ApprovalInv
  <2>8. QED
    BY <1>1, <1>2, <1>4, <2>6, <2>7 DEF ApprovalInv
<1>8. QED
  BY <1>6, <1>7

\* A click: the card asks no more, and its answer is the only one under way.
LEMMA ClickApproval ==
  ASSUME ApprovalInv, NEW i \in C!Ids, NEW yes \in BOOLEAN, C!Click(i, yes)
  PROVE  ApprovalInv'
<1>1. /\ appr[i].card = "shown" /\ raised' = raised
      /\ appr' = [appr EXCEPT ![i].card = Says(yes)]
      /\ clicked' = [clicked EXCEPT ![i] = Says(yes)]
  BY DEF C!Click, Says
<1>2. PICK a : a = [id |-> i, yes |-> yes, by |-> "card", reply |-> "none"]
  OBVIOUS
<1>3. posts' = posts \cup {a}
  BY <1>2 DEF C!Click, C!Post
<1>4. /\ DOMAIN appr' = C!Ids /\ DOMAIN clicked' = C!Ids
      /\ \A k \in C!Ids : k # i => appr'[k] = appr[k] /\ clicked'[k] = clicked[k]
      /\ DOMAIN appr'[i] = DOMAIN appr[i]
      /\ appr'[i].card = Says(yes) /\ clicked'[i] = Says(yes)
      /\ appr'[i].server = appr[i].server /\ appr'[i].auto = appr[i].auto
  BY <1>1 DEF ApprovalInv, ApprovalOk
<1>5. i <= raised /\ ApprovalOk(i)
  BY <1>1 DEF ApprovalInv, ApprovalOk, C!NoApproval, C!Ids
<1>6. ASSUME NEW k \in C!Ids PROVE ApprovalOk(k)'
  <2>1. CASE k = i
    <3>1. ~(i > raised) /\ clicked[i] = "none"
      BY <1>1, <1>5 DEF ApprovalInv, ApprovalOk, C!Ids
    <3>2. Says(yes) \in {"yes", "no"}
      BY DEF Says
    <3>3. QED
      BY <1>1, <1>4, <1>5, <2>1, <3>1, <3>2 DEF ApprovalOk
  <2>2. CASE k # i
    BY <1>1, <1>4, <2>2 DEF ApprovalInv, ApprovalOk
  <2>3. QED
    BY <2>1, <2>2
<1>7. ASSUME NEW p \in posts PROVE AnswerOk(p)' /\ p.id # i
  <2>1. AnswerOk(p) /\ p.id \in C!Ids /\ p.by \in {"card", "auto"}
    BY DEF ApprovalInv, Answers
  <2>2. p.id # i
    BY <1>1, <2>1 DEF AnswerOk
  <2>3. QED
    BY <1>1, <1>4, <2>1, <2>2 DEF AnswerOk
<1>8. AnswerOk(a)' /\ a \in Answers /\ a.id = i
  <2>1. Says(yes) \notin {"none", "shown"}
    BY DEF Says
  <2>2. QED
    BY <1>1, <1>2, <1>4, <1>5, <2>1 DEF AnswerOk, Answers
<1>9. posts' \subseteq Answers /\ \A p \in posts' : AnswerOk(p)'
  BY <1>3, <1>7, <1>8 DEF ApprovalInv
<1>10. \A p, q \in posts' : p.id = q.id /\ p.by = "auto" => p = q
  BY <1>3, <1>7, <1>8 DEF ApprovalInv
<1>11. QED
  BY <1>1, <1>4, <1>6, <1>9, <1>10 DEF ApprovalInv

\* The server takes the first answer; what it took is what the answer said.
LEMMA ServeApproval ==
  ASSUME ApprovalInv, NEW p \in posts, C!Serve(p)
  PROVE  ApprovalInv'
<1>1. p \in Answers /\ AnswerOk(p) /\ p.id \in C!Ids /\ ApprovalOk(p.id) /\ p.reply = "none"
  BY DEF C!Serve, ApprovalInv, Answers
<1>2. raised' = raised /\ clicked' = clicked
  BY DEF C!Serve
<1>3. PICK r \in {"ok", "missing"} :
         /\ posts' = (posts \ {p}) \cup {[p EXCEPT !.reply = r]}
         /\ \/ r = "missing" /\ appr' = appr
            \/ /\ r = "ok" /\ appr[p.id].server = "open"
               /\ appr' = [appr EXCEPT ![p.id].server = Says(p.yes)]
  BY DEF C!Serve, Says
<1>4. PICK a : a = [p EXCEPT !.reply = r]
  OBVIOUS
<1>5. a \in Answers /\ a.id = p.id /\ a.by = p.by /\ a.yes = p.yes /\ a.reply = r
  BY <1>1, <1>3, <1>4 DEF Answers
<1>6. posts' = (posts \ {p}) \cup {a}
  BY <1>3, <1>4
<1>7. /\ DOMAIN appr' = C!Ids
      /\ \A k \in C!Ids : k # p.id => appr'[k] = appr[k]
      /\ DOMAIN appr'[p.id] = DOMAIN appr[p.id]
      /\ appr'[p.id].card = appr[p.id].card /\ appr'[p.id].auto = appr[p.id].auto
      /\ \/ r = "missing" /\ appr'[p.id] = appr[p.id]
         \/ r = "ok" /\ appr[p.id].server = "open" /\ appr'[p.id].server = Says(p.yes)
  BY <1>1, <1>3 DEF ApprovalInv, ApprovalOk
<1>8. p.id <= raised /\ ~(p.id > raised)
  BY <1>1 DEF AnswerOk, ApprovalInv, C!Ids
<1>9. ASSUME NEW k \in C!Ids PROVE ApprovalOk(k)'
  <2>1. CASE k = p.id
    <3>1. CASE r = "missing"
      BY <1>1, <1>2, <1>7, <2>1, <3>1 DEF ApprovalOk
    <3>2. CASE r = "ok"
      <4>1. Says(p.yes) = "yes" => appr[p.id].auto \/ clicked[p.id] = "yes"
        BY <1>1 DEF AnswerOk, Answers, Says
      <4>2. appr[p.id].card # "told"
        <5>1. appr[p.id].card = "told" => clicked[p.id] = "open"
          BY <1>1, <1>7, <3>2 DEF ApprovalOk
        <5>2. p.by = "card" => clicked[p.id] \in {"yes", "no"}
          BY <1>1 DEF AnswerOk, Says
        <5>3. p.by = "auto" => appr[p.id].card = "none"
          BY <1>1 DEF AnswerOk
        <5>4. p.by \in {"card", "auto"}
          BY <1>1 DEF Answers
        <5>5. QED
          BY <5>1, <5>2, <5>3, <5>4
      <4>3. QED
        BY <1>1, <1>2, <1>7, <1>8, <2>1, <3>2, <4>1, <4>2 DEF ApprovalOk
    <3>3. QED
      BY <3>1, <3>2
  <2>2. CASE k # p.id
    BY <1>2, <1>7, <2>2 DEF ApprovalInv, ApprovalOk
  <2>3. QED
    BY <2>1, <2>2
<1>10. ASSUME NEW q \in posts PROVE AnswerOk(q)'
  <2>1. AnswerOk(q) /\ q.id \in C!Ids
    BY DEF ApprovalInv, Answers
  <2>2. CASE q.id = p.id
    <3>1. q.reply = "ok" => appr[p.id].server \in {"yes", "no"}
      BY <2>1, <2>2 DEF AnswerOk, Says
    <3>2. q.reply = "ok" => appr'[p.id].server = appr[p.id].server
      BY <1>7, <3>1
    <3>3. QED
      BY <1>2, <1>7, <2>1, <2>2, <3>2 DEF AnswerOk
  <2>3. CASE q.id # p.id
    BY <1>2, <1>7, <2>1, <2>3 DEF AnswerOk
  <2>4. QED
    BY <2>2, <2>3
<1>11. AnswerOk(a)'
  <2>1. AnswerOk(p)'
    BY <1>10
  <2>2. r = "ok" => appr'[p.id].server = Says(p.yes)
    BY <1>7
  <2>3. QED
    BY <1>5, <2>1, <2>2 DEF AnswerOk
<1>12. posts' \subseteq Answers /\ \A q \in posts' : AnswerOk(q)'
  BY <1>5, <1>6, <1>10, <1>11 DEF ApprovalInv
<1>13. \A q, s \in posts' : q.id = s.id /\ q.by = "auto" => q = s
  <2>1. \A q, s \in posts : q.id = s.id /\ q.by = "auto" => q = s
    BY DEF ApprovalInv
  <2>2. ASSUME NEW q \in posts, q # p, q.id = p.id PROVE q.by # "auto" /\ p.by # "auto"
    BY <2>1, <2>2
  <2>3. QED
    BY <1>5, <1>6, <2>1, <2>2
<1>14. QED
  BY <1>2, <1>7, <1>9, <1>12, <1>13 DEF ApprovalInv

\* An answer, or its reply, is lost: it counts as failed.
LEMMA LoseApproval ==
  ASSUME ApprovalInv, NEW p \in posts, C!Lose(p)
  PROVE  ApprovalInv'
<1>1. p \in Answers /\ AnswerOk(p)
  BY DEF ApprovalInv
<1>2. UNCHANGED <<raised, appr, clicked>>
  BY DEF C!Lose
<1>3. PICK a : a = [p EXCEPT !.reply = "lost"]
  OBVIOUS
<1>4. a \in Answers /\ a.id = p.id /\ a.by = p.by /\ a.yes = p.yes /\ a.reply = "lost"
  BY <1>1, <1>3 DEF Answers
<1>5. posts' = (posts \ {p}) \cup {a}
  BY <1>3 DEF C!Lose
<1>6. AnswerOk(a)'
  BY <1>1, <1>2, <1>4 DEF AnswerOk
<1>7. \A q \in posts : AnswerOk(q)'
  BY <1>2 DEF ApprovalInv, AnswerOk
<1>8. \A i \in C!Ids : ApprovalOk(i)'
  BY <1>2 DEF ApprovalInv, ApprovalOk
<1>9. \A q, s \in posts' : q.id = s.id /\ q.by = "auto" => q = s
  <2>1. \A q, s \in posts : q.id = s.id /\ q.by = "auto" => q = s
    BY DEF ApprovalInv
  <2>2. ASSUME NEW q \in posts, q # p, q.id = p.id PROVE q.by # "auto" /\ p.by # "auto"
    BY <2>1, <2>2
  <2>3. QED
    BY <1>4, <1>5, <2>1, <2>2
<1>10. QED
  BY <1>2, <1>4, <1>5, <1>6, <1>7, <1>8, <1>9 DEF ApprovalInv

\* A reply: a card is told what the server took, or a person is asked after all.
LEMMA ReplyApproval ==
  ASSUME ApprovalInv, NEW p \in posts, C!Reply(p)
  PROVE  ApprovalInv'
<1>1. p \in Answers /\ AnswerOk(p) /\ p.id \in C!Ids /\ ApprovalOk(p.id)
  BY DEF ApprovalInv, Answers
<1>2. raised' = raised /\ clicked' = clicked /\ posts' = posts \ {p}
  BY DEF C!Reply
<1>3. PICK card : /\ card = C!Replied(p.by, p.reply = "ok")
                  /\ appr' = [appr EXCEPT ![p.id].card = card]
  BY DEF C!Reply
<1>4. /\ DOMAIN appr' = C!Ids
      /\ \A k \in C!Ids : k # p.id => appr'[k] = appr[k]
      /\ DOMAIN appr'[p.id] = DOMAIN appr[p.id] /\ appr'[p.id].card = card
      /\ appr'[p.id].server = appr[p.id].server /\ appr'[p.id].auto = appr[p.id].auto
  BY <1>1, <1>3 DEF ApprovalInv, ApprovalOk
<1>5. p.id <= raised /\ ~(p.id > raised)
  BY <1>1 DEF AnswerOk, ApprovalInv, C!Ids
<1>6. \/ p.by = "card" /\ card \in {"told", "failed"} /\ (card = "told" => p.reply = "ok")
      \/ p.by = "auto" /\ card \in {"none", "shown"}
  BY <1>1, <1>3 DEF C!Replied, Answers
<1>7. ASSUME NEW k \in C!Ids PROVE ApprovalOk(k)'
  <2>1. CASE k = p.id /\ p.by = "card"
    <3>1. card = "told" => appr[p.id].server = clicked[p.id]
      BY <1>1, <1>6, <2>1 DEF AnswerOk
    <3>2. card \notin {"none", "shown"}
      BY <1>6, <2>1
    <3>3. QED
      BY <1>1, <1>2, <1>4, <1>5, <2>1, <3>1, <3>2 DEF ApprovalOk
  <2>2. CASE k = p.id /\ p.by = "auto"
    <3>1. clicked[p.id] = "none" /\ card # "told"
      BY <1>1, <1>6, <2>2 DEF AnswerOk, ApprovalOk
    <3>2. QED
      BY <1>1, <1>2, <1>4, <1>5, <2>2, <3>1 DEF ApprovalOk
  <2>3. CASE k # p.id
    BY <1>2, <1>4, <2>3 DEF ApprovalInv, ApprovalOk
  <2>4. QED
    BY <1>6, <2>1, <2>2, <2>3
<1>8. ASSUME NEW q \in posts' PROVE AnswerOk(q)'
  <2>1. q \in posts /\ q # p /\ AnswerOk(q) /\ q \in Answers /\ q.id \in C!Ids
    BY <1>2 DEF ApprovalInv, Answers
  <2>2. CASE q.id = p.id
    <3>1. q.by # "auto" /\ p.by # "auto"
      BY <2>1, <2>2 DEF ApprovalInv
    <3>2. card \notin {"none", "shown"}
      BY <1>6, <3>1
    <3>3. QED
      BY <1>2, <1>4, <2>1, <2>2, <3>1, <3>2 DEF AnswerOk
  <2>3. CASE q.id # p.id
    BY <1>2, <1>4, <2>1, <2>3 DEF AnswerOk
  <2>4. QED
    BY <2>2, <2>3
<1>9. QED
  BY <1>2, <1>4, <1>7, <1>8 DEF ApprovalInv

\* The server gives up on an approval.
LEMMA GiveUpApproval ==
  ASSUME ApprovalInv, NEW i \in C!Ids, C!GiveUp(i)
  PROVE  ApprovalInv'
<1>1. /\ appr[i].server = "open" /\ UNCHANGED <<raised, posts, clicked>>
      /\ appr' = [appr EXCEPT ![i].server = "no"]
  BY DEF C!GiveUp
<1>2. /\ DOMAIN appr' = C!Ids
      /\ \A k \in C!Ids : k # i => appr'[k] = appr[k]
      /\ DOMAIN appr'[i] = DOMAIN appr[i] /\ appr'[i].server = "no"
      /\ appr'[i].card = appr[i].card /\ appr'[i].auto = appr[i].auto
  BY <1>1 DEF ApprovalInv, ApprovalOk
<1>3. ASSUME NEW p \in posts PROVE AnswerOk(p)'
  <2>1. AnswerOk(p) /\ p.id \in C!Ids
    BY DEF ApprovalInv, Answers
  <2>2. p.reply = "ok" => p.id # i
    BY <1>1, <2>1 DEF AnswerOk, Says
  <2>3. appr'[p.id].card = appr[p.id].card /\ appr'[p.id].auto = appr[p.id].auto
    BY <1>2, <2>1
  <2>4. p.reply = "ok" => appr'[p.id] = appr[p.id]
    BY <1>2, <2>1, <2>2
  <2>5. QED
    BY <1>1, <2>1, <2>3, <2>4 DEF AnswerOk
<1>4. ~(i > raised) /\ ApprovalOk(i)
  BY <1>1 DEF ApprovalInv, ApprovalOk, C!NoApproval
<1>5. appr[i].card # "told"
  BY <1>1, <1>4 DEF ApprovalOk
<1>6. ASSUME NEW k \in C!Ids PROVE ApprovalOk(k)'
  <2>1. CASE k = i
    BY <1>1, <1>2, <1>4, <1>5, <2>1 DEF ApprovalOk
  <2>2. CASE k # i
    BY <1>1, <1>2, <2>2 DEF ApprovalInv, ApprovalOk
  <2>3. QED
    BY <2>1, <2>2
<1>7. QED
  BY <1>1, <1>2, <1>3, <1>6 DEF ApprovalInv

\* Typing, and commands that ask for nothing, leave the approvals alone.
LEMMA ApprovalStep == ASSUME ApprovalInv, [C!Next]_(C!vars) PROVE ApprovalInv'
<1>1. ASSUME UNCHANGED <<appr, raised, posts, clicked>> PROVE ApprovalInv'
  BY <1>1 DEF ApprovalInv, ApprovalOk, AnswerOk
<1>2. ASSUME NEW e \in Entries, C!RunWorkflow(e) \/ \E i \in DOMAIN e : C!TypeText(e, i)
      PROVE  ApprovalInv'
  BY <1>1, <1>2 DEF C!TypeText, C!RunWorkflow, C!asking
<1>3. CASE C!ClearInput \/ C!Submit
  BY <1>1, <1>3 DEF C!ClearInput, C!Submit, C!asking
<1>4. CASE \/ \E c \in timer : C!Fires(c)
           \/ \E c \in asked : C!Shown(c)
  BY <1>1, <1>4 DEF C!Fires, C!Shown, C!asking
<1>5. ASSUME NEW j \in C!Jobs, C!RunLocal(j) \/ C!AskEnds(j) PROVE ApprovalInv'
  BY <1>1, <1>5 DEF C!RunLocal, C!AskEnds, C!asking
<1>6. ASSUME NEW j \in C!Jobs, C!RunStreamed(j) PROVE ApprovalInv'
  <2>1. posts' = posts /\ clicked' = clicked
    BY <1>6 DEF C!RunStreamed
  <2>2. CASE UNCHANGED <<appr, raised>>
    BY <1>1, <2>1, <2>2
  <2>3. CASE C!Raise("command", C!Current(j), FALSE, "shown", FALSE)
    BY <2>1, <2>3, RaiseApproval
  <2>4. QED
    BY <1>6, <2>2, <2>3 DEF C!RunStreamed
<1>7. ASSUME NEW j \in C!Jobs, C!AgentAsks(j) PROVE ApprovalInv'
  <2>1. PICK low \in BOOLEAN :
           \/ /\ C!Raise("agent", C!Current(j), low, "none", TRUE)
              /\ posts' = C!Post(raised + 1, TRUE, "auto")
           \/ C!Raise("agent", C!Current(j), low, "shown", FALSE) /\ posts' = posts
    BY <1>7 DEF C!AgentAsks
  <2>2. clicked' = clicked
    BY <1>7 DEF C!AgentAsks
  <2>3. QED
    BY <2>1, <2>2, RaiseApproval
<1>8. ASSUME NEW i \in C!Ids, C!GiveUp(i) \/ \E yes \in BOOLEAN : C!Click(i, yes)
      PROVE  ApprovalInv'
  BY <1>8, GiveUpApproval, ClickApproval
<1>9. ASSUME NEW p \in posts, C!Serve(p) \/ C!Lose(p) \/ C!Reply(p) PROVE ApprovalInv'
  BY <1>9, ServeApproval, LoseApproval, ReplyApproval
<1>10. CASE UNCHANGED C!vars
  BY <1>1, <1>10 DEF C!vars, C!asking
<1>11. QED
  BY <1>2, <1>3, <1>4, <1>5, <1>6, <1>7, <1>8, <1>9, <1>10 DEF C!Next

\* A card that tells of no failure tells what the server took, though the server may have
\* given up, or a rule's answer thought lost have been first; nothing is approved but by a
\* click or a rule (decide, maybeAutoApproveAgentRequest, sendAgentApproval,
\* runApprovedIdel).
THEOREM AnswersAreTold == Spec => []AnswersTold
<1>1. C!Init => ApprovalInv
  <2>1. SUFFICES ASSUME C!Init PROVE ApprovalInv
    OBVIOUS
  <2>2. appr = [i \in C!Ids |-> C!NoApproval] /\ clicked = [i \in C!Ids |-> "none"]
    BY <2>1 DEF C!Init
  <2>3. \A i \in C!Ids : ApprovalOk(i)
    BY <2>2 DEF ApprovalOk, C!NoApproval
  <2>4. raised \in Nat /\ posts = {}
    BY <2>1 DEF C!Init
  <2>5. QED
    BY <2>2, <2>3, <2>4 DEF ApprovalInv
<1>2. ApprovalInv /\ [C!Next]_(C!vars) => ApprovalInv'
  BY ApprovalStep
<1>3. ApprovalInv => AnswersTold
  BY DEF ApprovalInv, ApprovalOk, AnswersTold, C!AnswersTold
<1> QED
  BY <1>1, <1>2, <1>3, ConsoleBehaves, PTL DEF C!Spec
-----------------------------------------------------------------------------
(* The interactive terminal.                                               *)

\* Nor what the interactive terminal works through.
LEMMA ReplBehaves == Spec => R!Spec
<1>1. Init => R!Init
  BY DEF Init
<1>2. [Next]_vars => [R!Next]_(R!vars)
  BY DEF Next, vars, repl, R!vars, R!reading, R!work
<1> QED
  BY <1>1, <1>2, PTL DEF Spec, R!Spec

Of(q) == {q[i] : i \in DOMAIN q}
Rising(q) == \A i, j \in DOMAIN q : i < j => q[i] < q[j]

\* The first of the lines queued is the oldest.
LEMMA QueueTaken ==
  ASSUME NEW n \in Nat, NEW q \in Seq(1 .. n), Rising(q), q # <<>>
  PROVE  /\ Tail(q) \in Seq(1 .. n) /\ Rising(Tail(q))
         /\ Of(q) = Of(Tail(q)) \cup {Head(q)}
         /\ \A k \in Of(Tail(q)) : Head(q) < k
<1>1. Len(q) \in Nat /\ Len(q) >= 1 /\ DOMAIN q = 1 .. Len(q) /\ Head(q) = q[1]
  OBVIOUS
<1>2. /\ Tail(q) \in Seq(1 .. n) /\ DOMAIN Tail(q) = 1 .. (Len(q) - 1)
      /\ \A i \in 1 .. (Len(q) - 1) : Tail(q)[i] = q[i + 1] /\ i + 1 \in DOMAIN q
  BY <1>1
<1>3. Rising(Tail(q))
  BY <1>1, <1>2 DEF Rising
<1>4. \A k \in Of(Tail(q)) : Head(q) < k
  <2>1. ASSUME NEW i \in 1 .. (Len(q) - 1) PROVE Head(q) < Tail(q)[i]
    <3>1. 1 \in DOMAIN q /\ i + 1 \in DOMAIN q /\ 1 < i + 1 /\ Tail(q)[i] = q[i + 1]
      BY <1>1, <1>2
    <3>2. QED
      BY <1>1, <3>1 DEF Rising
  <2>2. QED
    BY <1>2, <2>1 DEF Of
<1>5. Of(q) = Of(Tail(q)) \cup {Head(q)}
  <2>1. Of(Tail(q)) \cup {Head(q)} \subseteq Of(q)
    BY <1>1, <1>2 DEF Of
  <2>2. ASSUME NEW i \in DOMAIN q PROVE q[i] \in Of(Tail(q)) \cup {Head(q)}
    <3>1. CASE i = 1
      BY <1>1, <3>1
    <3>2. CASE i # 1
      <4>1. i - 1 \in 1 .. (Len(q) - 1)
        BY <1>1, <3>2
      <4>2. Tail(q)[i - 1] = q[i] /\ i - 1 \in DOMAIN Tail(q)
        BY <1>1, <1>2, <4>1
      <4>3. QED
        BY <4>2 DEF Of
    <3>3. QED
      BY <3>1, <3>2
  <2>3. QED
    BY <2>1, <2>2 DEF Of
<1>6. QED
  BY <1>2, <1>3, <1>4, <1>5

\* A line typed is the last of those queued.
LEMMA QueueGrows ==
  ASSUME NEW n \in Nat, NEW q \in Seq(1 .. n), Rising(q), NEW w, w = Append(q, n + 1)
  PROVE  /\ w \in Seq(1 .. (n + 1)) /\ w # <<>> /\ Rising(w)
         /\ Of(w) = Of(q) \cup {n + 1}
<1>1. q \in Seq(1 .. (n + 1)) /\ n + 1 \in 1 .. (n + 1)
  OBVIOUS
<1>2. /\ Len(q) \in Nat /\ DOMAIN q = 1 .. Len(q) /\ \A i \in DOMAIN q : q[i] \in 1 .. n
      /\ w \in Seq(1 .. (n + 1)) /\ DOMAIN w = 1 .. (Len(q) + 1)
      /\ w[Len(q) + 1] = n + 1 /\ \A i \in 1 .. Len(q) : w[i] = q[i]
  BY <1>1
<1>3. w # <<>>
  BY <1>2
<1>4. Rising(w)
  BY <1>2 DEF Rising
<1>5. Of(w) = Of(q) \cup {n + 1}
  BY <1>2 DEF Of
<1>6. QED
  BY <1>2, <1>3, <1>4, <1>5

\* Of the lines 1 .. n some are done, some were answers or are cleared, some wait, and one, or
\* none, is at hand.
Placed(n, d, gone, waiting, a) ==
    /\ d \subseteq 1 .. n /\ gone \subseteq 1 .. n /\ waiting \subseteq 1 .. n /\ a \in 0 .. n
    /\ 1 .. n \subseteq d \cup gone \cup waiting \cup {a}
    /\ \A k \in gone : k \notin d \cup waiting \cup {a}
    /\ \A k \in d, m \in waiting : k < m
    /\ a # 0 => (\A k \in d : k < a) /\ \A m \in waiting : a < m

\* A line more, which waits or is an answer.
LEMMA PlacedMore ==
  ASSUME NEW n \in Nat, NEW d, NEW gone, NEW waiting, NEW a, Placed(n, d, gone, waiting, a)
  PROVE  /\ Placed(n + 1, d, gone, waiting \cup {n + 1}, a)
         /\ Placed(n + 1, d, gone \cup {n + 1}, waiting, a)
<1>1. 1 .. (n + 1) = 1 .. n \cup {n + 1} /\ n + 1 \notin 1 .. n /\ a # n + 1
  BY DEF Placed
<1>2. a \in 0 .. (n + 1) /\ \A k \in d : k < n + 1
  BY DEF Placed
<1>3. a # 0 => a < n + 1
  BY DEF Placed
<1>4. QED
  BY <1>1, <1>2, <1>3 DEF Placed

\* Those that wait are cleared.
LEMMA PlacedCleared ==
  ASSUME NEW n \in Nat, NEW d, NEW gone, NEW waiting, NEW a, Placed(n, d, gone, waiting, a)
  PROVE  Placed(n, d, gone \cup waiting, {}, a)
<1>1. \A k \in waiting : k \notin d /\ k # a
  <2>1. ASSUME NEW k \in waiting PROVE k \notin d /\ k # a
    <3>1. k \in Nat /\ k >= 1 /\ (k \in d => k < k)
      BY DEF Placed
    <3>2. a # 0 => a < k
      BY DEF Placed
    <3>3. QED
      BY <3>1, <3>2 DEF Placed
  <2>2. QED
    BY <2>1
<1>2. QED
  BY <1>1 DEF Placed

\* The one at hand is done.
LEMMA PlacedDone ==
  ASSUME NEW n \in Nat, NEW d, NEW gone, NEW waiting, NEW a, Placed(n, d, gone, waiting, a), a # 0
  PROVE  Placed(n, d \cup {a}, gone, waiting, 0)
BY DEF Placed

\* The first of those that wait is taken in hand.
LEMMA PlacedTaken ==
  ASSUME NEW n \in Nat, NEW d, NEW gone, NEW waiting, Placed(n, d, gone, waiting, 0),
         NEW rest, NEW k, waiting = rest \cup {k}, \A m \in rest : k < m
  PROVE  Placed(n, d, gone, rest, k)
BY DEF Placed

\* The lines typed, each in its place; none is at hand, or a question asked, but as the phase
\* has it.
LinesInv ==
    /\ given \in Seq(Lines) /\ queue \in Seq(1 .. Len(given)) /\ Rising(queue) /\ step \in Nat
    /\ Placed(Len(given), done, answers \cup cleared, Of(queue), at)
    /\ at = 0 => phase = "idle"
    /\ question # "none" => phase = "asking"

\* A line, or the next of its steps, begins, or none is left.
Begins ==
    /\ told = "none" /\ shown = R!None
    /\ phase \in {"idle", "pass", "real", "preview", "refused"}
    /\ phase = "real" => given[at].kind = "run"

\* A step begins.
LEMMA StepBegins ==
  ASSUME NEW k, NEW i, NEW lines, given' = lines, lines \in Seq(Lines), i \in 1 .. Len(lines),
         R!StepFrom(k, i, lines)
  PROVE  Begins' /\ at' = i /\ step' = k
<1>1. lines[i] \in Lines
  OBVIOUS
<1>2. lines[i].kind \in {"pass", "exit", "run", "ask"}
  BY <1>1, FrontEndsAssumption DEF R!ReplAssumption
<1>3. phase' = R!FirstPhase(lines[i], k)
  BY DEF R!StepFrom
<1>4. /\ phase' \in {"pass", "real", "preview", "refused"}
      /\ phase' = "real" => lines[i].kind = "run"
  BY <1>2, <1>3 DEF R!FirstPhase
<1>5. QED
  BY <1>4 DEF Begins, R!StepFrom

\* drain takes the next line, or ends.
LEMMA DrainTakes ==
  ASSUME NEW lines \in Seq(Lines), NEW q \in Seq(1 .. Len(lines)), Rising(q), NEW stopping,
         NEW d, NEW gone, Placed(Len(lines), d, gone, Of(q), 0),
         given' = lines, done' = d, (answers \cup cleared)' = gone, question' = "none",
         R!Drain(q, lines, stopping)
  PROVE  LinesInv' /\ Begins'
<1>1. CASE q = <<>> \/ stopping
  <2>1. at' = 0 /\ step' = 0 /\ phase' = "idle" /\ queue' = q /\ shown' = R!None /\ told' = "none"
    BY <1>1 DEF R!Drain, R!Idle
  <2>2. Begins'
    BY <2>1 DEF Begins
  <2>3. Placed(Len(lines), d, gone, Of(queue'), at')
    BY <2>1
  <2>4. Placed(Len(given), done, answers \cup cleared, Of(queue), at)'
    BY <2>3
  <2>5. QED
    BY <2>1, <2>2, <2>4 DEF LinesInv
<1>2. CASE ~(q = <<>> \/ stopping)
  <2>1. R!StepFrom(1, Head(q), lines) /\ queue' = Tail(q)
    BY <1>2 DEF R!Drain
  <2>2. /\ Tail(q) \in Seq(1 .. Len(lines)) /\ Rising(Tail(q))
        /\ Of(q) = Of(Tail(q)) \cup {Head(q)}
        /\ \A k \in Of(Tail(q)) : Head(q) < k
    BY <1>2, QueueTaken
  <2>3. Head(q) \in 1 .. Len(lines)
    BY <1>2
  <2>4. Begins' /\ at' = Head(q) /\ step' = 1
    BY <2>1, <2>3, StepBegins
  <2>5. Placed(Len(lines), d, gone, Of(Tail(q)), Head(q))
    BY <2>2, PlacedTaken
  <2>6. Placed(Len(given), done, answers \cup cleared, Of(queue), at)'
    BY <2>1, <2>4, <2>5
  <2>7. at' # 0 /\ step' \in Nat
    BY <2>3, <2>4
  <2>8. QED
    BY <2>1, <2>2, <2>4, <2>6, <2>7 DEF LinesInv
<1>3. QED
  BY <1>1, <1>2

\* The line at hand is done, and the next is taken.
LEMMA LineDoneTakes ==
  ASSUME LinesInv, phase \notin {"idle", "asking"}, question' = question, R!LineDone
  PROVE  /\ LinesInv' /\ Begins' /\ given' = given /\ question' = "none"
         /\ done' = done \cup {at} /\ UNCHANGED <<answers, cleared>>
<1>1. /\ given' = given /\ done' = done \cup {at} /\ UNCHANGED <<answers, cleared>>
      /\ R!Drain(queue, given, stop') /\ at # 0 /\ question' = "none"
  BY DEF R!LineDone, LinesInv
<1>2. Placed(Len(given), done \cup {at}, answers \cup cleared, Of(queue), 0)
  BY <1>1, PlacedDone DEF LinesInv
<1>3. LinesInv' /\ Begins'
  BY <1>1, <1>2, DrainTakes DEF LinesInv
<1>4. QED
  BY <1>1, <1>3

\* The next step of the line begins, or another line.
LEMMA NextStepTakes ==
  ASSUME LinesInv, phase \notin {"idle", "asking"}, question' = question, R!NextStep
  PROVE  /\ LinesInv' /\ Begins' /\ given' = given /\ question' = "none"
         /\ UNCHANGED <<answers, cleared>>
         /\ \/ at' = at /\ step' = step + 1 /\ done' = done
            \/ done' = done \cup {at}
<1>1. CASE R!LineDone
  BY <1>1, LineDoneTakes
<1>2. CASE R!StepFrom(step + 1, at, given) /\ UNCHANGED <<R!reading, stop, session, done>>
  <2>1. UNCHANGED <<given, queue, answers, cleared, done>>
    BY <1>2 DEF R!reading
  <2>2. at # 0 /\ at \in 1 .. Len(given) /\ given \in Seq(Lines)
    BY DEF LinesInv, Placed
  <2>3. Begins' /\ at' = at /\ step' = step + 1
    BY <1>2, <2>1, <2>2, StepBegins
  <2>4. question = "none"
    BY DEF LinesInv
  <2>5. QED
    BY <2>1, <2>2, <2>3, <2>4 DEF LinesInv
<1>3. QED
  BY <1>1, <1>2 DEF R!NextStep

\* So does the end of a step, whether it went well or not.
LEMMA StepDoneTakes ==
  ASSUME LinesInv, phase \notin {"idle", "asking"}, question' = question, NEW ok, R!StepDone(ok)
  PROVE  /\ LinesInv' /\ Begins' /\ given' = given /\ question' = "none"
         /\ UNCHANGED <<answers, cleared>>
         /\ \/ at' = at /\ step' = step + 1 /\ done' = done
            \/ done' = done \cup {at}
<1>1. CASE R!LineDone
  BY <1>1, LineDoneTakes
<1>2. CASE R!NextStep
  BY <1>2, NextStepTakes
<1>3. QED
  BY <1>1, <1>2 DEF R!StepDone

\* After a throw nothing goes on, or the agent does, or the line is done.
LEMMA ThrowTakes ==
  ASSUME LinesInv, phase \notin {"idle", "asking"}, question' = question, R!Throw
  PROVE  /\ LinesInv' /\ given' = given /\ question' = "none"
         /\ UNCHANGED <<answers, cleared>>
         /\ \/ /\ session' = "crashed"
               /\ UNCHANGED <<at, step, phase, shown, told, decided, done>>
            \/ Begins' /\ at' = at /\ step' = step + 1 /\ done' = done
            \/ Begins' /\ done' = done \cup {at}
<1>1. CASE R!LineDone
  BY <1>1, LineDoneTakes
<1>2. CASE R!NextStep
  BY <1>2, NextStepTakes
<1>3. CASE /\ session' = "crashed"
           /\ UNCHANGED <<R!reading, at, step, phase, shown, told, decided, stop, done>>
  <2>1. UNCHANGED <<given, queue, answers, cleared>> /\ question = "none"
    BY <1>3 DEF R!reading, LinesInv
  <2>2. QED
    BY <1>3, <2>1 DEF LinesInv
<1>4. QED
  BY <1>1, <1>2, <1>3 DEF R!Throw, R!AskThrows

\* A question is asked, or throws.
LEMMA AskTakes ==
  ASSUME LinesInv, phase \notin {"idle", "asking"}, NEW s, NEW d, NEW q,
         R!Ask(q, s, d)
  PROVE  /\ LinesInv' /\ given' = given /\ acts' = acts
         /\ UNCHANGED <<answers, cleared>>
         /\ \/ /\ question' = q /\ phase' = "asking" /\ shown' = s /\ decided' = d
               /\ UNCHANGED <<told, at, step, done>>
            \/ /\ question' = "none"
               /\ \/ UNCHANGED <<at, step, phase, shown, told, decided, done>>
                  \/ Begins' /\ at' = at /\ step' = step + 1 /\ done' = done
                  \/ Begins' /\ done' = done \cup {at}
<1>1. CASE input = "open"
  <2>1. /\ question' = q /\ phase' = "asking" /\ shown' = s /\ decided' = d
        /\ UNCHANGED <<told, at, step, done, acts, given, queue, answers, cleared>>
    BY <1>1 DEF R!Ask, R!reading
  <2>2. QED
    BY <2>1 DEF LinesInv
<1>2. CASE R!Throw /\ UNCHANGED <<question, acts>>
  BY <1>2, ThrowTakes
<1>3. QED
  BY <1>1, <1>2 DEF R!Ask

\* Another phase of the step begins.
LEMMA GoTakes ==
  ASSUME LinesInv, phase \notin {"idle", "asking"}, NEW s, NEW d, NEW p, R!Go(p, s, d)
  PROVE  /\ LinesInv' /\ UNCHANGED <<given, acts, answers, cleared, told, at, step, done>>
         /\ question' = "none" /\ phase' = p /\ shown' = s /\ decided' = d
<1>1. /\ UNCHANGED <<given, queue, acts, answers, cleared, told, at, step, done, question>>
      /\ phase' = p /\ shown' = s /\ decided' = d
  BY DEF R!Go, R!reading
<1>2. QED
  BY <1>1 DEF LinesInv

\* What is typed: an answer, or a line that waits or is taken in hand.
LEMMA TypeTakes ==
  ASSUME LinesInv, NEW l \in Lines, R!TypeLine(l)
  PROVE  /\ LinesInv' /\ given' = Append(given, l) /\ question' = "none"
         /\ UNCHANGED <<auto, acts, cleared, done>>
         /\ \/ /\ question # "none" /\ phase' = R!After(question, l.yes)
               /\ told' = IF l.yes THEN "yes" ELSE "no"
               /\ UNCHANGED <<at, step, shown, decided>>
            \/ question = "none" /\ at = 0 /\ Begins'
            \/ question = "none" /\ UNCHANGED <<at, step, phase, shown, told, decided>>
<1> DEFINE n == Len(given)
<1>1. /\ given' = Append(given, l) /\ UNCHANGED <<auto, acts, cleared, done>>
      /\ \/ /\ question # "none" /\ phase' = R!After(question, l.yes) /\ question' = "none"
            /\ told' = (IF l.yes THEN "yes" ELSE "no")
            /\ answers' = answers \cup {Len(given')}
            /\ UNCHANGED <<queue, at, step, shown, decided>>
         \/ /\ question = "none" /\ question' = "none" /\ answers' = answers /\ at = 0
            /\ R!Drain(Append(queue, Len(given')), given', FALSE)
         \/ /\ question = "none" /\ question' = "none" /\ answers' = answers /\ at # 0
            /\ queue' = Append(queue, Len(given'))
            /\ UNCHANGED <<at, step, phase, shown, told, decided>>
  BY DEF R!TypeLine, R!Person
<1>2. n \in Nat /\ given' \in Seq(Lines) /\ Len(given') = n + 1
  BY <1>1 DEF LinesInv
<1>3. /\ Placed(n + 1, done, answers \cup cleared, Of(queue) \cup {n + 1}, at)
      /\ Placed(n + 1, done, answers \cup cleared \cup {n + 1}, Of(queue), at)
  BY <1>2, PlacedMore DEF LinesInv
<1>4. PICK w : w = Append(queue, n + 1)
  OBVIOUS
<1>5. w \in Seq(1 .. (n + 1)) /\ Rising(w) /\ Of(w) = Of(queue) \cup {n + 1}
  BY <1>2, <1>4, QueueGrows DEF LinesInv
<1>6. CASE /\ question # "none" /\ phase' = R!After(question, l.yes) /\ question' = "none"
           /\ told' = (IF l.yes THEN "yes" ELSE "no")
           /\ answers' = answers \cup {Len(given')}
           /\ UNCHANGED <<queue, at, step, shown, decided>>
  <2>1. at # 0
    BY <1>6 DEF LinesInv
  <2>2. answers' \cup cleared' = answers \cup cleared \cup {n + 1}
    BY <1>1, <1>2, <1>6
  <2>3. Placed(Len(given), done, answers \cup cleared, Of(queue), at)'
    BY <1>1, <1>2, <1>3, <1>6, <2>2
  <2>4. queue' \in Seq(1 .. Len(given'))
    BY <1>2, <1>6 DEF LinesInv
  <2>5. LinesInv'
    BY <1>2, <1>6, <2>1, <2>3, <2>4 DEF LinesInv
  <2>6. QED
    BY <1>1, <1>6, <2>5
<1>7. CASE /\ question = "none" /\ question' = "none" /\ answers' = answers /\ at = 0
           /\ R!Drain(Append(queue, Len(given')), given', FALSE)
  <2>1. R!Drain(w, given', FALSE)
    BY <1>2, <1>4, <1>7
  <2>2. PICK lines : lines = given'
    OBVIOUS
  <2>3. lines \in Seq(Lines) /\ w \in Seq(1 .. Len(lines)) /\ R!Drain(w, lines, FALSE)
    BY <1>2, <1>5, <2>1, <2>2
  <2>4. Placed(Len(lines), done, answers \cup cleared, Of(w), 0)
    BY <1>2, <1>3, <1>5, <1>7, <2>2
  <2>5. done' = done /\ (answers \cup cleared)' = answers \cup cleared
    BY <1>1, <1>7
  <2>6. LinesInv' /\ Begins'
    BY <1>5, <1>7, <2>2, <2>3, <2>4, <2>5, DrainTakes
  <2>7. QED
    BY <1>1, <1>7, <2>6
<1>8. CASE /\ question = "none" /\ question' = "none" /\ answers' = answers /\ at # 0
           /\ queue' = Append(queue, Len(given'))
           /\ UNCHANGED <<at, step, phase, shown, told, decided>>
  <2>1. queue' = w
    BY <1>2, <1>4, <1>8
  <2>2. Placed(Len(given), done, answers \cup cleared, Of(queue), at)'
    BY <1>1, <1>2, <1>3, <1>5, <1>8, <2>1
  <2>3. LinesInv'
    BY <1>2, <1>5, <1>8, <2>1, <2>2 DEF LinesInv
  <2>4. QED
    BY <1>1, <1>8, <2>3
<1>9. QED
  BY <1>1, <1>6, <1>7, <1>8

\* ^C, the end of the input, and text not yet given.
LEMMA BreakTakes ==
  ASSUME LinesInv, R!Sigint \/ R!EndInput \/ R!TypeText
  PROVE  /\ LinesInv'
         /\ UNCHANGED <<auto, given, at, step, phase, question, shown, told, decided, done, acts>>
<1>1. UNCHANGED <<auto, given, at, step, phase, question, shown, told, decided, done, acts, answers>>
  BY DEF R!Sigint, R!EndInput, R!TypeText, R!Person, R!work
<1>2. CASE cleared' = cleared /\ queue' = queue
  BY <1>1, <1>2 DEF LinesInv
<1>3. CASE R!Sigint
  <2>1. cleared' = cleared \cup Of(queue) /\ queue' = <<>>
    BY <1>3 DEF R!Sigint, Of
  <2>2. Placed(Len(given), done, answers \cup cleared \cup Of(queue), {}, at)
    BY PlacedCleared DEF LinesInv
  <2>3. Of(queue') = {} /\ Rising(queue') /\ queue' \in Seq(1 .. Len(given))
    BY <2>1 DEF Of, Rising
  <2>4. answers' \cup cleared' = answers \cup cleared \cup Of(queue)
    BY <1>1, <2>1
  <2>5. Placed(Len(given), done, answers \cup cleared, Of(queue), at)'
    BY <1>1, <2>2, <2>3, <2>4
  <2>6. QED
    BY <1>1, <2>3, <2>5 DEF LinesInv
<1>4. QED
  BY <1>1, <1>2, <1>3 DEF R!EndInput, R!TypeText

\* The policy wants an approval that --yes does not give.
Denied(d) == d.action = "approval_required" /\ ~R!Auto(d)

\* What a line of this kind needs to be run, given what was shown, the last answer, and the
\* decision of the real run.
Consented(kind, s, answer, d) ==
    /\ kind = "ask" \/ Denied(d) \/ (s.action = "allow" /\ R!Sensitive(s)) => answer = "yes"
    /\ answer = "no" => d # s

\* The consent the step at hand has so far: a no stands only to the question of a preview.
ConsentInv ==
    /\ question \in {"none", "preview", "confirm", "gate", "policy"}
    /\ question = "preview" => Denied(shown)
    /\ phase = "preview" => told = "none"
    /\ phase \in {"shown", "real"} => (told = "no" => Denied(shown))
    /\ phase = "real" => Consented(given[at].kind, shown, told, R!None)
    /\ phase = "act" => Consented(given[at].kind, shown, told, decided)

\* What was run is of a line that is done, or an earlier step of the one at hand, or the
\* step that brought the process down.
ActOk(a) ==
    /\ a.step \in Nat
    /\ \/ a.line \in done
       \/ /\ at # 0 /\ a.line = at
          /\ a.step < step \/ (a.step = step /\ session = "crashed")
    /\ Consented(given[a.line].kind, a.shown, a.told, a.decided)

ActsInv ==
    /\ acts \in Seq(Of(acts))
    /\ \A a \in Of(acts) : ActOk(a)
    /\ \A i, j \in DOMAIN acts : i < j => R!Before(acts[i], acts[j])

TerminalInv == LinesInv /\ ConsentInv /\ ActsInv

\* The line at hand goes on, or is done; those typed stay as they are.
Onward ==
    /\ auto' = auto /\ done \subseteq done'
    /\ \A k \in 1 .. Len(given) : given'[k] = given[k]
    /\ at = 0 \/ at \in done' \/ (at' = at /\ step' >= step)
    /\ session = "on" \/ UNCHANGED <<step, session>>

LEMMA ActStays == ASSUME LinesInv, LinesInv', Onward, NEW a, ActOk(a) PROVE ActOk(a)'
<1>1. a.line \in 1 .. Len(given)
  <2>1. done \subseteq 1 .. Len(given) /\ (at # 0 => at \in 1 .. Len(given))
    BY DEF LinesInv, Placed
  <2>2. QED
    BY <2>1 DEF ActOk
<1>2. given'[a.line] = given[a.line]
  BY <1>1 DEF Onward
<1>3. Consented(given[a.line].kind, a.shown, a.told, a.decided)'
  BY <1>2 DEF ActOk, Onward, Consented, Denied, R!Auto
<1>4. \/ a.line \in done'
      \/ /\ at' # 0 /\ a.line = at'
         /\ a.step < step' \/ (a.step = step' /\ session' = "crashed")
  <2>1. CASE a.line \in done
    BY <2>1 DEF Onward
  <2>2. CASE at # 0 /\ a.line = at /\ a.step < step
    <3>1. step \in Nat /\ step' \in Nat /\ a.step \in Nat
      BY DEF LinesInv, ActOk
    <3>2. QED
      BY <2>2, <3>1 DEF Onward
  <2>3. CASE at # 0 /\ a.line = at /\ a.step = step /\ session = "crashed"
    BY <2>3 DEF Onward
  <2>4. QED
    BY <2>1, <2>2, <2>3 DEF ActOk
<1>5. QED
  BY <1>3, <1>4 DEF ActOk

\* Nothing is run.
LEMMA ActsStay ==
  ASSUME LinesInv, LinesInv', ActsInv, Onward, acts' = acts
  PROVE  ActsInv'
<1>1. \A a \in Of(acts) : ActOk(a)'
  BY ActStays DEF ActsInv
<1>2. QED
  BY <1>1 DEF ActsInv, R!Before, Of

\* A sequence of whatever is one of its elements.
LEMMA SequenceOf == ASSUME NEW S, NEW q \in Seq(S) PROVE q \in Seq(Of(q))
<1>1. Len(q) \in Nat /\ q \in [1 .. Len(q) -> S] /\ DOMAIN q = 1 .. Len(q)
  OBVIOUS
<1>2. q \in [1 .. Len(q) -> Of(q)]
  BY <1>1 DEF Of
<1>3. QED
  BY <1>1, <1>2

\* The step at hand is run.
LEMMA ActsGrow ==
  ASSUME LinesInv, LinesInv', ActsInv, Onward, at # 0, NEW a, a.line = at, a.step = step,
         Consented(given[at].kind, a.shown, a.told, a.decided), session = "on",
         \/ at \in done'
         \/ at' = at /\ (step' = step + 1 \/ (step' = step /\ session' = "crashed")),
         acts' = Append(acts, a)
  PROVE  ActsInv'
<1>1. /\ acts' \in Seq(Of(acts')) /\ Len(acts) \in Nat
      /\ DOMAIN acts = 1 .. Len(acts) /\ DOMAIN acts' = 1 .. (Len(acts) + 1)
      /\ acts'[Len(acts) + 1] = a /\ \A i \in 1 .. Len(acts) : acts'[i] = acts[i]
      /\ Of(acts') = Of(acts) \cup {a}
  <2>1. PICK S : acts \in Seq(S) /\ a \in S
    <3>1. acts \in Seq(Of(acts) \cup {a})
      BY DEF ActsInv
    <3>2. QED
      BY <3>1
  <2>2. /\ acts' \in Seq(S) /\ Len(acts) \in Nat
        /\ DOMAIN acts = 1 .. Len(acts) /\ DOMAIN acts' = 1 .. (Len(acts) + 1)
        /\ acts'[Len(acts) + 1] = a /\ \A i \in 1 .. Len(acts) : acts'[i] = acts[i]
    BY <2>1
  <2>3. Of(acts') = Of(acts) \cup {a}
    BY <2>2 DEF Of
  <2>4. acts' \in Seq(Of(acts'))
    BY <2>2, SequenceOf
  <2>5. QED
    BY <2>2, <2>3, <2>4
<1>2. step \in Nat /\ at \in 1 .. Len(given)
  BY DEF LinesInv, Placed
<1>3. ActOk(a)'
  <2>1. given'[a.line] = given[a.line]
    BY <1>2 DEF Onward
  <2>2. Consented(given[a.line].kind, a.shown, a.told, a.decided)'
    BY <2>1 DEF Onward, Consented, Denied, R!Auto
  <2>3. QED
    BY <1>2, <2>2 DEF ActOk
<1>4. \A b \in Of(acts) : ActOk(b)'
  BY ActStays DEF ActsInv
<1>5. \A i \in 1 .. Len(acts) : R!Before(acts[i], a)
  <2>1. ASSUME NEW i \in 1 .. Len(acts) PROVE R!Before(acts[i], a)
    <3>1. ActOk(acts[i])
      BY <1>1 DEF ActsInv, Of
    <3>2. acts[i].line \in done => acts[i].line < at
      BY DEF LinesInv, Placed
    <3>3. QED
      BY <3>1, <3>2 DEF ActOk, R!Before
  <2>2. QED
    BY <2>1
<1>6. \A i, j \in DOMAIN acts' : i < j => R!Before(acts'[i], acts'[j])
  <2>1. ASSUME NEW i \in 1 .. (Len(acts) + 1), NEW j \in 1 .. (Len(acts) + 1), i < j
        PROVE  R!Before(acts'[i], acts'[j])
    <3>1. i \in 1 .. Len(acts) /\ (j = Len(acts) + 1 \/ j \in 1 .. Len(acts))
      BY <1>1, <2>1
    <3>2. CASE j = Len(acts) + 1
      BY <1>1, <1>5, <3>1, <3>2
    <3>3. CASE j \in 1 .. Len(acts)
      BY <1>1, <2>1, <3>1, <3>3 DEF ActsInv
    <3>4. QED
      BY <3>1, <3>2, <3>3
  <2>2. QED
    BY <1>1, <2>1
<1>7. \A b \in Of(acts') : ActOk(b)'
  BY <1>1, <1>3, <1>4
<1>8. QED
  BY <1>1, <1>6, <1>7 DEF ActsInv, R!Before, Of

\* What begins needs no consent yet.
LEMMA BeginsConsent == ASSUME Begins', question' = "none" PROVE ConsentInv'
<1>1. R!None.action = "none"
  BY DEF R!None
<1>2. QED
  BY <1>1 DEF Begins, ConsentInv, Consented, Denied

\* A line more on the end leaves the others as they are.
LEMMA GivenStays ==
  ASSUME LinesInv, given' = given \/ \E l \in Lines : given' = Append(given, l)
  PROVE  \A k \in 1 .. Len(given) : given'[k] = given[k]
BY DEF LinesInv

\* A question is asked of the step at hand, or throws.
LEMMA AskConsent ==
  ASSUME TerminalInv, phase \notin {"idle", "asking", "act"}, auto' = auto, session = "on",
         NEW q \in {"preview", "confirm", "gate", "policy"}, NEW s, NEW d, R!Ask(q, s, d),
         q = "preview" => Denied(s)
  PROVE  TerminalInv'
<1>1. /\ LinesInv' /\ given' = given /\ acts' = acts
      /\ UNCHANGED <<answers, cleared>>
      /\ \/ /\ question' = q /\ phase' = "asking" /\ shown' = s /\ decided' = d
            /\ UNCHANGED <<told, at, step, done>>
         \/ /\ question' = "none"
            /\ \/ UNCHANGED <<at, step, phase, shown, told, decided, done>>
               \/ Begins' /\ at' = at /\ step' = step + 1 /\ done' = done
               \/ Begins' /\ done' = done \cup {at}
  BY AskTakes DEF TerminalInv
<1>2. step \in Nat
  BY DEF TerminalInv, LinesInv
<1>3. Onward
  BY <1>1, <1>2 DEF Onward
<1>4. ActsInv'
  BY <1>1, <1>3, ActsStay DEF TerminalInv
<1>5. ConsentInv'
  <2>1. CASE question' = q /\ phase' = "asking" /\ shown' = s
    BY <2>1 DEF ConsentInv, Denied, R!Auto
  <2>2. CASE question' = "none" /\ UNCHANGED <<at, step, phase, shown, told, decided, done>>
    BY <1>1, <2>2 DEF TerminalInv, ConsentInv, Consented, Denied, R!Auto
  <2>3. CASE question' = "none" /\ Begins'
    BY <2>3, BeginsConsent
  <2>4. QED
    BY <1>1, <2>1, <2>2, <2>3
<1>6. QED
  BY <1>1, <1>4, <1>5 DEF TerminalInv

\* Another phase begins, with the consent it needs.
LEMMA GoConsent ==
  ASSUME TerminalInv, phase \notin {"idle", "asking"}, auto' = auto, session = "on",
         NEW p \in {"shown", "real", "act", "refused"}, NEW s, NEW d, R!Go(p, s, d),
         p \in {"shown", "real"} => (told = "no" => Denied(s)),
         p = "real" => Consented(given[at].kind, s, told, R!None),
         p = "act" => Consented(given[at].kind, s, told, d)
  PROVE  TerminalInv'
<1>1. /\ LinesInv' /\ UNCHANGED <<given, acts, answers, cleared, told, at, step, done>>
      /\ question' = "none" /\ phase' = p /\ shown' = s /\ decided' = d
  BY GoTakes DEF TerminalInv
<1>2. step \in Nat
  BY DEF TerminalInv, LinesInv
<1>3. Onward
  BY <1>1, <1>2 DEF Onward
<1>4. ActsInv'
  BY <1>1, <1>3, ActsStay DEF TerminalInv
<1>5. ConsentInv'
  BY <1>1 DEF ConsentInv, Consented, Denied, R!Auto
<1>6. QED
  BY <1>1, <1>4, <1>5 DEF TerminalInv

\* A line that is passed over, or a run that throws.
LEMMA EndConsent ==
  ASSUME TerminalInv, R!Pass \/ R!Fails
  PROVE  TerminalInv'
<1>1. phase \in {"pass", "preview", "real"} /\ auto' = auto /\ session = "on"
  BY DEF R!Pass, R!Fails, R!Working
<1>2. /\ LinesInv' /\ given' = given /\ question' = "none" /\ acts' = acts
      /\ \/ UNCHANGED <<at, step, phase, shown, told, decided, done>>
         \/ Begins' /\ at' = at /\ step' = step + 1 /\ done' = done
         \/ Begins' /\ done' = done \cup {at}
  <2>1. CASE R!Pass
    <3>1. R!LineDone /\ question' = question /\ acts' = acts
      BY <2>1 DEF R!Pass
    <3>2. QED
      BY <1>1, <3>1, LineDoneTakes DEF TerminalInv
  <2>2. CASE R!Fails
    <3>1. R!Throw /\ question' = question /\ acts' = acts
      BY <2>2 DEF R!Fails
    <3>2. QED
      BY <1>1, <3>1, ThrowTakes DEF TerminalInv
  <2>3. QED
    BY <2>1, <2>2
<1>3. step \in Nat
  BY DEF TerminalInv, LinesInv
<1>4. Onward
  BY <1>1, <1>2, <1>3 DEF Onward
<1>5. ActsInv'
  BY <1>2, <1>4, ActsStay DEF TerminalInv
<1>6. ConsentInv'
  <2>1. CASE UNCHANGED <<at, step, phase, shown, told, decided, done>>
    BY <1>1, <1>2, <2>1 DEF TerminalInv, ConsentInv, Consented, Denied, R!Auto
  <2>2. CASE Begins'
    BY <1>2, <2>2, BeginsConsent
  <2>3. QED
    BY <1>2, <2>1, <2>2
<1>7. QED
  BY <1>2, <1>5, <1>6 DEF TerminalInv

\* The preview of a step, and what follows it.
LEMMA PreviewConsent == ASSUME TerminalInv, R!Preview PROVE TerminalInv'
<1>1. phase = "preview" /\ auto' = auto /\ session = "on" /\ told = "none"
  BY DEF R!Preview, R!Working, TerminalInv, ConsentInv
<1>2. PICK d : \/ Denied(d) /\ R!Ask("preview", d, R!None)
               \/ R!Go("shown", d, R!None)
  BY DEF R!Preview, Denied
<1>3. CASE Denied(d) /\ R!Ask("preview", d, R!None)
  BY <1>1, <1>3, AskConsent
<1>4. CASE R!Go("shown", d, R!None)
  BY <1>1, <1>4, GoConsent
<1>5. QED
  BY <1>2, <1>3, <1>4

LEMMA ShownConsent == ASSUME TerminalInv, R!Shown PROVE TerminalInv'
<1>1. phase = "shown" /\ auto' = auto /\ session = "on" /\ (told = "no" => Denied(shown))
  BY DEF R!Shown, R!Working, TerminalInv, ConsentInv
<1>2. \/ R!Go("refused", shown, R!None)
      \/ R!Ask("confirm", shown, R!None)
      \/ /\ given[at].kind = "run" /\ ~(shown.action = "allow" /\ R!Sensitive(shown))
         /\ R!Go("real", shown, R!None)
  BY DEF R!Shown, R!Line
<1>3. CASE R!Go("refused", shown, R!None)
  BY <1>1, <1>3, GoConsent
<1>4. CASE R!Ask("confirm", shown, R!None)
  BY <1>1, <1>4, AskConsent
<1>5. CASE /\ given[at].kind = "run" /\ ~(shown.action = "allow" /\ R!Sensitive(shown))
           /\ R!Go("real", shown, R!None)
  <2>1. ~Denied(R!None)
    BY DEF Denied, R!None
  <2>2. told = "no" => R!None # shown
    BY <1>1, <2>1
  <2>3. Consented(given[at].kind, shown, told, R!None)
    BY <1>5, <2>1, <2>2 DEF Consented
  <2>4. QED
    BY <1>1, <1>5, <2>3, GoConsent
<1>6. QED
  BY <1>2, <1>3, <1>4, <1>5

\* The same of what an agent calls for.
LEMMA ProposedConsent == ASSUME TerminalInv, R!Rehearse \/ R!Proposed PROVE TerminalInv'
<1>1. /\ phase \in {"preview", "shown"} /\ auto' = auto /\ session = "on"
      /\ phase = "preview" => told = "none"
      /\ phase = "shown" => (told = "no" => Denied(shown))
  BY DEF R!Rehearse, R!Proposed, R!Working, TerminalInv, ConsentInv
<1>2. CASE R!Rehearse
  <2>1. PICK d : phase = "preview" /\ R!Go("shown", d, R!None)
    BY <1>2 DEF R!Rehearse, R!Working
  <2>2. QED
    BY <1>1, <2>1, GoConsent
<1>3. CASE R!Proposed
  <2>1. R!Go("refused", shown, R!None) \/ R!Ask("gate", shown, R!None)
    BY <1>3 DEF R!Proposed
  <2>2. QED
    BY <1>1, <2>1, GoConsent, AskConsent
<1>4. QED
  BY <1>2, <1>3

\* The real run decides anew.
LEMMA RealConsent == ASSUME TerminalInv, R!Real PROVE TerminalInv'
<1>1. /\ phase = "real" /\ auto' = auto /\ session = "on" /\ (told = "no" => Denied(shown))
      /\ Consented(given[at].kind, shown, told, R!None)
  BY DEF R!Real, R!Working, TerminalInv, ConsentInv
<1>2. PICK d : \/ R!Ask("policy", shown, d)
               \/ R!Go("refused", shown, d)
               \/ (Denied(d) => given[at].kind = "ask") /\ R!Go("act", shown, d)
  BY DEF R!Real, R!Line, Denied
<1>3. CASE R!Ask("policy", shown, d)
  BY <1>1, <1>3, AskConsent
<1>4. CASE R!Go("refused", shown, d)
  BY <1>1, <1>4, GoConsent
<1>5. CASE (Denied(d) => given[at].kind = "ask") /\ R!Go("act", shown, d)
  <2>1. Denied(d) => told = "yes"
    BY <1>1, <1>5 DEF Consented
  <2>2. told = "no" => d # shown
    BY <1>1, <2>1
  <2>3. Consented(given[at].kind, shown, told, d)
    BY <1>1, <2>1, <2>2 DEF Consented
  <2>4. QED
    BY <1>1, <1>5, <2>3, GoConsent
<1>6. QED
  BY <1>2, <1>3, <1>4, <1>5

\* The step is run, or was refused.
LEMMA ActConsent == ASSUME TerminalInv, R!Act \/ R!Refused PROVE TerminalInv'
<1>1. /\ phase \in {"act", "refused"} /\ auto' = auto /\ session = "on"
      /\ question' = question /\ (R!Throw \/ \E ok \in BOOLEAN : R!StepDone(ok))
  BY DEF R!Act, R!Refused, R!Working
<1>2. /\ LinesInv' /\ given' = given /\ question' = "none"
      /\ \/ /\ session' = "crashed"
            /\ UNCHANGED <<at, step, phase, shown, told, decided, done>>
         \/ Begins' /\ at' = at /\ step' = step + 1 /\ done' = done
         \/ Begins' /\ done' = done \cup {at}
  BY <1>1, StepDoneTakes, ThrowTakes DEF TerminalInv
<1>3. ConsentInv'
  <2>1. CASE UNCHANGED <<at, step, phase, shown, told, decided, done>>
    BY <1>1, <1>2, <2>1 DEF TerminalInv, ConsentInv, Consented, Denied, R!Auto
  <2>2. CASE Begins'
    BY <1>2, <2>2, BeginsConsent
  <2>3. QED
    BY <1>2, <2>1, <2>2
<1>4. step \in Nat /\ at # 0
  BY <1>1 DEF TerminalInv, LinesInv
<1>5. Onward
  BY <1>1, <1>2, <1>4 DEF Onward
<1>6. PICK a : a = [line |-> at, step |-> step, shown |-> shown, told |-> told,
                    decided |-> decided]
  OBVIOUS
<1>7. acts' = acts \/ (phase = "act" /\ acts' = Append(acts, a))
  BY <1>6 DEF R!Act, R!Refused, R!Working
<1>8. CASE acts' = acts
  <2>1. ActsInv'
    BY <1>2, <1>5, <1>8, ActsStay DEF TerminalInv
  <2>2. QED
    BY <1>2, <1>3, <2>1 DEF TerminalInv
<1>9. CASE phase = "act" /\ acts' = Append(acts, a)
  <2>1. a.line = at /\ a.step = step /\ Consented(given[at].kind, a.shown, a.told, a.decided)
    BY <1>6, <1>9 DEF TerminalInv, ConsentInv
  <2>2. \/ at \in done'
        \/ at' = at /\ (step' = step + 1 \/ (step' = step /\ session' = "crashed"))
    BY <1>2
  <2>3. ActsInv'
    BY <1>1, <1>2, <1>4, <1>5, <1>9, <2>1, <2>2, ActsGrow DEF TerminalInv
  <2>4. QED
    BY <1>2, <1>3, <2>3 DEF TerminalInv
<1>10. QED
  BY <1>7, <1>8, <1>9

\* A line is typed: the answer decides, or nothing of the step at hand changes.
LEMMA TypeConsent ==
  ASSUME TerminalInv, NEW l \in Lines, R!TypeLine(l)
  PROVE  TerminalInv'
<1>1. /\ LinesInv' /\ given' = Append(given, l) /\ question' = "none"
      /\ UNCHANGED <<auto, acts, cleared, done>>
      /\ \/ /\ question # "none" /\ phase' = R!After(question, l.yes)
            /\ told' = (IF l.yes THEN "yes" ELSE "no")
            /\ UNCHANGED <<at, step, shown, decided>>
         \/ question = "none" /\ at = 0 /\ Begins'
         \/ question = "none" /\ UNCHANGED <<at, step, phase, shown, told, decided>>
  BY TypeTakes DEF TerminalInv
<1>2. step \in Nat /\ session = "on" /\ \A k \in 1 .. Len(given) : given'[k] = given[k]
  BY <1>1, GivenStays DEF TerminalInv, LinesInv, R!TypeLine, R!Person
<1>3. Onward
  BY <1>1, <1>2 DEF Onward
<1>4. ActsInv'
  BY <1>1, <1>3, ActsStay DEF TerminalInv
<1>5. ConsentInv'
  <2>1. CASE /\ question # "none" /\ phase' = R!After(question, l.yes)
             /\ told' = (IF l.yes THEN "yes" ELSE "no")
             /\ UNCHANGED <<at, step, shown, decided>>
    <3>1. question \in {"preview", "confirm", "gate", "policy"}
      BY <2>1 DEF TerminalInv, ConsentInv
    <3>2. /\ question = "preview" => Denied(shown)
          /\ phase' \in {"shown", "real", "act", "refused"}
          /\ phase' = "shown" => question = "preview"
          /\ phase' \in {"real", "act"} => told' = "yes"
      BY <2>1, <3>1 DEF R!After, TerminalInv, ConsentInv
    <3>3. QED
      BY <1>1, <2>1, <3>2 DEF ConsentInv, Consented, Denied, R!Auto
  <2>2. CASE question = "none" /\ at = 0 /\ Begins'
    BY <1>1, <2>2, BeginsConsent
  <2>3. CASE question = "none" /\ UNCHANGED <<at, step, phase, shown, told, decided>>
    <3>1. phase # "idle" => given'[at] = given[at]
      <4>1. CASE at = 0
        BY <4>1 DEF TerminalInv, LinesInv
      <4>2. CASE at # 0
        <5>1. at \in 1 .. Len(given)
          BY <4>2 DEF TerminalInv, LinesInv, Placed
        <5>2. QED
          BY <1>2, <5>1
      <4>3. QED
        BY <4>1, <4>2
    <3>2. QED
      BY <1>1, <2>3, <3>1 DEF TerminalInv, ConsentInv, Consented, Denied, R!Auto
  <2>4. QED
    BY <1>1, <2>1, <2>2, <2>3
<1>6. QED
  BY <1>1, <1>4, <1>5 DEF TerminalInv

\* ^C, the end of the input and text not yet given do nothing to the line at hand.
LEMMA BreakConsent ==
  ASSUME TerminalInv, R!Sigint \/ R!EndInput \/ R!TypeText
  PROVE  TerminalInv'
<1>1. /\ LinesInv'
      /\ UNCHANGED <<auto, given, at, step, phase, question, shown, told, decided, done, acts>>
  BY BreakTakes DEF TerminalInv
<1>2. step \in Nat /\ session = "on"
  BY DEF TerminalInv, LinesInv, R!Sigint, R!EndInput, R!TypeText, R!Person
<1>3. Onward
  BY <1>1, <1>2 DEF Onward
<1>4. ActsInv'
  BY <1>1, <1>3, ActsStay DEF TerminalInv
<1>5. ConsentInv'
  BY <1>1 DEF TerminalInv, ConsentInv, Consented, Denied, R!Auto
<1>6. QED
  BY <1>1, <1>4, <1>5 DEF TerminalInv

LEMMA TerminalStep == ASSUME TerminalInv, [R!Next]_(R!vars) PROVE TerminalInv'
<1>1. CASE R!Pass \/ R!Fails
  BY <1>1, EndConsent
<1>2. CASE R!Preview
  BY <1>2, PreviewConsent
<1>3. CASE R!Shown \/ R!Rehearse \/ R!Proposed
  BY <1>3, ShownConsent, ProposedConsent
<1>4. CASE R!Real
  BY <1>4, RealConsent
<1>5. CASE R!Act \/ R!Refused
  BY <1>5, ActConsent
<1>6. CASE R!TypeText \/ R!Sigint \/ R!EndInput
  BY <1>6, BreakConsent
<1>7. ASSUME NEW l \in Lines, R!TypeLine(l) PROVE TerminalInv'
  BY <1>7, TypeConsent
<1>8. CASE UNCHANGED R!vars
  <2>1. UNCHANGED <<auto, given, queue, at, step, phase, question, shown, told, decided, done,
                    acts, answers, cleared, session>>
    BY <1>8 DEF R!vars, R!reading, R!work
  <2>2. LinesInv'
    BY <2>1 DEF TerminalInv, LinesInv
  <2>3. step \in Nat
    BY DEF TerminalInv, LinesInv
  <2>4. Onward
    BY <2>1, <2>3 DEF Onward
  <2>5. ActsInv'
    BY <2>1, <2>2, <2>4, ActsStay DEF TerminalInv
  <2>6. ConsentInv'
    BY <2>1 DEF TerminalInv, ConsentInv, Consented, Denied, R!Auto
  <2>7. QED
    BY <2>2, <2>5, <2>6 DEF TerminalInv
<1>9. QED
  BY <1>1, <1>2, <1>3, <1>4, <1>5, <1>6, <1>7, <1>8 DEF R!Next, R!Work

\* As many lines as may be typed, of whatever steps, whatever the policy decides of each and
\* however it changes its mind.
LEMMA TerminalBehaves == Spec => []TerminalInv
<1>1. R!Init => TerminalInv
  <2>1. SUFFICES ASSUME R!Init PROVE TerminalInv
    OBVIOUS
  <2>2. /\ given = <<>> /\ queue = <<>> /\ at = 0 /\ step = 0 /\ phase = "idle" /\ acts = <<>>
        /\ question = "none" /\ done = {} /\ answers = {} /\ cleared = {}
    BY <2>1 DEF R!Init
  <2>3. Of(queue) = {} /\ Of(acts) = {} /\ Rising(queue) /\ Len(given) = 0
    BY <2>2 DEF Of, Rising
  <2>4. Placed(Len(given), done, answers \cup cleared, Of(queue), at)
    BY <2>2, <2>3 DEF Placed
  <2>5. LinesInv
    BY <2>2, <2>3, <2>4 DEF LinesInv
  <2>6. ConsentInv
    BY <2>2 DEF ConsentInv
  <2>7. ActsInv
    BY <2>2, <2>3 DEF ActsInv
  <2>8. QED
    BY <2>5, <2>6, <2>7 DEF TerminalInv
<1>2. TerminalInv /\ [R!Next]_(R!vars) => TerminalInv'
  BY TerminalStep
<1> QED
  BY <1>1, <1>2, ReplBehaves, PTL DEF R!Spec

\* What is run is what was typed, in the order it was typed, each step once, and neither an
\* answer nor a line that ^C has cleared; no line is handled before an earlier one
\* (terminal.ts: the queue, drain, the line and SIGINT handlers).
THEOREM LinesRunInOrder == Spec => []LinesInOrder
<1>1. TerminalInv => LinesInOrder
  <2>1. SUFFICES ASSUME TerminalInv PROVE R!LinesInOrder
    BY DEF LinesInOrder
  <2>2. \A i, j \in DOMAIN acts : i < j => R!Before(acts[i], acts[j])
    BY <2>1 DEF TerminalInv, ActsInv
  <2>3. ASSUME NEW i \in DOMAIN acts PROVE acts[i].line \notin answers \cup cleared
    <3>1. ActOk(acts[i])
      BY <2>1 DEF TerminalInv, ActsInv, Of
    <3>2. QED
      BY <2>1, <3>1 DEF TerminalInv, LinesInv, Placed, ActOk
  <2>4. ASSUME NEW j \in done, NEW k \in 1 .. j PROVE k \in done \cup answers \cup cleared
    <3>1. /\ Placed(Len(given), done, answers \cup cleared, Of(queue), at)
          /\ Len(given) \in Nat /\ j \in 1 .. Len(given)
      BY <2>1 DEF TerminalInv, LinesInv, Placed
    <3>2. k \in 1 .. Len(given) /\ k <= j
      BY <3>1
    <3>3. k \notin Of(queue)
      BY <3>1, <3>2 DEF Placed
    <3>4. k # at
      BY <3>1, <3>2 DEF Placed
    <3>5. QED
      BY <3>1, <3>2, <3>3, <3>4 DEF Placed
  <2>5. QED
    BY <2>2, <2>3, <2>4 DEF R!LinesInOrder
<1> QED
  BY <1>1, TerminalBehaves, PTL

\* Nothing runs without the consent it needs, and after a last no only what the policy has
\* decided otherwise since (terminal.ts: the approval handler, runWithPreview, the agent's
\* gate).
THEOREM ActsWereApproved == Spec => []ActsAsApproved
<1>1. TerminalInv => ActsAsApproved
  <2>1. SUFFICES ASSUME TerminalInv, NEW i \in DOMAIN acts, NEW a, a = acts[i]
                 PROVE  /\ \/ given[a.line].kind = "ask"
                           \/ /\ a.decided.action = "approval_required"
                              /\ ~(auto /\ a.decided.risk # "CRITICAL")
                           \/ a.shown.action = "allow" /\ R!Sensitive(a.shown)
                           => a.told = "yes"
                        /\ a.told = "no" => a.decided # a.shown
    BY DEF ActsAsApproved, R!ActsAsApproved
  <2>2. ActOk(a)
    BY <2>1 DEF TerminalInv, ActsInv, Of
  <2>3. QED
    BY <2>2 DEF ActOk, Consented, Denied, R!Auto
<1> QED
  BY <1>1, TerminalBehaves, PTL
-----------------------------------------------------------------------------
(* The editor tabs.                                                        *)

\* Nor do the steps of the others touch the editor tabs.
LEMMA EditorBehaves == Spec => E!Spec
<1>1. Init => E!Init
  BY DEF Init
<1>2. [Next]_vars => [E!Next]_(E!vars)
  BY DEF Next, vars, editor, E!vars, E!editing
<1> QED
  BY <1>1, <1>2, PTL DEF Spec, E!Spec

EditorFields == {"file", "text", "clean", "saving", "history", "index", "savedAs"}
MessageFields == {"n", "kind", "tab", "file", "text", "reply"}

\* What may be lost: a file has held it, a person agreed, or it came while an answer was awaited.
Held == written \cup agreed \cup meanwhile

\* A tab's editor: its history leads back from its text, and what counts as saved is held.
TabOK(e, held) ==
    /\ DOMAIN e = EditorFields /\ e.file \in Files
    /\ e.history \in Seq(Int) /\ Len(e.history) <= Depth
    /\ e.index \in 1 .. Len(e.history) /\ e.history[e.index] = e.text
    /\ e.clean \in held

\* A request under way: what its tab shows is what it saves, or may be lost.
RequestOK(m) ==
    /\ DOMAIN m = MessageFields /\ m.kind \in {"open", "save", "reload"} /\ m.file \in Files
    /\ m.n \in 0 .. clicks - 1 /\ m.text \in Int
    /\ m.kind # "open" => m.tab \in E!Used
    /\ m.reply \in {"none", "no", "ok"} /\ (m.reply = "ok" => m.text \in written)
    /\ m.kind = "save" => ed[m.tab].saving /\ ed[m.tab].text \in {m.text} \cup written \cup meanwhile
    /\ m.kind = "reload" => ed[m.tab].text \in Held

IsSave(m, t) == m.kind = "save" /\ m.tab = t

\* Requests are told apart by their click, and saves by their tab.
Apart == \A m, l \in net : m.n = l.n \/ (m.kind = "save" /\ IsSave(l, m.tab)) => m = l
Savers == \A t \in E!Used : ed[t].saving => \E m \in net : IsSave(m, t)
OneEach ==
    \A t, u \in open : t # u /\ ed[t].file = ed[u].file => ed[t].savedAs \/ ed[u].savedAs

EditorOK ==
    /\ clicks \in Nat /\ edits \in Nat /\ written \subseteq Int
    /\ DOMAIN disk = Files /\ \A f \in Files : disk[f] \in written
    /\ DOMAIN ed = E!Tabs /\ open \subseteq E!Used
    /\ \E k \in Nat : E!Used = 1 .. k
    /\ \A t \in E!Used : TabOK(ed[t], Held)
    /\ \A m \in net : RequestOK(m)
    /\ Apart /\ Savers /\ OneEach

\* What a step loses may be lost.
NothingLost ==
    \A t \in open :
      \/ t \notin open'
      \/ ed'[t].text # ed[t].text /\ ed[t].text \notin E!ToSet(ed'[t].history)
      => ed[t].text \in written \cup agreed' \cup meanwhile

\* One tab is given another editor: the tabs used are the same.
LEMMA TabChanges ==
  ASSUME EditorOK, NEW t \in E!Used, NEW y, ed' = [ed EXCEPT ![t] = y], open' \subseteq open,
         Held \subseteq Held', TabOK(y, Held'),
         y.savedAs \/ (y.file = ed[t].file /\ (ed[t].savedAs => y.savedAs))
  PROVE  /\ E!Used' = E!Used /\ DOMAIN ed' = E!Tabs /\ ed'[t] = y
         /\ \A u \in E!Used : u # t => ed'[u] = ed[u]
         /\ \A u \in E!Used : TabOK(ed'[u], Held')
         /\ open' \subseteq E!Used /\ OneEach'
<1>1. t \in E!Tabs /\ DOMAIN ed = E!Tabs /\ open \subseteq E!Used
  BY DEF E!Used, EditorOK
<1>2. y # E!NoEditor
  BY FrontEndsAssumption DEF FrontEndsAssumption, E!EditorAssumption, E!NoEditor, TabOK
<1>3. \A u \in E!Tabs : ed'[u] # E!NoEditor <=> ed[u] # E!NoEditor
  BY <1>1, <1>2 DEF E!Used
<1>4. E!Used' = {u \in E!Tabs : ed'[u] # E!NoEditor}
  BY DEF E!Used, E!Tabs
<1>5. E!Used' = E!Used
  BY <1>3, <1>4 DEF E!Used
<1>6. ed'[t] = y /\ DOMAIN ed' = E!Tabs /\ \A u \in E!Used : u # t => ed'[u] = ed[u]
  BY <1>1 DEF E!Used
<1>7. ASSUME NEW u \in E!Used PROVE TabOK(ed'[u], Held')
  <2>1. TabOK(ed[u], Held')
    BY DEF EditorOK, TabOK
  <2> QED
    BY <1>6, <2>1
<1>8. OneEach'
  BY <1>1, <1>6 DEF EditorOK, OneEach
<1> QED
  BY <1>1, <1>5, <1>6, <1>7, <1>8

\* A request that a step does not change, while what may be lost grows.
LEMMA RequestStays ==
  ASSUME NEW m, RequestOK(m), clicks \in Nat, clicks' \in Nat, clicks <= clicks',
         E!Used \subseteq E!Used', written \subseteq written', Held \subseteq Held',
         meanwhile \subseteq meanwhile',
         m.kind # "open" => /\ ed'[m.tab].saving = ed[m.tab].saving
                            /\ \/ ed'[m.tab].text = ed[m.tab].text
                               \/ ed'[m.tab].text \in written' \cup meanwhile'
  PROVE  RequestOK(m)'
<1>1. m.n \in 0 .. clicks' - 1
  BY DEF RequestOK
<1>2. written' \cup meanwhile' \subseteq Held'
  BY DEF Held
<1> QED
  BY <1>1, <1>2 DEF RequestOK

LEMMA HeldGrows ==
  ASSUME written \subseteq written', agreed \subseteq agreed', meanwhile \subseteq meanwhile'
  PROVE  Held \subseteq Held'
BY DEF Held

\* A request is sent.
LEMMA SentApart ==
  ASSUME EditorOK, NEW x, x.n = clicks, net' = net \cup {x},
         x.kind = "save" => \A m \in net : ~IsSave(m, x.tab)
  PROVE  Apart'
<1>1. \A m \in net : m.n # x.n
  BY DEF EditorOK, RequestOK
<1> QED
  BY <1>1 DEF EditorOK, Apart, IsSave

LEMMA ServeKeeps ==
  ASSUME EditorOK, NEW m \in net, E!Serve(m)
  PROVE  EditorOK' /\ NothingLost
<1>1. /\ UNCHANGED <<ed, open, edits, clicks, agreed, meanwhile>> /\ RequestOK(m)
  BY DEF E!Serve, E!editing, EditorOK
<1>2. PICK x : /\ net' = (net \ {m}) \cup {x}
               /\ \/ x = [m EXCEPT !.reply = "no"] /\ UNCHANGED <<disk, written>>
                  \/ /\ m.kind = "save" /\ x = [m EXCEPT !.reply = "ok"]
                     /\ disk' = [disk EXCEPT ![m.file] = m.text] /\ written' = written \cup {m.text}
                  \/ /\ m.kind # "save" /\ x = [m EXCEPT !.reply = "ok", !.text = disk[m.file]]
                     /\ UNCHANGED <<disk, written>>
  BY DEF E!Serve
<1>3. /\ written \subseteq written' /\ written' \subseteq Int /\ DOMAIN disk' = Files
      /\ \A f \in Files : disk'[f] \in written'
  BY <1>1, <1>2 DEF EditorOK, RequestOK
<1>4. E!Used' = E!Used /\ Held \subseteq Held'
  BY <1>1, <1>3, HeldGrows DEF E!Used, E!Tabs
<1>5. /\ DOMAIN x = MessageFields /\ x.n = m.n /\ x.kind = m.kind /\ x.tab = m.tab
      /\ x.file = m.file /\ x.text \in Int /\ (m.kind = "save" => x.text = m.text)
      /\ x.reply \in {"no", "ok"} /\ (x.reply = "ok" => x.text \in written')
  BY <1>1, <1>2 DEF EditorOK, RequestOK, MessageFields
<1>6. RequestOK(x)'
  BY <1>1, <1>3, <1>4, <1>5 DEF RequestOK, Held
<1>7. \A l \in net' : RequestOK(l)'
  <2>1. ASSUME NEW l \in net PROVE RequestOK(l)'
    BY <1>1, <1>3, <1>4, <2>1, RequestStays DEF EditorOK
  <2> QED
    BY <1>2, <1>6, <2>1
<1>8. Apart' /\ Savers'
  <2>1. \A l \in net' : l.n = m.n \/ (m.kind = "save" /\ IsSave(l, m.tab)) => l = x
    BY <1>2 DEF EditorOK, Apart, IsSave
  <2>2. Apart'
    BY <1>2, <1>5, <2>1 DEF EditorOK, Apart, IsSave
  <2>3. Savers'
    BY <1>1, <1>2, <1>4, <1>5 DEF EditorOK, Savers, IsSave
  <2> QED
    BY <2>2, <2>3
<1>9. \A t \in E!Used : TabOK(ed[t], Held')
  BY <1>4 DEF EditorOK, TabOK
<1>10. EditorOK'
  BY <1>1, <1>3, <1>4, <1>7, <1>8, <1>9 DEF EditorOK, OneEach
<1> QED
  BY <1>1, <1>10 DEF NothingLost

\* A text that was typed, undone or redone is shown.
LEMMA ShowKeeps ==
  ASSUME EditorOK, NEW t \in open, NEW new, NEW h, NEW i, E!Show(t, new, h, i),
         edits' \in Nat, h \in Seq(Int), Len(h) <= Depth, i \in 1 .. Len(h), h[i] = new,
         ed[t].text \in E!ToSet(h)
  PROVE  EditorOK' /\ NothingLost
<1>1. PICK y : y = [ed[t] EXCEPT !.text = new, !.history = h, !.index = i]
  OBVIOUS
<1>2. t \in E!Used /\ TabOK(ed[t], Held)
  BY DEF EditorOK
<1>3. /\ DOMAIN y = EditorFields /\ y.file = ed[t].file /\ y.text = new /\ y.history = h
      /\ y.index = i /\ y.clean = ed[t].clean /\ y.saving = ed[t].saving
      /\ y.savedAs = ed[t].savedAs
  BY <1>1, <1>2 DEF TabOK, EditorFields
<1>4. /\ UNCHANGED <<disk, written, open, net, clicks, agreed>>
      /\ meanwhile' = IF E!Waiting(t) THEN meanwhile \cup {new} ELSE meanwhile
      /\ ed' = [ed EXCEPT ![t] = y]
  BY <1>1, <1>2 DEF E!Show, TabOK, EditorFields
<1>5. meanwhile \subseteq meanwhile' /\ Held \subseteq Held'
  BY <1>4, HeldGrows
<1>6. TabOK(y, Held')
  BY <1>2, <1>3, <1>5 DEF TabOK
<1>7. /\ E!Used' = E!Used /\ DOMAIN ed' = E!Tabs /\ ed'[t] = y
      /\ \A u \in E!Used : u # t => ed'[u] = ed[u]
      /\ \A u \in E!Used : TabOK(ed'[u], Held')
      /\ open' \subseteq E!Used /\ OneEach'
  BY <1>2, <1>3, <1>4, <1>5, <1>6, TabChanges
<1>8. ASSUME NEW m \in net PROVE RequestOK(m)'
  <2>1. m.tab = t => new \in meanwhile'
    BY <1>4 DEF E!Waiting
  <2>2. RequestOK(m) /\ (m.kind # "open" => m.tab \in E!Used)
    BY DEF EditorOK, RequestOK
  <2>3. m.kind # "open" => /\ ed'[m.tab].saving = ed[m.tab].saving
                           /\ \/ ed'[m.tab].text = ed[m.tab].text
                              \/ ed'[m.tab].text \in written' \cup meanwhile'
    BY <1>3, <1>7, <2>1, <2>2
  <2> QED
    BY <1>4, <1>5, <1>7, <2>2, <2>3, RequestStays DEF EditorOK
<1>9. Apart' /\ Savers'
  BY <1>2, <1>3, <1>4, <1>7 DEF EditorOK, Apart, Savers, IsSave
<1>10. EditorOK'
  BY <1>4, <1>7, <1>8, <1>9 DEF EditorOK
<1>11. NothingLost
  <2>1. ASSUME NEW u \in open PROVE u \in open' /\ (u # t => ed'[u] = ed[u])
    BY <1>4, <1>7 DEF EditorOK
  <2>2. ed[t].text \in E!ToSet(ed'[t].history)
    BY <1>3, <1>7
  <2> QED
    BY <2>1, <2>2 DEF NothingLost
<1> QED
  BY <1>10, <1>11

\* An edit is behind the text it was made to, in a history no deeper than it may be.
LEMMA EditKeeps ==
  ASSUME EditorOK, NEW t \in E!Tabs, E!Edit(t)
  PROVE  EditorOK' /\ NothingLost
<1>1. PICK h, s, i, new : /\ h = E!Recorded(t, new) /\ s = ed[t].history /\ i = ed[t].index
                          /\ new = edits'
  OBVIOUS
<1>2. /\ t \in open /\ new = edits + 1 /\ edits' \in Nat /\ new \in Int
      /\ E!Show(t, new, h, Len(h))
  BY <1>1 DEF E!Edit, EditorOK
<1>3. TabOK(ed[t], Held)
  BY <1>2 DEF EditorOK
<1>4. /\ s \in Seq(Int) /\ Len(s) <= Depth /\ i \in 1 .. Len(s) /\ s[i] = ed[t].text
      /\ Len(s) \in Nat
  BY <1>1, <1>3 DEF TabOK
<1>5. Depth \in Nat /\ Depth >= 2
  BY FrontEndsAssumption DEF FrontEndsAssumption, E!EditorAssumption
<1>6. PICK p, g : p = SubSeq(s, 1, i) /\ g = Append(p, new)
  OBVIOUS
<1>7. p \in Seq(Int) /\ Len(p) = i /\ p[i] = s[i]
  BY <1>4, <1>6
<1>8. g \in Seq(Int) /\ Len(g) = i + 1 /\ g[i] = s[i] /\ g[i + 1] = new
  BY <1>2, <1>4, <1>6, <1>7
<1>9. h = IF i + 1 > Depth THEN Tail(g) ELSE g
  BY <1>1, <1>6, <1>8 DEF E!Recorded
<1>10. /\ h \in Seq(Int) /\ Len(h) <= Depth /\ Len(h) \in 1 .. Len(h) /\ h[Len(h)] = new
       /\ s[i] \in E!ToSet(h)
  <2>1. CASE i + 1 > Depth
    <3>1. /\ h = Tail(g) /\ h \in Seq(Int) /\ Len(h) = i
          /\ \A j \in 1 .. i : h[j] = g[j + 1]
      BY <1>4, <1>8, <1>9, <2>1
    <3>2. i - 1 \in 1 .. i /\ i \in 1 .. i
      BY <1>4, <1>5, <2>1
    <3>3. h[i - 1] = s[i] /\ h[i] = new
      BY <1>4, <1>8, <3>1, <3>2
    <3>4. i - 1 \in DOMAIN h
      BY <3>1, <3>2
    <3>5. s[i] \in E!ToSet(h)
      BY <3>3, <3>4 DEF E!ToSet
    <3>6. i = Depth /\ i \in Nat
      BY <1>4, <1>5, <2>1
    <3> QED
      BY <3>1, <3>2, <3>3, <3>5, <3>6
  <2>2. CASE ~(i + 1 > Depth)
    <3>1. h = g /\ i \in DOMAIN g
      BY <1>4, <1>8, <1>9, <2>2
    <3>2. s[i] \in E!ToSet(h)
      BY <1>8, <3>1 DEF E!ToSet
    <3>3. i + 1 <= Depth /\ i + 1 \in 1 .. i + 1
      BY <1>4, <1>5, <2>2
    <3> QED
      BY <1>8, <3>1, <3>2, <3>3
  <2> QED
    BY <2>1, <2>2
<1> QED
  BY <1>2, <1>4, <1>10, ShowKeeps

LEMMA StepKeeps ==
  ASSUME EditorOK, NEW t \in E!Tabs, NEW i, E!Step(t, i)
  PROVE  EditorOK' /\ NothingLost
<1>1. PICK h : h = ed[t].history
  OBVIOUS
<1>2. /\ t \in open /\ i \in DOMAIN h /\ E!Show(t, h[i], h, i) /\ edits' = edits
  BY <1>1 DEF E!Step
<1>3. TabOK(ed[t], Held)
  BY <1>2 DEF EditorOK
<1>4. h \in Seq(Int) /\ Len(h) <= Depth /\ i \in 1 .. Len(h) /\ ed[t].text \in E!ToSet(h)
  BY <1>1, <1>2, <1>3 DEF TabOK, E!ToSet
<1>5. edits' \in Nat
  BY <1>2 DEF EditorOK
<1>6. PICK new : new = h[i]
  OBVIOUS
<1> QED
  BY <1>2, <1>4, <1>5, <1>6, ShowKeeps

\* A save is asked for, of what the tab shows.
LEMMA SaveKeeps ==
  ASSUME EditorOK, NEW t \in E!Tabs, NEW f \in Files, E!Save(t, f)
  PROVE  EditorOK' /\ NothingLost
<1>1. PICK x, y : /\ x = [n |-> clicks, kind |-> "save", tab |-> t, file |-> f, text |-> ed[t].text,
                          reply |-> "none"]
                  /\ y = [ed[t] EXCEPT !.saving = TRUE]
  OBVIOUS
<1>2. /\ UNCHANGED <<disk, written, open, edits, agreed, meanwhile>>
      /\ t \in open /\ ~ed[t].saving /\ clicks' = clicks + 1
      /\ net' = net \cup {x} /\ ed' = [ed EXCEPT ![t] = y]
  BY <1>1 DEF E!Save, E!Send
<1>3. t \in E!Used /\ TabOK(ed[t], Held) /\ ed[t].text \in Int /\ Held' = Held
  BY <1>2 DEF EditorOK, TabOK, Held
<1>4. /\ DOMAIN y = EditorFields /\ y.file = ed[t].file /\ y.text = ed[t].text
      /\ y.history = ed[t].history /\ y.index = ed[t].index /\ y.clean = ed[t].clean
      /\ y.saving = TRUE /\ y.savedAs = ed[t].savedAs
  BY <1>1, <1>3 DEF TabOK, EditorFields
<1>5. TabOK(y, Held')
  BY <1>3, <1>4 DEF TabOK
<1>6. /\ E!Used' = E!Used /\ DOMAIN ed' = E!Tabs /\ ed'[t] = y
      /\ \A u \in E!Used : u # t => ed'[u] = ed[u]
      /\ \A u \in E!Used : TabOK(ed'[u], Held')
      /\ open' \subseteq E!Used /\ OneEach'
  BY <1>2, <1>3, <1>4, <1>5, TabChanges
<1>7. \A m \in net : ~IsSave(m, t)
  BY <1>2 DEF EditorOK, RequestOK, IsSave
<1>8. ASSUME NEW m \in net PROVE RequestOK(m)'
  <2>1. RequestOK(m) /\ (m.kind # "open" => m.tab \in E!Used) /\ clicks \in Nat
    BY DEF EditorOK, RequestOK
  <2>2. m.kind = "save" => m.tab # t
    BY <1>7 DEF IsSave
  <2>3. m.kind # "open" => ed'[m.tab].text = ed[m.tab].text
    BY <1>4, <1>6, <2>1
  <2>4. m.kind = "save" => ed'[m.tab].saving
    BY <1>6, <2>1, <2>2 DEF RequestOK
  <2>5. m.n \in 0 .. clicks' - 1
    BY <1>2, <2>1 DEF RequestOK
  <2> QED
    BY <1>2, <1>3, <1>6, <2>1, <2>3, <2>4, <2>5 DEF RequestOK
<1>9. RequestOK(x)'
  <2>1. clicks \in Nat /\ clicks' \in Nat /\ clicks \in 0 .. clicks' - 1
    BY <1>2 DEF EditorOK
  <2>2. /\ DOMAIN x = MessageFields /\ x.n = clicks /\ x.kind = "save" /\ x.tab = t
        /\ x.file = f /\ x.text = ed[t].text /\ x.reply = "none"
    BY <1>1 DEF MessageFields
  <2> QED
    BY <1>3, <1>4, <1>6, <2>1, <2>2 DEF RequestOK
<1>10. x.n = clicks /\ x.kind = "save" /\ x.tab = t
  BY <1>1
<1>11. Apart'
  BY <1>2, <1>7, <1>10, SentApart
<1>12. Savers'
  BY <1>2, <1>6, <1>10 DEF EditorOK, Savers, IsSave
<1>13. EditorOK'
  BY <1>2, <1>6, <1>8, <1>9, <1>11, <1>12 DEF EditorOK
<1>14. NothingLost
  BY <1>2, <1>4, <1>6 DEF NothingLost, EditorOK
<1> QED
  BY <1>13, <1>14

\* An open or a reload is asked for, the reload with a yes to what it replaces, or a tab is closed
\* with such a yes; all editors stay as they are.
LEMMA AskKeeps ==
  ASSUME EditorOK, UNCHANGED <<disk, written, ed, edits, meanwhile>>, open' \subseteq open,
         agreed \subseteq agreed',
         \A t \in open : t \notin open' => ed[t].text \in Held',
         \/ UNCHANGED <<net, clicks>>
         \/ /\ clicks' = clicks + 1
            /\ \E x : /\ net' = net \cup {x} /\ DOMAIN x = MessageFields
                      /\ x.n = clicks /\ x.file \in Files /\ x.text \in Int /\ x.reply = "none"
                      /\ x.kind = "open" \/ (x.kind = "reload" /\ x.tab \in E!Used
                                             /\ ed[x.tab].text \in Held')
  PROVE  EditorOK' /\ NothingLost
<1>1. E!Used' = E!Used /\ Held \subseteq Held' /\ clicks \in Nat /\ clicks' \in Nat
      /\ clicks <= clicks'
  BY HeldGrows DEF E!Used, E!Tabs, EditorOK
<1>2. \A m \in net : RequestOK(m)'
  BY <1>1, RequestStays DEF EditorOK
<1>3. \A t \in E!Used : TabOK(ed[t], Held')
  BY <1>1 DEF EditorOK, TabOK
<1>4. OneEach'
  BY DEF EditorOK, OneEach
<1>5. Savers' /\ Apart' /\ \A m \in net' : RequestOK(m)'
  <2>1. CASE UNCHANGED <<net, clicks>>
    BY <1>1, <1>2, <2>1 DEF EditorOK, Savers, Apart
  <2>2. CASE /\ clicks' = clicks + 1
             /\ \E x : /\ net' = net \cup {x} /\ DOMAIN x = MessageFields
                       /\ x.n = clicks /\ x.file \in Files /\ x.text \in Int /\ x.reply = "none"
                       /\ x.kind = "open" \/ (x.kind = "reload" /\ x.tab \in E!Used
                                              /\ ed[x.tab].text \in Held')
    <3>1. PICK x : /\ net' = net \cup {x} /\ DOMAIN x = MessageFields
                   /\ x.n = clicks /\ x.file \in Files /\ x.text \in Int /\ x.reply = "none"
                   /\ x.kind = "open" \/ (x.kind = "reload" /\ x.tab \in E!Used
                                          /\ ed[x.tab].text \in Held')
      BY <2>2
    <3>2. clicks \in 0 .. clicks' - 1
      BY <1>1, <2>2
    <3>3. RequestOK(x)'
      BY <1>1, <3>1, <3>2 DEF RequestOK
    <3>4. Apart'
      BY <3>1, SentApart
    <3>5. Savers'
      BY <1>1, <3>1 DEF EditorOK, Savers
    <3> QED
      BY <1>2, <3>1, <3>3, <3>4, <3>5
  <2> QED
    BY <2>1, <2>2
<1>6. EditorOK'
  BY <1>1, <1>3, <1>4, <1>5 DEF EditorOK
<1>7. NothingLost
  BY DEF NothingLost, Held
<1> QED
  BY <1>6, <1>7

LEMMA OpenReloadClose ==
  ASSUME EditorOK,
         \/ \E f \in Files : E!Open(f)
         \/ \E t \in E!Tabs : E!Reload(t) \/ E!Close(t)
  PROVE  EditorOK' /\ NothingLost
<1>1. 0 \in Int
  OBVIOUS
<1>2. ASSUME NEW kind, NEW t, NEW f \in Files
      PROVE  /\ DOMAIN [n |-> clicks, kind |-> kind, tab |-> t, file |-> f, text |-> 0,
                        reply |-> "none"] = MessageFields
  BY DEF MessageFields
<1>3. ASSUME NEW f \in Files, E!Open(f) PROVE EditorOK' /\ NothingLost
  <2>1. PICK x : x = [n |-> clicks, kind |-> "open", tab |-> 0, file |-> f, text |-> 0,
                      reply |-> "none"]
    OBVIOUS
  <2>2. /\ DOMAIN x = MessageFields /\ x.n = clicks /\ x.file \in Files /\ x.text \in Int
        /\ x.reply = "none" /\ x.kind = "open"
    BY <1>2, <2>1
  <2>3. /\ UNCHANGED <<disk, written, ed, edits, meanwhile, open, agreed>>
        /\ clicks' = clicks + 1 /\ net' = net \cup {x}
    BY <1>3, <2>1 DEF E!Open, E!Send
  <2> QED
    BY <2>2, <2>3, AskKeeps
<1>4. ASSUME NEW t \in E!Tabs, t \in open,
             agreed' = IF E!Dirty(t) THEN agreed \cup {ed[t].text} ELSE agreed,
             UNCHANGED <<written, meanwhile>>
      PROVE  agreed \subseteq agreed' /\ ed[t].text \in Held' /\ t \in E!Used /\ ed[t].file \in Files
  <2>1. TabOK(ed[t], Held) /\ t \in E!Used
    BY <1>4 DEF EditorOK
  <2> QED
    BY <1>4, <2>1 DEF E!Dirty, TabOK, Held
<1>5. ASSUME NEW t \in E!Tabs, E!Reload(t) PROVE EditorOK' /\ NothingLost
  <2>1. PICK x : x = [n |-> clicks, kind |-> "reload", tab |-> t, file |-> ed[t].file, text |-> 0,
                      reply |-> "none"]
    OBVIOUS
  <2>2. /\ UNCHANGED <<disk, written, ed, edits, meanwhile, open>>
        /\ agreed' = IF E!Dirty(t) THEN agreed \cup {ed[t].text} ELSE agreed
        /\ clicks' = clicks + 1 /\ net' = net \cup {x} /\ t \in open
    BY <1>5, <2>1 DEF E!Reload, E!Send
  <2>3. agreed \subseteq agreed' /\ ed[t].text \in Held' /\ t \in E!Used /\ ed[t].file \in Files
    BY <1>4, <2>2
  <2>4. /\ DOMAIN x = MessageFields /\ x.n = clicks /\ x.file \in Files /\ x.text \in Int
        /\ x.reply = "none" /\ x.kind = "reload" /\ x.tab = t
    BY <2>1, <2>3 DEF MessageFields
  <2> QED
    BY <2>2, <2>3, <2>4, AskKeeps
<1>6. ASSUME NEW t \in E!Tabs, E!Close(t) PROVE EditorOK' /\ NothingLost
  <2>1. /\ UNCHANGED <<disk, written, ed, edits, meanwhile, net, clicks>>
        /\ agreed' = IF E!Dirty(t) THEN agreed \cup {ed[t].text} ELSE agreed
        /\ t \in open /\ open' = open \ {t}
    BY <1>6 DEF E!Close
  <2>2. agreed \subseteq agreed' /\ ed[t].text \in Held'
    BY <1>4, <2>1
  <2> QED
    BY <2>1, <2>2, AskKeeps
<1> QED
  BY <1>3, <1>5, <1>6

\* An answer is taken, and the tab it is for is given another editor.
LEMMA AnswerKeeps ==
  ASSUME EditorOK, NEW m \in net, m.kind # "open", NEW y,
         UNCHANGED <<disk, written, open, edits, clicks, agreed, meanwhile>>,
         net' = net \ {m}, ed' = [ed EXCEPT ![m.tab] = y], TabOK(y, Held),
         y.saving = IF m.kind = "save" THEN FALSE ELSE ed[m.tab].saving,
         y.text = ed[m.tab].text \/ (m.kind = "reload" /\ y.text \in written),
         y.savedAs \/ (y.file = ed[m.tab].file /\ (ed[m.tab].savedAs => y.savedAs))
  PROVE  EditorOK' /\ NothingLost
<1>1. PICK t : t = m.tab
  OBVIOUS
<1>2. RequestOK(m) /\ t \in E!Used /\ Held' = Held
  BY <1>1 DEF EditorOK, RequestOK, Held
<1>3. /\ E!Used' = E!Used /\ DOMAIN ed' = E!Tabs /\ ed'[t] = y
      /\ \A u \in E!Used : u # t => ed'[u] = ed[u]
      /\ \A u \in E!Used : TabOK(ed'[u], Held')
      /\ open' \subseteq E!Used /\ OneEach'
  BY <1>1, <1>2, TabChanges
<1>4. ASSUME NEW l \in net' PROVE RequestOK(l)'
  <2>1. RequestOK(l) /\ l \in net /\ l # m /\ (l.kind # "open" => l.tab \in E!Used)
    BY DEF EditorOK, RequestOK
  <2>2. m.kind = "save" /\ l.kind = "save" => l.tab # t
    BY <1>1, <2>1 DEF EditorOK, Apart, IsSave
  <2>3. l.kind # "open" => \/ ed'[l.tab].text = ed[l.tab].text
                           \/ ed'[l.tab].text \in written
    BY <1>1, <1>3, <2>1
  <2>4. l.kind = "save" => ed'[l.tab].saving = ed[l.tab].saving
    BY <1>1, <1>3, <2>1, <2>2 DEF RequestOK
  <2> QED
    BY <1>2, <1>3, <2>1, <2>3, <2>4 DEF RequestOK, Held
<1>5. Apart'
  BY DEF EditorOK, Apart
<1>6. Savers'
  <2>1. ASSUME NEW u \in E!Used, ed'[u].saving PROVE \E l \in net' : IsSave(l, u)
    <3>1. PICK l \in net : IsSave(l, u)
      BY <1>1, <1>3, <2>1 DEF EditorOK, Savers
    <3>2. l # m
      BY <1>1, <1>3, <2>1, <3>1 DEF IsSave
    <3> QED
      BY <3>1, <3>2
  <2> QED
    BY <1>3, <2>1 DEF Savers
<1>7. EditorOK'
  BY <1>3, <1>4, <1>5, <1>6 DEF EditorOK
<1>8. NothingLost
  <2>1. ASSUME NEW u \in open, ed'[u].text # ed[u].text PROVE ed[u].text \in Held
    <3>1. u = t /\ m.kind = "reload"
      BY <1>1, <1>3, <2>1 DEF EditorOK
    <3> QED
      BY <1>1, <1>2, <3>1 DEF RequestOK
  <2> QED
    BY <2>1 DEF NothingLost, Held
<1> QED
  BY <1>7, <1>8

\* An answer that changes no tab is taken.
LEMMA AnswerIgnored ==
  ASSUME EditorOK, NEW m \in net, m.kind # "save", net' = net \ {m},
         UNCHANGED <<disk, written, ed, open, edits, clicks, agreed, meanwhile>>
  PROVE  EditorOK' /\ NothingLost
<1>1. E!Used' = E!Used /\ Held' = Held
  BY DEF E!Used, E!Tabs, Held
<1>2. \A l \in net' : RequestOK(l)'
  BY <1>1 DEF EditorOK, RequestOK
<1>3. Apart' /\ Savers'
  BY <1>1 DEF EditorOK, Apart, Savers, IsSave
<1>4. EditorOK'
  BY <1>1, <1>2, <1>3 DEF EditorOK, OneEach
<1>5. NothingLost
  BY DEF NothingLost
<1> QED
  BY <1>4, <1>5

\* A file is opened in the next tab.
LEMMA OpenedKeeps ==
  ASSUME EditorOK, NEW m \in net, E!Opened(m), net' = net \ {m}, m.reply # "none",
         UNCHANGED <<disk, written, edits, clicks, agreed, meanwhile>>
  PROVE  EditorOK' /\ NothingLost
<1>1. m.kind = "open" /\ RequestOK(m) /\ Held' = Held
  BY DEF E!Opened, EditorOK, Held
<1>2. Apart'
  BY DEF EditorOK, Apart
<1>3. CASE UNCHANGED <<ed, open>>
  BY <1>1, <1>3, AnswerIgnored
<1>4. CASE ~UNCHANGED <<ed, open>>
  <2>1. PICK k \in Nat : E!Used = 1 .. k
    BY DEF EditorOK
  <2>2. E!Cardinality(E!Used) = k
    <3>1. E!Cardinality(E!Used) = Cardinality(E!Used)
      BY DEF E!Cardinality, Cardinality
    <3>2. Cardinality(1 .. k) = k
      BY <2>1, FS_Interval
    <3> QED
      BY <2>1, <3>1, <3>2
  <2>3. PICK t, y : /\ t = k + 1
                    /\ y = [E!NoEditor EXCEPT !.file = m.file, !.text = m.text,
                                             !.clean = m.text, !.history = <<m.text>>]
    OBVIOUS
  <2>4. /\ m.reply # "no" /\ \A u \in open : ed[u].file # m.file
        /\ t \in E!Tabs /\ ed' = [ed EXCEPT ![t] = y] /\ open' = open \cup {t}
    BY <1>4, <2>2, <2>3 DEF E!Opened
  <2>5. m.text \in written /\ m.text \in Int
    BY <1>1, <2>4 DEF RequestOK
  <2>6. /\ DOMAIN y = EditorFields /\ y.file = m.file /\ y.text = m.text /\ y.clean = m.text
        /\ y.history = <<m.text>> /\ y.index = 1 /\ y.saving = FALSE /\ y.savedAs = FALSE
    BY <2>3 DEF E!NoEditor, EditorFields
  <2>7. TabOK(y, Held)
    <3>1. y.history \in Seq(Int) /\ Len(y.history) = 1 /\ y.history[1] = m.text
      BY <2>5, <2>6
    <3>2. Depth >= 1
      BY FrontEndsAssumption DEF FrontEndsAssumption, E!EditorAssumption
    <3>3. 1 \in 1 .. 1 /\ Depth \in Nat
      BY FrontEndsAssumption DEF FrontEndsAssumption, E!EditorAssumption
    <3> QED
      BY <1>1, <2>5, <2>6, <3>1, <3>2, <3>3 DEF TabOK, RequestOK, Held
  <2>8. y # E!NoEditor
    BY <1>1, <2>6, FrontEndsAssumption
       DEF FrontEndsAssumption, E!EditorAssumption, E!NoEditor, RequestOK
  <2>9. t \notin E!Used /\ E!Used \cup {t} = 1 .. k + 1
    BY <2>1, <2>3
  <2>10. /\ DOMAIN ed' = E!Tabs /\ ed'[t] = y /\ \A u \in E!Tabs : u # t => ed'[u] = ed[u]
    BY <2>4 DEF EditorOK
  <2>11. E!Used' = E!Used \cup {t}
    <3>1. E!Used' = {u \in E!Tabs : ed'[u] # E!NoEditor}
      BY DEF E!Used, E!Tabs
    <3> QED
      BY <2>4, <2>8, <2>10, <3>1 DEF E!Used
  <2>12. \A u \in E!Used : u \in E!Tabs /\ u # t /\ ed'[u] = ed[u]
    BY <2>9, <2>10 DEF E!Used
  <2>13. \A u \in E!Used' : TabOK(ed'[u], Held')
    BY <1>1, <2>7, <2>10, <2>11, <2>12 DEF EditorOK
  <2>14. \A l \in net' : RequestOK(l)'
    BY <1>1, <2>11, <2>12 DEF EditorOK, RequestOK
  <2>15. Savers'
    BY <1>1, <2>6, <2>10, <2>11, <2>12 DEF EditorOK, Savers, IsSave
  <2>16. OneEach' /\ open' \subseteq E!Used'
    <3>1. open \subseteq E!Used /\ t \notin open
      BY <2>9 DEF EditorOK
    <3>2. ASSUME NEW u \in open', NEW v \in open', u # v, ed'[u].file = ed'[v].file
          PROVE  ed'[u].savedAs \/ ed'[v].savedAs
      <4>1. \A w \in open : ed'[w] = ed[w] /\ ed[w].file # m.file
        BY <2>4, <2>12, <3>1
      <4>2. u \in open /\ v \in open
        BY <2>4, <2>6, <2>10, <3>2, <4>1
      <4> QED
        BY <3>2, <4>1, <4>2 DEF EditorOK, OneEach
    <3> QED
      BY <2>4, <2>11, <3>1, <3>2 DEF OneEach
  <2>17. \E j \in Nat : E!Used' = 1 .. j
    BY <2>1, <2>9, <2>11
  <2>18. EditorOK'
    BY <1>1, <1>2, <2>10, <2>13, <2>14, <2>15, <2>16, <2>17 DEF EditorOK
  <2>19. NothingLost
    BY <2>4, <2>12 DEF EditorOK, NothingLost
  <2> QED
    BY <2>18, <2>19
<1> QED
  BY <1>3, <1>4

LEMMA ReplyKeeps ==
  ASSUME EditorOK, NEW m \in net, E!Reply(m)
  PROVE  EditorOK' /\ NothingLost
<1>1. /\ m.reply # "none" /\ net' = net \ {m} /\ RequestOK(m)
      /\ UNCHANGED <<disk, written, edits, clicks, agreed, meanwhile>>
  BY DEF E!Reply, EditorOK
<1>2. PICK e : e = ed[m.tab]
  OBVIOUS
<1>3. ASSUME m.kind # "open" PROVE m.tab \in E!Used /\ TabOK(e, Held)
  BY <1>1, <1>2, <1>3 DEF RequestOK, EditorOK
<1>4. CASE E!Opened(m)
  BY <1>1, <1>4, OpenedKeeps
<1>5. CASE E!Saved(m)
  <2>1. m.kind = "save" /\ m.kind # "open" /\ open' = open
    BY <1>5 DEF E!Saved
  <2>2. PICK z : z = [e EXCEPT !.saving = FALSE]
    OBVIOUS
  <2>3. PICK y : y = IF m.reply = "no" THEN z
                     ELSE [z EXCEPT !.file = m.file, !.clean = z.text,
                                    !.savedAs = @ \/ m.file # z.file]
    OBVIOUS
  <2>4. ed' = [ed EXCEPT ![m.tab] = y]
    BY <1>2, <1>5, <2>2, <2>3 DEF E!Saved
  <2>5. /\ DOMAIN z = EditorFields /\ z.file = e.file /\ z.text = e.text /\ z.history = e.history
        /\ z.index = e.index /\ z.clean = e.clean /\ z.saving = FALSE /\ z.savedAs = e.savedAs
    BY <1>3, <2>1, <2>2 DEF TabOK, EditorFields
  <2>6. /\ DOMAIN y = EditorFields /\ y.text = e.text /\ y.history = e.history /\ y.index = e.index
        /\ y.saving = FALSE
        /\ \/ y.file = e.file /\ y.clean = e.clean /\ y.savedAs = e.savedAs
           \/ /\ m.reply # "no" /\ y.file = m.file /\ y.clean = e.text
              /\ (e.savedAs \/ m.file # e.file => y.savedAs)
    BY <2>3, <2>5 DEF EditorFields
  <2>7. m.reply # "no" => e.text \in Held
    BY <1>1, <1>2, <2>1 DEF RequestOK, Held
  <2>8. TabOK(y, Held)
    BY <1>1, <1>3, <2>1, <2>6, <2>7 DEF TabOK, RequestOK
  <2>9. y.savedAs \/ (y.file = e.file /\ (e.savedAs => y.savedAs))
    BY <2>6
  <2> QED
    BY <1>1, <1>2, <2>1, <2>4, <2>6, <2>8, <2>9, AnswerKeeps
<1>6. CASE E!Reloaded(m)
  <2>1. m.kind = "reload" /\ m.kind # "open" /\ open' = open
    BY <1>6 DEF E!Reloaded
  <2>2. CASE m.reply = "no"
    <3>1. ed' = ed
      BY <1>6, <2>2 DEF E!Reloaded
    <3> QED
      BY <1>1, <2>1, <3>1, AnswerIgnored
  <2>3. CASE m.reply # "no"
    <3>1. PICK y : y = [e EXCEPT !.text = m.text, !.clean = m.text,
                                 !.history = <<m.text>>, !.index = 1]
      OBVIOUS
    <3>2. ed' = [ed EXCEPT ![m.tab] = y]
      BY <1>2, <1>6, <2>3, <3>1 DEF E!Reloaded
    <3>3. m.text \in written /\ m.text \in Int
      BY <1>1, <2>3 DEF RequestOK
    <3>4. /\ DOMAIN y = EditorFields /\ y.file = e.file /\ y.text = m.text /\ y.clean = m.text
          /\ y.history = <<m.text>> /\ y.index = 1 /\ y.saving = e.saving /\ y.savedAs = e.savedAs
      BY <1>3, <2>1, <3>1 DEF TabOK, EditorFields
    <3>5. TabOK(y, Held)
      <4>1. y.history \in Seq(Int) /\ Len(y.history) = 1 /\ y.history[1] = m.text
        BY <3>3, <3>4
      <4>2. Depth >= 1 /\ 1 \in 1 .. 1 /\ Depth \in Nat
        BY FrontEndsAssumption DEF FrontEndsAssumption, E!EditorAssumption
      <4> QED
        BY <1>3, <2>1, <3>3, <3>4, <4>1, <4>2 DEF TabOK, Held
    <3> QED
      BY <1>1, <1>2, <2>1, <3>2, <3>3, <3>4, <3>5, AnswerKeeps
  <2> QED
    BY <2>2, <2>3
<1> QED
  BY <1>4, <1>5, <1>6 DEF E!Reply

\* A step of the editor tabs loses nothing.
LEMMA EditorStep ==
  ASSUME EditorOK, [E!Next]_(E!vars)
  PROVE  EditorOK' /\ NothingLost
<1>1. CASE \E m \in net : E!Serve(m)
  BY <1>1, ServeKeeps
<1>2. CASE \E m \in net : E!Reply(m)
  BY <1>2, ReplyKeeps
<1>3. CASE \/ \E f \in Files : E!Open(f)
           \/ \E t \in E!Tabs : E!Reload(t) \/ E!Close(t)
  BY <1>3, OpenReloadClose
<1>4. CASE \E t \in E!Tabs : E!Edit(t)
  BY <1>4, EditKeeps
<1>5. CASE \E t \in E!Tabs : \E f \in Files : E!Save(t, f)
  BY <1>5, SaveKeeps
<1>6. CASE \E t \in E!Tabs : E!Step(t, ed[t].index - 1) \/ E!Step(t, ed[t].index + 1)
  BY <1>6, StepKeeps
<1>7. CASE UNCHANGED E!vars
  <2>1. UNCHANGED <<disk, ed, open, net, edits, clicks, written, agreed, meanwhile>>
    BY <1>7 DEF E!vars, E!editing
  <2>2. E!Used' = E!Used /\ Held' = Held
    BY <2>1 DEF E!Used, E!Tabs, Held
  <2>3. \A m \in net : RequestOK(m)'
    BY <2>1, <2>2 DEF EditorOK, RequestOK
  <2>4. EditorOK'
    BY <2>1, <2>2, <2>3 DEF EditorOK, Apart, Savers, IsSave, OneEach
  <2>5. NothingLost
    BY <2>1 DEF NothingLost
  <2> QED
    BY <2>4, <2>5
<1> QED
  BY <1>1, <1>2, <1>3, <1>4, <1>5, <1>6, <1>7 DEF E!Next

LEMMA EditorStarts ==
  ASSUME E!Init
  PROVE  EditorOK
<1>1. E!Used = {}
  BY DEF E!Init, E!Used
<1>2. 1 .. 0 = {} /\ 0 \in Nat /\ {0} \subseteq Int
  OBVIOUS
<1>3. \E k \in Nat : E!Used = 1 .. k
  BY <1>1, <1>2
<1>4. DOMAIN disk = Files /\ \A f \in Files : disk[f] \in written
  BY DEF E!Init
<1>5. DOMAIN ed = E!Tabs
  BY DEF E!Init
<1> QED
  BY <1>1, <1>2, <1>3, <1>4, <1>5 DEF E!Init, EditorOK, Apart, Savers, OneEach

\* What is stated of the tabs follows.
LEMMA EditorSound ==
  ASSUME EditorOK
  PROVE  E!EditorInv
<1>1. ASSUME NEW t \in E!Used
      PROVE  /\ E!Cardinality({m \in net : m.kind = "save" /\ m.tab = t})
                  = IF ed[t].saving THEN 1 ELSE 0
             /\ Len(ed[t].history) <= Depth /\ ed[t].history[ed[t].index] = ed[t].text
  <2>1. PICK S : S = {m \in net : m.kind = "save" /\ m.tab = t}
    OBVIOUS
  <2>2. E!Cardinality(S) = Cardinality(S)
    BY DEF E!Cardinality, Cardinality
  <2>3. CASE ed[t].saving
    <3>1. PICK m \in net : IsSave(m, t)
      BY <2>3 DEF EditorOK, Savers
    <3>2. S = {m}
      BY <2>1, <3>1 DEF EditorOK, Apart, IsSave
    <3>3. Cardinality(S) = 1
      BY <3>2, FS_Singleton
    <3> QED
      BY <2>1, <2>2, <2>3, <3>3 DEF EditorOK, TabOK
  <2>4. CASE ~ed[t].saving
    <3>1. S = {}
      BY <2>1, <2>4 DEF EditorOK, RequestOK
    <3>2. Cardinality(S) = 0
      BY <3>1, FS_EmptySet
    <3> QED
      BY <2>1, <2>2, <2>4, <3>2 DEF EditorOK, TabOK
  <2> QED
    BY <2>3, <2>4
<1> QED
  BY <1>1 DEF E!EditorInv, EditorOK, OneEach

\* A text leaves a tab for good, when the tab is closed or its file read again, only if a
\* file has held it, a person agreed to it, or it came while an answer was awaited; a tab
\* never has two saves under way, and can be saved again once its save is answered
\* (reloadEditorBuffer, setContent, closeTab, saveEditorBuffer, recordHistory).
THEOREM NothingIsLost == Spec => NothingLostUnasked
<1>1. E!Init => EditorOK
  BY EditorStarts
<1>2. EditorOK /\ [E!Next]_(E!vars) => EditorOK'
  BY EditorStep
<1>3. EditorOK /\ EditorOK' /\ [E!Next]_(E!vars) => E!EditorInv' /\ NothingLost
  <2>1. EditorOK => E!EditorInv
    BY EditorSound
  <2>2. EditorOK' => E!EditorInv'
    BY <2>1, PTL
  <2> QED
    BY <2>2, EditorStep
<1>4. E!Spec => [][E!EditorInv' /\ NothingLost]_(E!vars)
  BY <1>1, <1>2, <1>3, PTL DEF E!Spec
<1> QED
  BY <1>4, EditorBehaves, PTL DEF NothingLostUnasked, E!NothingLostUnasked, NothingLost
=============================================================================
