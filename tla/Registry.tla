-------------------------------- MODULE Registry --------------------------------
(***************************************************************************)
(* The writable layers of the command registry, as one command line tool   *)
(* has them: the drafts `idel learn` and a person write (custom layer),    *)
(* the definitions `idel promote` moves up and the manifest of their       *)
(* signatures (official layer), and a session that verifies the official   *)
(* layer and loads both (cli/src/learn.ts, promote.ts, registry-verify.ts, *)
(* main.ts, registry/src/loader.ts and signing.ts).                        *)
(*                                                                         *)
(* A file is written by cutting it to nothing and writing from its start,  *)
(* one file after the other, and may be read or left between any two of    *)
(* these.  A definition's content is its id and version; a signature is    *)
(* the definition it was made over, by the machine's development key.      *)
(***************************************************************************)
EXTENDS Integers, FiniteSets

CONSTANTS
    Defs,       \* definitions there may be: [id, version, ok], ok when it fits the schema
    Terminals,  \* terminals in which `idel promote` is run, again and again until it is killed
    MaxDrafts,  \* bound on how often the drafts are written by learn or by hand
    MaxSessions \* bound on the sessions started

VARIABLES
    file,       \* the three files: [state, defs]; state "absent", "cut", "mixed" or "whole"
    pinned,     \* whether the trust store pins the development key
    job,        \* the promotions: [at, cut, drafts, eligible]
    vouched,    \* ids promoted, and not drafted again since (history)
    drafts,     \* how often drafts were written, and
    sessions,   \* how many sessions were started: both for the bounds
    sess,       \* the session: [at, pinned, defs, official, custom]
    touched     \* whether the official layer was written since the session read it (history)

vars == <<file, pinned, job, vouched, drafts, sessions, sess, touched>>

RegistryAssumption ==
    /\ IsFiniteSet(Defs) /\ \A d \in Defs : d.ok \in BOOLEAN
    /\ MaxDrafts \in Nat /\ MaxSessions \in Nat

\* In the order a promotion writes them.
Stages == <<"defs", "manifest", "drafts">>
Official == {"defs", "manifest"}

Ids(ds) == {d.id : d \in ds}
Whole(ds) == [state |-> "whole", defs |-> ds]
Cut == [state |-> "cut", defs |-> {}]
Mixed == [state |-> "mixed", defs |-> {}]

NewSession == [at |-> "verify", pinned |-> FALSE, defs |-> {}, official |-> {}, custom |-> {}]

\* A promotion that is over, one way or another, remembers nothing; the next may start.
Over(at) == [at |-> at, cut |-> FALSE, drafts |-> {}, eligible |-> {}]

Init ==
    /\ file = [f \in {"defs", "manifest", "drafts"} |-> [state |-> "absent", defs |-> {}]]
    /\ pinned \in BOOLEAN
    /\ job = [j \in Terminals |-> Over("start")]
    /\ vouched = {} /\ drafts = 0 /\ sessions = 0
    /\ sess = [NewSession EXCEPT !.at = "closed"]
    /\ touched = FALSE

-----------------------------------------------------------------------------
(* The people *)

\* Who reads while the drafts are replaced finds the file cut.
Draft(ds) ==
    /\ drafts < MaxDrafts
    /\ drafts' = drafts + 1
    /\ file' \in {[file EXCEPT !["drafts"] = c] : c \in {Cut, Whole(ds)}}
    /\ vouched' = vouched \ Ids(ds)
    /\ UNCHANGED <<pinned, job, sessions, sess, touched>>

\* learnCli accepts, of what was proposed, only what fits the schema, and of that the verifier
\* may refuse some; learn --write replaces the drafts with it, if there is any.
Accepted == (SUBSET {d \in Defs : d.ok}) \ {{}}
Learn == \E ds \in Accepted : Draft(ds)

\* A person edits the drafts, and may break one.
Edit == \E ds \in SUBSET Defs : Draft(ds)

\* Somebody writes the key to the trust store: promote never does.
Pin ==
    /\ ~pinned /\ pinned' = TRUE
    /\ UNCHANGED <<file, job, vouched, drafts, sessions, sess, touched>>

-----------------------------------------------------------------------------
(* idel promote *)

\* The drafts are read and verified again: by the schema, and by their tests, which may have
\* come out otherwise when they were learned.  Nothing to promote ends the run.
Reverify(j) ==
    /\ job[j].at = "start"
    /\ file["drafts"].state \in {"whole", "absent"}
    /\ \E es \in SUBSET {d \in file["drafts"].defs : d.ok} :
         job' = [job EXCEPT ![j] =
                   IF es = {} THEN Over("start")
                   ELSE [@ EXCEPT !.at = "confirm", !.drafts = file["drafts"].defs,
                                  !.eligible = es]]
    /\ UNCHANGED <<file, pinned, vouched, drafts, sessions, sess, touched>>

\* Drafts that do not parse end it too.
Unreadable(j) ==
    /\ job[j].at = "start"
    /\ file["drafts"].state \in {"cut", "mixed"}
    /\ job' = [job EXCEPT ![j] = Over("start")]
    /\ UNCHANGED <<file, pinned, vouched, drafts, sessions, sess, touched>>

\* The person confirms, or does not; then the key is read and each definition signed.
Confirm(j) ==
    /\ job[j].at = "confirm"
    /\ job' \in {[job EXCEPT ![j].at = "defs"], [job EXCEPT ![j] = Over("start")]}
    /\ UNCHANGED <<file, pinned, vouched, drafts, sessions, sess, touched>>

\* What a promotion writes: the eligible definitions and their signatures in place of those
\* there were; and of the drafts it read, those that are left.
Content(j, f) ==
    IF f = "drafts" THEN {d \in job[j].drafts : d.id \notin Ids(job[j].eligible)}
                    ELSE job[j].eligible

CutFile(j) ==
    /\ job[j].at \in DOMAIN file /\ ~job[j].cut
    /\ file' = [file EXCEPT ![job[j].at] = Cut]
    /\ job' = [job EXCEPT ![j].cut = TRUE]
    /\ touched' = (touched \/ job[j].at \in Official)
    /\ UNCHANGED <<pinned, vouched, drafts, sessions, sess>>

\* Over what another wrote since, it may leave the end of that.
Filled(j) ==
    LET f == job[j].at
    IN file' \in {[file EXCEPT ![f] = c] :
                    c \in {Whole(Content(j, f))} \cup
                          (IF file[f] = Cut THEN {} ELSE {Mixed})}

FillFile(j) ==
    /\ job[j].at \in DOMAIN file /\ job[j].cut
    /\ Filled(j)
    /\ LET i == CHOOSE k \in DOMAIN Stages : Stages[k] = job[j].at
       IN job' = [job EXCEPT ![j] = IF i = 3 THEN Over("start")
                                    ELSE [@ EXCEPT !.at = Stages[i + 1], !.cut = FALSE]]
    /\ vouched' = IF job[j].at = "drafts" THEN vouched \cup Ids(job[j].eligible) ELSE vouched
    /\ touched' = (touched \/ job[j].at \in Official)
    /\ UNCHANGED <<pinned, drafts, sessions, sess>>

Crash(j) ==
    /\ job[j].at \in DOMAIN file \cup {"confirm"}
    /\ job' = [job EXCEPT ![j] = Over("crashed")]
    /\ UNCHANGED <<file, pinned, vouched, drafts, sessions, sess, touched>>

-----------------------------------------------------------------------------
(* A session: the official layer is verified, then loaded from the files again *)

Elsewhere == UNCHANGED <<file, pinned, job, vouched, drafts>>

Start ==
    /\ sess.at \in {"closed", "ready"} /\ sessions < MaxSessions
    /\ sessions' = sessions + 1
    /\ sess' = NewSession
    /\ Elsewhere /\ UNCHANGED touched

\* verifyOfficialLayer, the pins and the definitions: where there is no file there is nothing
\* to distrust; one that does not parse is reason enough not to trust the layer.
ReadDefs ==
    /\ sess.at = "verify"
    /\ sess' = [sess EXCEPT !.at = CASE file["defs"].state = "whole" -> "manifest"
                                     [] file["defs"].state = "absent" -> "official"
                                     [] OTHER -> "custom",
                            !.pinned = pinned, !.defs = file["defs"].defs]
    /\ touched' = FALSE
    /\ Elsewhere /\ UNCHANGED sessions

\* Mistake: a signature is found by its id, and its content not compared.
SignedAs_ById(d, signed, pins) == d.ok /\ pins /\ d.id \in Ids(signed)

\* verifyDef: it fits the schema and its signature is over its content, by a key that is pinned.
SignedAs(d, signed, pins) == d.ok /\ pins /\ d \in signed

\* Every definition has one signature that holds, and there is no signature besides.
Verified(ds, signed, pins) ==
    /\ \A s \in {ds, signed} : Cardinality(Ids(s)) = Cardinality(s)
    /\ \A d \in ds : SignedAs(d, signed, pins)
    /\ Ids(signed) \subseteq Ids(ds)

\* verifyOfficialLayer, the manifest.  The layer is loaded whole or not at all.
ReadManifest ==
    /\ sess.at = "manifest"
    /\ sess' = [sess EXCEPT !.defs = {}, !.at =
                   IF /\ file["manifest"].state = "whole"
                      /\ Verified(sess.defs, file["manifest"].defs, sess.pinned)
                     THEN "official" ELSE "custom"]
    /\ Elsewhere /\ UNCHANGED <<sessions, touched>>

\* loadLayerFromDir: what it finds, or an error when some of it is not valid.
Loadable(f) == file[f].state \in {"absent", "whole"} /\ \A d \in file[f].defs : d.ok

\* Runtime.withCore goes on without a layer that cannot be loaded.
LoadOfficial ==
    /\ sess.at = "official"
    /\ sess' = [sess EXCEPT !.at = "custom",
                            !.official = IF Loadable("defs") THEN file["defs"].defs ELSE {}]
    /\ Elsewhere /\ UNCHANGED <<sessions, touched>>

\* At the start and again after learn: an error leaves the layer as it is.
LoadCustom ==
    /\ sess.at \in {"custom", "ready"}
    /\ sess' = [sess EXCEPT !.at = "ready",
                            !.custom = IF Loadable("drafts") THEN file["drafts"].defs ELSE @]
    /\ Elsewhere /\ UNCHANGED <<sessions, touched>>

-----------------------------------------------------------------------------
Next ==
    \/ Learn \/ Edit \/ Pin
    \/ \E j \in Terminals :
         \/ Reverify(j) \/ Unreadable(j) \/ Confirm(j)
         \/ CutFile(j) \/ FillFile(j) \/ Crash(j)
    \/ Start \/ ReadDefs \/ ReadManifest \/ LoadOfficial \/ LoadCustom

Spec == Init /\ [][Next]_vars

-----------------------------------------------------------------------------
(* Properties *)

\* What a session takes as official is, definition by definition, what a pinned key signed,
\* though a promotion was killed between its files or two of them wrote at once; unless the
\* layer was written between its verification and its loading, which read it separately
\* (verifyOfficialLayer, trustedOfficialDir, loadLayerFromDir).
LoadedIsSigned ==
    [][sess'.official # sess.official /\ sess'.official # {} /\ ~touched
       => /\ sess.pinned
          /\ file["manifest"] = Whole(sess'.official)]_vars

\* A command that was promoted is in the official layer and not among the drafts, as promote.ts
\* has it: "The promoted ids are then removed from the custom draft file so a command lives in
\* exactly one writable layer."
InOneLayer ==
    (\A j \in Terminals : job[j].at \in {"start", "confirm"})
      => vouched \subseteq Ids(file["defs"].defs) \ Ids(file["drafts"].defs)

=============================================================================
