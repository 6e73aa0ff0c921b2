---------------------------- MODULE Workbench_proofs ----------------------------
(***************************************************************************)
(* Proofs about the parts of the workbench that run processes or change    *)
(* files, each in its place beside the others: the editor extension's      *)
(* server, the desktop's runtime, the native shell tabs and the file       *)
(* commands, for any number of calls, servers, starts, tabs, shells, keys, *)
(* commands and swapped paths.                                             *)
(***************************************************************************)
EXTENDS Workbench, FiniteSetTheorems, SequenceTheorems, TLAPS

\* The steps of the others do not touch what the extension has.
LEMMA ManagerBehaves == Spec => M!Spec
<1>1. Init => M!Init
  BY DEF Init
<1>2. [Next]_vars => [M!Next]_(M!vars)
  BY DEF Next, vars, extension, M!vars
<1> QED
  BY <1>1, <1>2, PTL DEF Spec, M!Spec

\* Nor what the desktop application has.
LEMMA ShellBehaves == Spec => S!Spec
<1>1. Init => S!Init
  BY DEF Init
<1>2. [Next]_vars => [S!Next]_(S!vars)
  BY DEF Next, vars, desktop, S!vars
<1> QED
  BY <1>1, <1>2, PTL DEF Spec, S!Spec

-----------------------------------------------------------------------------
(* The editor extension's server.                                          *)

\* Where a call waits for a server.
Waits == {"starting", "stopping", "restarting"}

\* What the proofs need of the variables' types: a call that waits for a server waits for one
\* that was started, and signals go to such servers only.
ManagerShape ==
    /\ life \in [M!Servers -> {"none", "starting", "up", "gone"}]
    /\ child \in M!Servers \cup {0}
    /\ DOMAIN call = Calls /\ \A p \in Calls : DOMAIN call[p] = {"plan", "at", "on"}
    /\ \A p \in Calls : call[p].at \in Waits =>
         call[p].on \in M!Servers /\ life[call[p].on] # "none"
    /\ DOMAIN told = {"term", "kill"}
    /\ told.term \subseteq M!Servers /\ told.kill \subseteq M!Servers
    /\ \A n \in M!Servers : n \in told.term => life[n] # "none"

ManagerInv == ManagerShape /\ M!ChildIsTracked

\* A call that goes on waits for no server.
LEMMA CallGoesOn ==
  ASSUME NEW c, NEW url
  PROVE  /\ M!Answered(c, url).at \notin Waits /\ DOMAIN M!Answered(c, url) = {"plan", "at", "on"}
         /\ M!Failed(c, url).at \notin Waits /\ DOMAIN M!Failed(c, url) = {"plan", "at", "on"}
         /\ \A plan : /\ M!Ensure(plan, url).at \notin Waits
                      /\ DOMAIN M!Ensure(plan, url) = {"plan", "at", "on"}
<1>1. ASSUME NEW plan
      PROVE  /\ M!Ensure(plan, url).at \notin Waits
             /\ DOMAIN M!Ensure(plan, url) = {"plan", "at", "on"}
  BY DEF M!Ensure, M!Idle, Waits
<1>2. M!Idle.at \notin Waits /\ DOMAIN M!Idle = {"plan", "at", "on"}
  BY DEF M!Idle, Waits
<1> QED
  BY <1>1, <1>2 DEF M!Answered, M!Failed

LEMMA ReachedGoesOn ==
  ASSUME NEW c, DOMAIN c = {"plan", "at", "on"}, NEW url
  PROVE  /\ M!Reached(c, url).at \notin Waits /\ DOMAIN M!Reached(c, url) = {"plan", "at", "on"}
BY CallGoesOn DEF M!Reached, Waits

\* Calls as they may be: each that waits, waits for a server that was started.
Going(now) ==
    /\ DOMAIN now = Calls /\ \A p \in Calls : DOMAIN now[p] = {"plan", "at", "on"}
    /\ \A p \in Calls : now[p].at \in Waits => now[p].on \in M!Servers /\ life[now[p].on] # "none"

-----------------------------------------------------------------------------
LEMMA ManagerBegun == M!Init => ManagerInv
<1> SUFFICES ASSUME M!Init PROVE ManagerInv
  OBVIOUS
<1>1. \A p \in Calls : call[p].at = "idle" /\ DOMAIN call[p] = {"plan", "at", "on"}
  BY DEF M!Init, M!Idle
<1>2. DOMAIN told = {"term", "kill"} /\ told.term = {}
  BY DEF M!Init
<1>3. ManagerShape
  BY <1>1, <1>2 DEF M!Init, ManagerShape, Waits
<1>4. M!ChildIsTracked
  BY DEF M!Init, M!ChildIsTracked, M!Running
<1> QED
  BY <1>3, <1>4 DEF ManagerInv

\* The manager's server is forgotten as it is told to end.
LEMMA StopChildKeeps ==
  ASSUME ManagerInv, child # 0, NEW p \in Calls, NEW c, DOMAIN c = {"plan", "at", "on"},
         NEW at \in Waits, M!StopChild(p, c, at)
  PROVE  ManagerInv'
<1>1. child \in M!Servers /\ life[child] # "none"
  BY DEF ManagerInv, ManagerShape, M!ChildIsTracked, M!Running
<1>2. told' = [told EXCEPT !.term = @ \cup {child}] /\ child' = 0 /\ life' = life /\ lost' = lost
      /\ call' = [call EXCEPT ![p] = [c EXCEPT !.at = at, !.on = child]]
  BY DEF M!StopChild
<1>3. DOMAIN told' = {"term", "kill"} /\ told'.term = told.term \cup {child}
      /\ told'.kill = told.kill
  BY <1>2 DEF ManagerInv, ManagerShape
<1>4. DOMAIN call' = Calls /\ \A q \in Calls : DOMAIN call'[q] = {"plan", "at", "on"}
  BY <1>2 DEF ManagerInv, ManagerShape
<1>5. \A q \in Calls : call'[q].at \in Waits =>
         call'[q].on \in M!Servers /\ life[call'[q].on] # "none"
  BY <1>1, <1>2 DEF ManagerInv, ManagerShape, Waits
<1>6. ManagerShape'
  BY <1>1, <1>2, <1>3, <1>4, <1>5 DEF ManagerInv, ManagerShape, Waits
<1>7. M!ChildIsTracked'
  BY <1>1, <1>2, <1>3 DEF ManagerInv, M!ChildIsTracked, M!Running, M!Servers
<1> QED
  BY <1>6, <1>7 DEF ManagerInv

\* A server takes its place, or none is started.
LEMMA SpawnKeeps ==
  ASSUME ManagerInv, NEW p \in Calls, NEW now, NEW procs, NEW held,
         procs \in [M!Servers -> {"none", "starting", "up", "gone"}],
         \A n \in M!Servers : (procs[n] = "none") = (life[n] = "none"),
         \A n \in M!Servers : procs[n] \in {"starting", "up"} => M!Running(n),
         held \in {0, child}, held # 0 => procs[held] \in {"starting", "up"},
         held = 0 /\ child # 0 => procs[child] \notin {"starting", "up"},
         DOMAIN told' = {"term", "kill"}, told'.term = told.term, told'.kill \subseteq M!Servers,
         Going(now), M!Spawn(p, now, procs, held)
  PROVE  ManagerInv'
<1> USE DEF ManagerInv, ManagerShape, Going
<1>1. ASSUME NEW n \in M!Servers, procs[n] = "none",
             life' = [procs EXCEPT ![n] = "starting"], child' = n,
             lost' = lost \cup ({held} \ {0}),
             call' = [now EXCEPT ![p] = [@ EXCEPT !.at = "starting", !.on = n]]
      PROVE  ManagerInv'
  <2>1. \A m \in M!Servers : life'[m] = IF m = n THEN "starting" ELSE procs[m]
    BY <1>1
  <2>2. DOMAIN call' = Calls /\ \A q \in Calls : DOMAIN call'[q] = {"plan", "at", "on"}
    BY <1>1
  <2>3. \A q \in Calls : call'[q].at \in Waits =>
           call'[q].on \in M!Servers /\ life'[call'[q].on] # "none"
    <3>1. call'[p].on = n
      BY <1>1
    <3>2. \A q \in Calls : q # p => call'[q] = now[q]
      BY <1>1
    <3> QED
      BY <2>1, <3>1, <3>2
  <2>4. ManagerShape'
    <3>1. life' \in [M!Servers -> {"none", "starting", "up", "gone"}]
      BY <1>1
    <3> QED
      BY <1>1, <2>1, <2>2, <2>3, <3>1 DEF Waits
  <2>5. n \notin told.term /\ n # 0
    BY <1>1 DEF M!Servers
  <2>6. \A m \in M!Servers : M!Running(m)' => m = n \/ M!Running(m)
    BY <2>1 DEF M!Running
  <2>7. M!ChildIsTracked'
    <3>1. M!Running(n)'
      BY <2>1 DEF M!Running
    <3>2. ASSUME NEW m \in M!Servers, M!Running(m)', m # n
          PROVE  m \in told.term \/ m \in lost'
      <4>1. m = child \/ m \in told.term \/ m \in lost
        BY <2>6, <3>2 DEF M!ChildIsTracked
      <4>2. CASE m = child
        <5>1. procs[m] \in {"starting", "up"}
          BY <2>1, <3>2 DEF M!Running
        <5>2. held = m
          BY <4>2, <5>1 DEF M!Servers
        <5> QED
          BY <1>1, <5>2 DEF M!Servers
      <4> QED
        BY <1>1, <4>1, <4>2
    <3> QED
      BY <1>1, <2>5, <3>1, <3>2 DEF M!ChildIsTracked
  <2> QED
    BY <2>4, <2>7
<1>2. ASSUME call' = [now EXCEPT ![p] = M!Failed(@, managed)],
             child' = held, life' = procs, lost' = lost
      PROVE  ManagerInv'
  <2>1. DOMAIN call' = Calls /\ \A q \in Calls : DOMAIN call'[q] = {"plan", "at", "on"}
    BY <1>2, CallGoesOn
  <2>2. \A q \in Calls : call'[q].at \in Waits =>
           call'[q].on \in M!Servers /\ life'[call'[q].on] # "none"
    BY <1>2, CallGoesOn
  <2>3. ManagerShape'
    BY <1>2, <2>1, <2>2 DEF Waits
  <2>4. M!ChildIsTracked'
    BY <1>2 DEF M!ChildIsTracked, M!Running, M!Servers
  <2> QED
    BY <2>3, <2>4
<1> QED
  BY <1>1, <1>2 DEF M!Spawn

\* A server has ended, or is taken for ended: the call that waited for that goes on.
LEMMA ResumeKeeps ==
  ASSUME ManagerInv, NEW n, NEW now, NEW procs, NEW held,
         procs \in [M!Servers -> {"none", "starting", "up", "gone"}],
         \A m \in M!Servers : (procs[m] = "none") = (life[m] = "none"),
         \A m \in M!Servers : procs[m] \in {"starting", "up"} => M!Running(m),
         held \in {0, child}, held # 0 => procs[held] \in {"starting", "up"},
         held = 0 /\ child # 0 => procs[child] \notin {"starting", "up"},
         DOMAIN told' = {"term", "kill"}, told'.term = told.term, told'.kill \subseteq M!Servers,
         Going(now), M!Resume(n, now, procs, held)
  PROVE  ManagerInv'
<1>1. CASE \E p \in M!OnServer(n, {"restarting"}) : M!Spawn(p, now, procs, held)
  <2>1. PICK p \in Calls : M!Spawn(p, now, procs, held)
    BY <1>1 DEF M!OnServer
  <2> QED
    BY <2>1, SpawnKeeps
<1>2. CASE /\ call' = [p \in Calls |-> IF p \in M!OnServer(n, {"stopping"})
                                        THEN M!Answered(now[p], managed) ELSE now[p]]
           /\ child' = held /\ life' = procs /\ UNCHANGED lost
  <2>1. DOMAIN call' = Calls /\ \A q \in Calls : DOMAIN call'[q] = {"plan", "at", "on"}
    BY <1>2, CallGoesOn DEF Going
  <2>2. \A q \in Calls : call'[q].at \in Waits =>
           call'[q].on \in M!Servers /\ life'[call'[q].on] # "none"
    BY <1>2, CallGoesOn DEF Going
  <2>3. ManagerShape'
    BY <1>2, <2>1, <2>2 DEF ManagerInv, ManagerShape
  <2>4. M!ChildIsTracked'
    BY <1>2 DEF ManagerInv, ManagerShape, M!ChildIsTracked, M!Running, M!Servers
  <2> QED
    BY <2>3, <2>4 DEF ManagerInv
<1> QED
  BY <1>1, <1>2 DEF M!Resume

\* A step in which no server begins or ends, and none is told to.
LEMMA NothingEnds ==
  ASSUME ManagerInv, UNCHANGED <<child, life, told, lost>>, DOMAIN call' = Calls,
         \A p \in Calls : DOMAIN call'[p] = {"plan", "at", "on"},
         \A p \in Calls : call'[p] = call[p] \/ call'[p].at \notin Waits
  PROVE  ManagerInv'
BY DEF ManagerInv, ManagerShape, M!ChildIsTracked, M!Running, Waits

-----------------------------------------------------------------------------
\* The calls as they are may go on.
LEMMA AsTheyAre ==
  ASSUME ManagerInv
  PROVE  Going(call) /\ (child # 0 => life[child] \in {"starting", "up"})
BY DEF ManagerInv, ManagerShape, Going, M!ChildIsTracked, M!Running

LEMMA CallsKeep ==
  ASSUME ManagerInv, NEW p \in Calls,
         \/ \E plan \in M!Plans : M!Begin(p, plan)
         \/ M!Healthy(p) \/ M!Page(p) \/ M!Unhealthy(p) \/ M!StartTimeout(p) \/ M!StopTimeout(p)
  PROVE  ManagerInv'
<1>1. DOMAIN call = Calls /\ \A q \in Calls : DOMAIN call[q] = {"plan", "at", "on"}
  BY DEF ManagerInv, ManagerShape
<1>2. Going(call) /\ (child # 0 => life[child] \in {"starting", "up"})
  BY AsTheyAre
<1>3. ASSUME NEW c, call' = [call EXCEPT ![p] = c], c.at \notin Waits,
             DOMAIN c = {"plan", "at", "on"}
      PROVE  /\ DOMAIN call' = Calls
             /\ \A q \in Calls : DOMAIN call'[q] = {"plan", "at", "on"}
             /\ \A q \in Calls : call'[q] = call[q] \/ call'[q].at \notin Waits
  BY <1>1, <1>3
<1>4. ASSUME NEW plan, M!Begin(p, plan) PROVE ManagerInv'
  <2>1. CASE Head(plan) # "stop"
    BY <1>3, <1>4, <2>1, CallGoesOn, NothingEnds DEF M!Begin
  <2>2. CASE Head(plan) = "stop" /\ child # 0
    <3>1. M!StopChild(p, [M!Idle EXCEPT !.plan = plan], "stopping")
      BY <1>4, <2>2 DEF M!Begin
    <3>2. DOMAIN [M!Idle EXCEPT !.plan = plan] = {"plan", "at", "on"}
      BY DEF M!Idle
    <3> QED
      BY <2>2, <3>1, <3>2, StopChildKeeps DEF Waits
  <2>3. CASE Head(plan) = "stop" /\ child = 0
    BY <1>3, <1>4, <2>3, CallGoesOn, NothingEnds DEF M!Begin
  <2> QED
    BY <2>1, <2>2, <2>3
<1>5. CASE M!Healthy(p)
  BY <1>1, <1>3, <1>5, ReachedGoesOn, NothingEnds DEF M!Healthy
<1>6. CASE M!Page(p)
  BY <1>3, <1>6, CallGoesOn, NothingEnds DEF M!Page
<1>7. CASE M!Unhealthy(p)
  <2>1. CASE call' = [call EXCEPT ![p].at = "default"] /\ UNCHANGED <<child, life, told, lost>>
    BY <1>1, <2>1, NothingEnds DEF Waits
  <2>2. CASE call' = [call EXCEPT ![p] = M!Failed(@, managed)]
             /\ UNCHANGED <<child, life, told, lost>>
    BY <1>3, <2>2, CallGoesOn, NothingEnds
  <2>3. CASE child # 0 /\ M!StopChild(p, call[p], "restarting")
    BY <1>1, <2>3, StopChildKeeps DEF Waits
  <2>4. CASE child = 0 /\ M!Spawn(p, call, life, 0) /\ UNCHANGED told
    BY <1>2, <2>4, SpawnKeeps DEF ManagerInv, ManagerShape, M!Running
  <2> QED
    BY <1>7, <2>1, <2>2, <2>3, <2>4 DEF M!Unhealthy
<1>8. CASE M!StartTimeout(p)
  <2>1. call[p].on \in M!Servers /\ life[call[p].on] # "none"
    BY <1>8 DEF M!StartTimeout, ManagerInv, ManagerShape, Waits
  <2>2. /\ child' = IF child = call[p].on THEN 0 ELSE child
        /\ DOMAIN told' = {"term", "kill"} /\ told'.term = told.term \cup {call[p].on}
        /\ told'.kill = told.kill
        /\ life' = life /\ lost' = lost
    BY <1>8 DEF M!StartTimeout, ManagerInv, ManagerShape
  <2>3. /\ DOMAIN call' = Calls
        /\ \A q \in Calls : DOMAIN call'[q] = {"plan", "at", "on"}
        /\ \A q \in Calls : call'[q] = call[q] \/ call'[q].at \notin Waits
    BY <1>3, <1>8, CallGoesOn DEF M!StartTimeout
  <2>4. ManagerShape'
    BY <2>1, <2>2, <2>3 DEF ManagerInv, ManagerShape, Waits
  <2>5. M!ChildIsTracked'
    BY <2>1, <2>2 DEF ManagerInv, M!ChildIsTracked, M!Running
  <2> QED
    BY <2>4, <2>5 DEF ManagerInv
<1>9. CASE M!StopTimeout(p)
  <2>1. M!Resume(call[p].on, call, life, child) /\ DOMAIN told' = {"term", "kill"}
        /\ told'.term = told.term /\ told'.kill = told.kill \cup {call[p].on}
    BY <1>9 DEF M!StopTimeout, ManagerInv, ManagerShape
  <2>2. call[p].on \in M!Servers
    BY <1>9 DEF M!StopTimeout, ManagerInv, ManagerShape, Waits
  <2> QED
    BY <1>2, <2>1, <2>2, ResumeKeeps DEF ManagerInv, ManagerShape, M!Running
<1> QED
  BY <1>4, <1>5, <1>6, <1>7, <1>8, <1>9

LEMMA ServersKeep ==
  ASSUME ManagerInv, NEW n \in M!Servers, M!Listens(n) \/ M!Exits(n)
  PROVE  ManagerInv'
<1>1. DOMAIN call = Calls /\ \A q \in Calls : DOMAIN call[q] = {"plan", "at", "on"}
  BY DEF ManagerInv, ManagerShape
<1>2. CASE M!Listens(n)
  <2>1. call' = [p \in Calls |-> IF p \in M!OnServer(n, {"starting"}) THEN M!Reached(call[p], n)
                                 ELSE call[p]]
        /\ life[n] = "starting" /\ life' = [life EXCEPT ![n] = "up"]
        /\ UNCHANGED <<child, told, lost>>
    BY <1>2 DEF M!Listens
  <2>2. /\ DOMAIN call' = Calls
        /\ \A q \in Calls : DOMAIN call'[q] = {"plan", "at", "on"}
        /\ \A q \in Calls : call'[q] = call[q] \/ call'[q].at \notin Waits
    BY <1>1, <2>1, ReachedGoesOn
  <2>3. \A m \in M!Servers : M!Running(m)' = M!Running(m) /\ (life'[m] = "none") = (life[m] = "none")
    BY <2>1 DEF ManagerInv, ManagerShape, M!Running
  <2>4. ManagerShape'
    BY <2>1, <2>2, <2>3 DEF ManagerInv, ManagerShape, Waits
  <2>5. M!ChildIsTracked'
    BY <2>1, <2>3 DEF ManagerInv, ManagerShape, M!ChildIsTracked
  <2> QED
    BY <2>4, <2>5 DEF ManagerInv
<1>3. CASE M!Exits(n)
  <2> DEFINE now == [p \in Calls |-> IF p \in M!OnServer(n, {"starting"})
                                     THEN M!Failed(call[p], managed) ELSE call[p]]
             procs == [life EXCEPT ![n] = "gone"]
  <2>1. M!Resume(n, now, procs, M!Forgotten(n)) /\ M!Running(n) /\ told' = told
    BY <1>3 DEF M!Exits
  <2>2. /\ procs \in [M!Servers -> {"none", "starting", "up", "gone"}]
        /\ \A m \in M!Servers : (procs[m] = "none") = (life[m] = "none")
        /\ \A m \in M!Servers : procs[m] \in {"starting", "up"} => M!Running(m)
        /\ \A m \in M!Servers : m # n => procs[m] = life[m]
        /\ procs[n] = "gone"
    BY <2>1 DEF ManagerInv, ManagerShape, M!Running
  <2>3. Going(now)
    BY <1>1, CallGoesOn DEF ManagerInv, ManagerShape, Going
  <2>4. /\ M!Forgotten(n) \in {0, child}
        /\ M!Forgotten(n) # 0 => procs[M!Forgotten(n)] \in {"starting", "up"}
        /\ M!Forgotten(n) = 0 /\ child # 0 => procs[child] \notin {"starting", "up"}
    BY <2>2 DEF M!Forgotten, ManagerInv, ManagerShape, M!ChildIsTracked, M!Running
  <2> HIDE DEF now, procs
  <2> QED
    BY <2>1, <2>2, <2>3, <2>4, ResumeKeeps DEF ManagerInv, ManagerShape
<1> QED
  BY <1>2, <1>3

\* So does any step.
LEMMA ManagerStep == ManagerInv /\ [M!Next]_(M!vars) => ManagerInv'
<1>1. CASE UNCHANGED M!vars
  BY <1>1 DEF M!vars, ManagerInv, ManagerShape, M!ChildIsTracked, M!Running
<1>2. ASSUME ManagerInv, M!Next PROVE ManagerInv'
  <2>1. CASE M!ElsewhereStarts \/ M!ElsewhereEnds
    BY <1>2, <2>1 DEF M!ElsewhereStarts, M!ElsewhereEnds, ManagerInv, ManagerShape,
                      M!ChildIsTracked, M!Running
  <2>2. CASE \E n \in told.kill \cup told.term : M!Exits(n)
    <3>1. PICK n \in told.kill \cup told.term : M!Exits(n)
      BY <2>2
    <3>2. n \in M!Servers
      BY <1>2, <2>2, <3>1 DEF ManagerInv, ManagerShape
    <3> QED
      BY <1>2, <3>1, <3>2, ServersKeep
  <2> QED
    BY <1>2, <2>1, <2>2, CallsKeep, ServersKeep DEF M!Next, M!Work
<1> QED
  BY <1>1, <1>2

-----------------------------------------------------------------------------
(* The desktop application.                                                *)

\* An application that is to quit and is still there has a message on the screen or a page that
\* refused; one that is not to quit has had no message; what ended took its runtime along.
Quitting ==
    /\ quitting \in BOOLEAN /\ alert \in BOOLEAN /\ refused \in BOOLEAN
    /\ alerts \in {0, 1} /\ (~quitting => alerts = 0)
    /\ quitting /\ win # "ended" => alert \/ refused
    /\ runtime # "none" => win # "ended"
    /\ runtime = "gone" => quitting

\* A restart that is asked for will find the workspace it was asked for in the file, and one that
\* has happened has found it; unless a later choice was cut off.
Promise ==
    /\ promised \in Workspaces \cup {S!Absent} /\ workspace \in Workspaces
    /\ promised # S!Absent => IF relaunch THEN saved \in {promised, S!Torn}
                                        ELSE folder = promised \/ saved = S!Torn

ShellInv == Quitting /\ Promise

LEMMA ShellBegun == S!ShellAssumption /\ S!Init => ShellInv
BY DEF S!ShellAssumption, S!Init, ShellInv, Quitting, Promise, S!Absent, S!Torn

\* A step keeps both.
LEMMA QuittingKept ==
  ASSUME ShellInv, S!Next
  PROVE  Quitting'
<1> USE DEF ShellInv, Quitting, S!screen, S!settings
<1>1. CASE S!start
  <2>1. \/ /\ win' = "hidden" /\ runtime' = "starting"
           /\ quitting' = FALSE /\ alert' = FALSE /\ alerts' = 0
        \/ /\ win' = "none" /\ runtime' = "none"
           /\ quitting' = TRUE /\ alert' = TRUE /\ alerts' = 1
    BY <1>1 DEF S!start
  <2>2. refused' = FALSE
    BY <1>1 DEF S!start
  <2> QED
    BY <2>1, <2>2
<1>2. CASE S!Listens
  BY <1>2 DEF S!Listens
<1>7. ASSUME S!fail
      PROVE  /\ alert' \in BOOLEAN /\ alerts' \in {0, 1} /\ quitting' = TRUE
             /\ win # "ended" => alert' \/ refused
  <2>1. CASE quitting
    <3>1. UNCHANGED <<alert, alerts, quitting>>
      BY <1>7, <2>1 DEF S!fail
    <3>2. quitting = TRUE /\ (win # "ended" => alert \/ refused)
      BY <2>1
    <3> QED
      BY <3>1, <3>2
  <2>2. CASE ~quitting
    <3>1. quitting' = TRUE /\ alert' = TRUE /\ alerts' = alerts + 1
      BY <1>7, <2>2 DEF S!fail
    <3>2. alerts' = 1
      BY <2>2, <3>1
    <3> QED
      BY <3>1, <3>2
  <2> QED
    BY <2>1, <2>2
<1>8. CASE S!Load
  <2>1. runtime # "starting" /\ win = "hidden" /\ UNCHANGED <<runtime, refused>>
    BY <1>8 DEF S!Load
  <2>2. CASE runtime = "up" /\ win' = "shown" /\ UNCHANGED S!screen
    BY <2>1, <2>2
  <2>3. CASE S!fail /\ UNCHANGED win
    BY <1>7, <2>1, <2>3
  <2> QED
    BY <1>8, <2>2, <2>3 DEF S!Load
<1>9. CASE S!Overdue
  BY <1>7, <1>9 DEF S!Overdue
<1>10. CASE S!Exit
  BY <1>7, <1>10 DEF S!Exit
<1>3. CASE S!Acknowledge
  BY <1>3 DEF S!Acknowledge, S!Quit
<1>4. CASE S!Close \/ S!AskQuit
  BY <1>4 DEF S!Close, S!AskQuit, S!Quit
<1>5. CASE S!Work \/ S!Choose \/ S!Confirm \/ S!Truncate
  BY <1>5 DEF S!Work, S!Choose, S!Confirm, S!Truncate
<1>6. CASE S!Fill
  <2>1. UNCHANGED <<alert, alerts>> /\ win = "shown"
    BY <1>6 DEF S!Fill
  <2>2. CASE S!Quit
    BY <2>1, <2>2 DEF S!Quit
  <2>3. CASE UNCHANGED <<win, runtime, quitting, refused>>
    BY <2>1, <2>3
  <2> QED
    BY <1>6, <2>2, <2>3 DEF S!Fill
<1> QED
  BY <1>1, <1>2, <1>3, <1>4, <1>5, <1>6, <1>8, <1>9, <1>10 DEF S!Next

LEMMA PromiseKept ==
  ASSUME S!ShellAssumption, ShellInv, S!Next
  PROVE  Promise'
<1> USE DEF ShellInv, Promise, S!settings
<1>1. CASE S!start
  BY <1>1 DEF S!start, S!ShellAssumption, S!Absent, S!Torn
<1>2. CASE S!Listens \/ S!Load \/ S!Overdue \/ S!Exit
  BY <1>2 DEF S!Listens, S!Load, S!Overdue, S!Exit
<1>3. CASE S!Acknowledge \/ S!Close \/ S!AskQuit
  BY <1>3 DEF S!Acknowledge, S!Close, S!AskQuit
<1>4. CASE S!Work \/ S!Choose \/ S!Confirm \/ S!Truncate
  BY <1>4 DEF S!Work, S!Choose, S!Confirm, S!Truncate
<1>5. CASE S!Fill
  BY <1>5 DEF S!Fill
<1> QED
  BY <1>1, <1>2, <1>3, <1>4, <1>5 DEF S!Next

LEMMA ShellStep == ShellInv /\ [S!Next]_(S!vars) => ShellInv'
<1>1. CASE UNCHANGED S!vars
  BY <1>1 DEF S!vars, ShellInv, Quitting, Promise
<1>2. S!ShellAssumption
  BY WorkbenchAssumption
<1> QED
  BY <1>1, <1>2, QuittingKept, PromiseKept DEF ShellInv

-----------------------------------------------------------------------------
\* Whatever calls are made at once, and however servers start, hang and end: the manager's
\* server runs and is not told to end, and any other that runs has been told, but for one that
\* another took the place of (startManagedServer, stop).  A runtime that is gone has been told
\* of, once, however its timer, its end and the page's failure come together, but for a page
\* that has refused to close; and a desktop started anew for another workspace works there
\* (main.cjs: fail, quit, chooseWorkspace, start).
THEOREM RunsAreTracked == Spec => []RuntimesTracked
<1>1. M!Spec => []ManagerInv
  BY ManagerBegun, ManagerStep, PTL DEF M!Spec
<1>2. S!Spec => []ShellInv
  <2>1. S!ShellAssumption
    BY WorkbenchAssumption
  <2> QED
    BY <2>1, ShellBegun, ShellStep, PTL DEF S!Spec
<1>3. ManagerInv /\ ShellInv => RuntimesTracked
  BY DEF ManagerInv, ShellInv, Quitting, Promise, RuntimesTracked, S!GoneIsTold, S!WorksInChosen
<1> QED
  BY <1>1, <1>2, <1>3, ManagerBehaves, ShellBehaves, PTL

-----------------------------------------------------------------------------
(* The native shell tabs.                                                  *)

\* Nor do the steps of the others touch the shells and their tabs.
LEMMA TerminalBehaves == Spec => N!Spec
<1>1. Init => N!Init
  BY DEF Init
<1>2. [Next]_vars => [N!Next]_(N!vars)
  BY DEF Next, vars, terminal, N!vars, N!sessions, N!page
<1> QED
  BY <1>1, <1>2, PTL DEF Spec, N!Spec

\* What the server has: every shell that runs is listed, and none that has ended.
SessionsOK ==
    /\ server \in {"up", "closed", "crashed"} /\ started \in 0 .. MaxGens
    /\ proc \in [N!Sessions -> {"none", "up", "waiting", "down"}]
    /\ \A n \in N!Sessions : proc[n] # "none" => n <= started
    /\ ended \subseteq 1 .. started /\ exited \subseteq 1 .. started
    /\ listed \subseteq 1 .. started /\ armed \subseteq 1 .. started
    /\ emitted \in [N!Sessions -> Nat]
    /\ server = "up" => listed = (1 .. started) \ exited
    /\ listed \cap exited = {}

\* What a request does to it, if it does anything.
LEMMA ServedSessions ==
  ASSUME SessionsOK, N!Serve
  PROVE  SessionsOK'
<1> USE WorkbenchAssumption DEF WorkbenchAssumption, N!NativeAssumption
<1>1. ASSUME UNCHANGED <<started, proc, ended, exited, listed, armed, emitted>>,
             server' \in {server, "closed", "crashed"}
      PROVE  SessionsOK'
  BY <1>1 DEF SessionsOK
<1>2. ASSUME NEW m, N!WriteAfterEnd(m) PROVE SessionsOK'
  <2>1. server' \in {server, "crashed"} /\ UNCHANGED N!sessions
    BY <1>2 DEF N!WriteAfterEnd, N!Down
  <2> QED
    BY <1>1, <2>1 DEF N!sessions
<1>3. ASSUME NEW m, N!ServeStart(m) PROVE SessionsOK'
  <2>1. /\ started < MaxGens /\ started' = started + 1 /\ listed' = listed \cup {started + 1}
        /\ proc' = [proc EXCEPT ![started + 1] = "up"]
        /\ UNCHANGED <<server, ended, exited, armed, emitted>>
    BY <1>3 DEF N!ServeStart
  <2>2. started \in Nat /\ started + 1 \in N!Sessions
    BY <2>1 DEF SessionsOK, N!Sessions
  <2>3. 1 .. started' = (1 .. started) \cup {started + 1} /\ started + 1 \notin 1 .. started
    BY <2>1, <2>2
  <2>4. \A n \in N!Sessions : proc'[n] # "none" => n <= started'
    BY <2>1, <2>2 DEF SessionsOK, N!Sessions
  <2>5. proc' \in [N!Sessions -> {"none", "up", "waiting", "down"}] /\ started' \in 0 .. MaxGens
    BY <2>1, <2>2 DEF SessionsOK
  <2>6. started + 1 \notin exited
    BY <2>3 DEF SessionsOK
  <2> QED
    BY <2>1, <2>3, <2>4, <2>5, <2>6 DEF SessionsOK
<1>4. ASSUME NEW m, NEW frames, N!ServeFrames(m, frames) PROVE SessionsOK'
  <2>1. \/ N!WriteAfterEnd(m)
        \/ UNCHANGED <<server, started, proc, ended, exited, listed, armed, emitted>>
    BY <1>4 DEF N!ServeFrames, N!sessions
  <2> QED
    BY <1>1, <1>2, <2>1
<1>5. ASSUME NEW m, N!ServeClose(m) PROVE SessionsOK'
  <2>1. \/ N!WriteAfterEnd(m)
        \/ UNCHANGED <<server, started, proc, ended, exited, listed, armed, emitted>>
        \/ /\ m.id \in listed /\ ended' = ended \cup {m.id} /\ armed' = armed \cup {m.id}
           /\ UNCHANGED <<server, started, proc, exited, listed, emitted>>
    BY <1>5 DEF N!ServeClose, N!Hangup, N!sessions
  <2>2. CASE /\ m.id \in listed /\ ended' = ended \cup {m.id} /\ armed' = armed \cup {m.id}
             /\ UNCHANGED <<server, started, proc, exited, listed, emitted>>
    BY <2>2 DEF SessionsOK
  <2> QED
    BY <1>1, <1>2, <2>1, <2>2
<1> QED
  BY <1>3, <1>4, <1>5 DEF N!Serve, N!ServeInput, N!ServeSignal

\* A step of the server, of a bridge or a shell.
LEMMA SessionsKept ==
  ASSUME SessionsOK, N!Next
  PROVE  SessionsOK'
<1>1. CASE UNCHANGED <<server, N!sessions>>
  BY <1>1 DEF SessionsOK, N!sessions
<1>2. CASE N!Serve
  BY <1>2, ServedSessions
<1>3. CASE N!ShutDown
  <2>1. CASE /\ server' = "closed" /\ ended' = ended \cup listed
             /\ armed' = armed \cup listed /\ listed' = {}
             /\ UNCHANGED <<started, proc, exited, emitted>>
    BY <2>1 DEF SessionsOK
  <2>2. CASE server' = "crashed" /\ UNCHANGED N!sessions
    BY <2>2 DEF SessionsOK, N!sessions
  <2> QED
    BY <1>3, <2>1, <2>2 DEF N!ShutDown, N!Down, N!Hangup
<1>4. ASSUME NEW n \in N!Sessions, N!Output(n) PROVE SessionsOK'
  <2>1. /\ emitted' = [emitted EXCEPT ![n] = @ + 1]
        /\ UNCHANGED <<server, started, proc, ended, exited, listed, armed>>
    BY <1>4 DEF N!Output
  <2> QED
    BY <2>1 DEF SessionsOK
<1>5. ASSUME NEW n \in N!Sessions, N!Exit(n) PROVE SessionsOK'
  <2>1. /\ proc[n] = "down" /\ exited' = exited \cup {n} /\ ended' = ended \cup {n}
        /\ armed' = armed \ {n} /\ listed' = listed \ {n}
        /\ UNCHANGED <<server, started, proc, emitted>>
    BY <1>5 DEF N!Exit, N!Gone
  <2>2. n \in 1 .. started
    BY <2>1, WorkbenchAssumption
       DEF SessionsOK, N!Sessions, WorkbenchAssumption, N!NativeAssumption
  <2> QED
    BY <2>1, <2>2 DEF SessionsOK
<1>6. ASSUME NEW n \in N!Sessions,
             N!KillTimer(n) \/ N!BridgeReads(n) \/ N!BridgeEnds(n) \/ N!ShellEnds(n)
      PROVE  SessionsOK'
  <2>1. /\ n \in armed \/ proc[n] # "none"
        /\ armed' \subseteq armed
        /\ proc' = proc \/ proc' = [proc EXCEPT ![n] = "down"]
           \/ proc' = [proc EXCEPT ![n] = "waiting"]
        /\ UNCHANGED <<server, started, ended, exited, listed, emitted>>
    BY <1>6 DEF N!KillTimer, N!BridgeReads, N!BridgeEnds, N!ShellEnds
  <2>2. n <= started
    <3>1. n \in armed => n \in 1 .. started
      BY DEF SessionsOK
    <3>2. n \in Nat /\ started \in Nat
      BY WorkbenchAssumption
         DEF SessionsOK, N!Sessions, WorkbenchAssumption, N!NativeAssumption
    <3> QED
      BY <2>1, <3>1, <3>2 DEF SessionsOK
  <2> QED
    BY <2>1, <2>2 DEF SessionsOK
<1>7. ASSUME NEW g \in N!Gens, N!ServeStream(g) \/ N!Deliver(g) \/ N!SendInput(g) \/ N!StreamFails(g)
      PROVE  UNCHANGED <<server, N!sessions>>
  BY <1>7 DEF N!ServeStream, N!Deliver, N!SendInput, N!Send, N!StreamFails
<1>8. ASSUME N!Reply \/ N!RequestFails \/ (\E n \in N!Sessions : N!Stop(n))
      PROVE  UNCHANGED <<server, N!sessions>>
  BY <1>8 DEF N!Reply, N!RequestFails, N!Stop
<1>9. ASSUME NEW t \in Tabs,
             \/ \E n \in 0 .. MaxGens : N!OpenTab(t, n)
             \/ N!Type(t) \/ N!Restart(t) \/ N!CloseTab(t)
             \/ \E s \in {N!terminate, N!kill} : N!Signal(t, s)
      PROVE  UNCHANGED <<server, N!sessions>>
  BY <1>9 DEF N!OpenTab, N!Type, N!Restart, N!CloseTab, N!Signal
<1> QED
  BY <1>1, <1>2, <1>3, <1>4, <1>5, <1>6, <1>7, <1>8, <1>9 DEF N!Next, N!Work

Restarts(Q) == {m \in Q : m.kind = "restart"}

\* A request more, one less, or one in another's place.
LEMMA OneMore ==
  ASSUME NEW Q, IsFiniteSet(Q), NEW T, NEW x, T \subseteq Q \cup {x}
  PROVE  /\ IsFiniteSet(T) /\ Cardinality(Restarts(T)) \in Nat /\ Cardinality(Restarts(Q)) \in Nat
         /\ Cardinality(Restarts(T)) <= Cardinality(Restarts(Q)) + 1
         /\ x.kind # "restart" => Cardinality(Restarts(T)) <= Cardinality(Restarts(Q))
<1>1. IsFiniteSet(Restarts(Q))
  BY FS_Subset DEF Restarts
<1>2. IsFiniteSet(Q \cup {x}) /\ IsFiniteSet(Restarts(Q) \cup {x})
  BY <1>1, FS_AddElement
<1>3. IsFiniteSet(T) /\ IsFiniteSet(Restarts(T))
  BY <1>2, FS_Subset DEF Restarts
<1>4. /\ Cardinality(Restarts(Q) \cup {x}) <= Cardinality(Restarts(Q)) + 1
      /\ Cardinality(Restarts(Q)) \in Nat /\ Cardinality(Restarts(T)) \in Nat
      /\ Cardinality(Restarts(Q) \cup {x}) \in Nat
  BY <1>1, <1>2, <1>3, FS_AddElement, FS_CardinalityType
<1>5. Restarts(T) \subseteq Restarts(Q) \cup {x}
  BY DEF Restarts
<1>6. Cardinality(Restarts(T)) <= Cardinality(Restarts(Q) \cup {x})
  BY <1>2, <1>5, FS_Subset
<1>7. x.kind # "restart" => Restarts(T) \subseteq Restarts(Q)
  BY DEF Restarts
<1>8. x.kind # "restart" => Cardinality(Restarts(T)) <= Cardinality(Restarts(Q))
  BY <1>1, <1>7, FS_Subset
<1> QED
  BY <1>3, <1>4, <1>6, <1>8

LEMMA OneLess ==
  ASSUME NEW Q, IsFiniteSet(Q), NEW m \in Q
  PROVE  /\ IsFiniteSet(Q \ {m})
         /\ Cardinality(Restarts(Q \ {m})) \in Nat /\ Cardinality(Restarts(Q)) \in Nat
         /\ Cardinality(Restarts(Q \ {m})) <= Cardinality(Restarts(Q))
         /\ m.kind = "restart" => Cardinality(Restarts(Q \ {m})) = Cardinality(Restarts(Q)) - 1
<1>1. IsFiniteSet(Restarts(Q)) /\ IsFiniteSet(Q \ {m})
  BY FS_Subset DEF Restarts
<1>2. Restarts(Q \ {m}) = Restarts(Q) \ {m}
  BY DEF Restarts
<1>3. m.kind = "restart" <=> m \in Restarts(Q)
  BY DEF Restarts
<1>4. IsFiniteSet(Restarts(Q) \ {m})
  BY <1>1, FS_Subset
<1>5. /\ Cardinality(Restarts(Q)) \in Nat /\ Cardinality(Restarts(Q) \ {m}) \in Nat
      /\ Cardinality(Restarts(Q) \ {m}) <= Cardinality(Restarts(Q))
  BY <1>1, <1>4, FS_Subset, FS_CardinalityType
<1>6. m \in Restarts(Q) => Cardinality(Restarts(Q) \ {m}) = Cardinality(Restarts(Q)) - 1
  BY <1>1, FS_RemoveElement
<1> QED
  BY <1>1, <1>2, <1>3, <1>5, <1>6

LEMMA OneReplaced ==
  ASSUME NEW Q, IsFiniteSet(Q), NEW m \in Q, NEW T, NEW x, T \subseteq (Q \ {m}) \cup {x},
         x.kind = "restart" => m.kind = "restart"
  PROVE  /\ IsFiniteSet(T) /\ Cardinality(Restarts(T)) \in Nat /\ Cardinality(Restarts(Q)) \in Nat
         /\ Cardinality(Restarts(T)) <= Cardinality(Restarts(Q))
         /\ m.kind = "restart" /\ x.kind # "restart" =>
               Cardinality(Restarts(T)) <= Cardinality(Restarts(Q)) - 1
<1>1. PICK R : R = Q \ {m}
  OBVIOUS
<1>2. /\ IsFiniteSet(R) /\ Cardinality(Restarts(R)) \in Nat /\ Cardinality(Restarts(Q)) \in Nat
      /\ Cardinality(Restarts(R)) <= Cardinality(Restarts(Q))
      /\ m.kind = "restart" => Cardinality(Restarts(R)) = Cardinality(Restarts(Q)) - 1
  BY <1>1, OneLess
<1>3. T \subseteq R \cup {x}
  BY <1>1
<1>4. /\ IsFiniteSet(T) /\ Cardinality(Restarts(T)) \in Nat
      /\ Cardinality(Restarts(T)) <= Cardinality(Restarts(R)) + 1
      /\ x.kind # "restart" => Cardinality(Restarts(T)) <= Cardinality(Restarts(R))
  BY <1>2, <1>3, OneMore
<1> QED
  BY <1>2, <1>4

LEMMA BegunIs ==
  /\ N!Begun = gens + Cardinality(Restarts(net))
  /\ N!Begun' = gens' + Cardinality(Restarts(net'))
<1>1. Restarts(net) = {m \in net : m.kind = "restart"}
  BY DEF Restarts
<1>2. Restarts(net') = {m \in net' : m.kind = "restart"}
  BY DEF Restarts
<1>3. \A Q : N!Cardinality(Q) = Cardinality(Q)
  BY DEF N!Cardinality, Cardinality
<1> QED
  BY <1>1, <1>2, <1>3 DEF N!Begun

NativeFields == {"tab", "id", "closed", "stopping", "lost", "chain"}
RequestFields == {"kind", "gen", "tab", "id", "data", "reply"}

\* What the page has: no more generations, with those whose restarts are under way, than there
\* may be.
PageOK ==
    /\ gens \in 0 .. MaxGens /\ open \subseteq Tabs /\ cur \in [Tabs -> 0 .. gens]
    /\ DOMAIN nat = N!Gens /\ \A g \in N!Gens : DOMAIN nat[g] = NativeFields
    /\ IsFiniteSet(net) /\ \A m \in net : DOMAIN m = RequestFields
    /\ N!Begun <= MaxGens

\* The requests there are, with one less, changed or added; no generation begins.
LEMMA SameGens ==
  ASSUME PageOK, UNCHANGED <<gens, cur>>, open' \subseteq Tabs,
         DOMAIN nat' = N!Gens, \A g \in N!Gens : DOMAIN nat'[g] = NativeFields,
         \/ net' \subseteq net
         \/ \E x : \E m \in net : /\ net' \subseteq (net \ {m}) \cup {x} /\ x.kind = m.kind
                              /\ DOMAIN x = RequestFields
         \/ \E x : /\ net' = net \cup {x} /\ DOMAIN x = RequestFields
                   /\ x.kind = "restart" => N!Begun < MaxGens
  PROVE  PageOK'
<1>1. gens \in Nat /\ MaxGens \in Nat /\ IsFiniteSet(net)
      /\ gens + Cardinality(Restarts(net)) <= MaxGens
  BY WorkbenchAssumption, BegunIs DEF WorkbenchAssumption, N!NativeAssumption, PageOK
<1>2. SUFFICES /\ IsFiniteSet(net') /\ \A m \in net' : DOMAIN m = RequestFields
               /\ gens + Cardinality(Restarts(net')) <= MaxGens
  BY BegunIs DEF PageOK
<1>3. CASE net' \subseteq net
  <2>1. Restarts(net') \subseteq Restarts(net) /\ IsFiniteSet(Restarts(net))
    BY <1>1, <1>3, FS_Subset DEF Restarts
  <2>2. IsFiniteSet(net') /\ Cardinality(Restarts(net')) <= Cardinality(Restarts(net))
    BY <1>1, <1>3, <2>1, FS_Subset
  <2>3. Cardinality(Restarts(net')) \in Nat /\ Cardinality(Restarts(net)) \in Nat
    BY <2>1, FS_Subset, FS_CardinalityType
  <2> QED
    BY <1>1, <1>3, <2>2, <2>3 DEF PageOK
<1>4. CASE \E x : \E m \in net : /\ net' \subseteq (net \ {m}) \cup {x} /\ x.kind = m.kind
                             /\ DOMAIN x = RequestFields
  <2>1. PICK x, m : m \in net /\ /\ net' \subseteq (net \ {m}) \cup {x} /\ x.kind = m.kind
                            /\ DOMAIN x = RequestFields
    BY <1>4
  <2>2. /\ IsFiniteSet(net') /\ Cardinality(Restarts(net')) \in Nat
        /\ Cardinality(Restarts(net)) \in Nat
        /\ Cardinality(Restarts(net')) <= Cardinality(Restarts(net))
    BY <1>1, <2>1, OneReplaced
  <2> QED
    BY <1>1, <2>1, <2>2 DEF PageOK
<1>5. CASE \E x : /\ net' = net \cup {x} /\ DOMAIN x = RequestFields
                  /\ x.kind = "restart" => N!Begun < MaxGens
  <2>1. PICK x : /\ net' = net \cup {x} /\ DOMAIN x = RequestFields
                 /\ x.kind = "restart" => N!Begun < MaxGens
    BY <1>5
  <2>2. /\ IsFiniteSet(net') /\ Cardinality(Restarts(net')) \in Nat
        /\ Cardinality(Restarts(net)) \in Nat
        /\ Cardinality(Restarts(net')) <= Cardinality(Restarts(net)) + 1
        /\ x.kind # "restart" => Cardinality(Restarts(net')) <= Cardinality(Restarts(net))
    BY <1>1, <2>1, OneMore
  <2>3. x.kind = "restart" => gens + Cardinality(Restarts(net)) < MaxGens
    BY <2>1, BegunIs
  <2> QED
    BY <1>1, <2>1, <2>2, <2>3 DEF PageOK
<1> QED
  BY <1>3, <1>4, <1>5

\* A tab is given its next native state: there is room for one more generation, or that of a
\* restart that is answered.
LEMMA RenewKeeps ==
  ASSUME PageOK, NEW t, NEW id, NEW states, NEW requests,
         DOMAIN states = N!Gens, \A g \in N!Gens : DOMAIN states[g] = NativeFields,
         N!Renew(t, id, states, requests), open' \subseteq Tabs,
         \/ requests = net /\ N!Begun < MaxGens
         \/ \E m \in net : requests = net \ {m} /\ m.kind = "restart"
  PROVE  PageOK'
<1>1. gens \in Nat /\ MaxGens \in Nat /\ IsFiniteSet(net)
      /\ gens + Cardinality(Restarts(net)) <= MaxGens
  BY WorkbenchAssumption, BegunIs DEF WorkbenchAssumption, N!NativeAssumption, PageOK
<1>2. PICK x : x = N!Request("start", gens + 1, t, 0, <<>>)
  OBVIOUS
<1>3. /\ gens' = gens + 1 /\ cur' = [cur EXCEPT ![t] = gens + 1]
      /\ nat' = [states EXCEPT ![gens + 1] = [N!NoNative EXCEPT !.tab = t, !.id = id]]
      /\ net' \subseteq requests \cup {x} /\ requests \subseteq net'
  BY <1>2 DEF N!Renew
<1>4. x.kind = "start" /\ DOMAIN x = RequestFields
  BY <1>2 DEF N!Request, RequestFields
<1>5. /\ IsFiniteSet(net') /\ Cardinality(Restarts(net')) \in Nat
      /\ Cardinality(Restarts(net)) \in Nat
      /\ gens + 1 + Cardinality(Restarts(net')) <= MaxGens
  <2>1. CASE requests = net /\ N!Begun < MaxGens
    <3>1. /\ IsFiniteSet(net') /\ Cardinality(Restarts(net')) \in Nat
          /\ Cardinality(Restarts(net)) \in Nat
          /\ Cardinality(Restarts(net')) <= Cardinality(Restarts(net))
      BY <1>1, <1>3, <1>4, <2>1, OneMore
    <3>2. gens + Cardinality(Restarts(net)) < MaxGens
      BY <2>1, BegunIs
    <3> QED
      BY <1>1, <3>1, <3>2
  <2>2. CASE \E m \in net : requests = net \ {m} /\ m.kind = "restart"
    <3>1. PICK m \in net : requests = net \ {m} /\ m.kind = "restart"
      BY <2>2
    <3>2. net' \subseteq (net \ {m}) \cup {x}
      BY <1>3, <3>1
    <3>3. /\ IsFiniteSet(net') /\ Cardinality(Restarts(net')) \in Nat
          /\ Cardinality(Restarts(net)) \in Nat
          /\ Cardinality(Restarts(net')) <= Cardinality(Restarts(net)) - 1
      BY <1>1, <1>4, <3>1, <3>2, OneReplaced
    <3> QED
      BY <1>1, <3>3
  <2> QED
    BY <2>1, <2>2
<1>6. gens' \in 0 .. MaxGens /\ N!Begun' <= MaxGens
  BY <1>1, <1>3, <1>5, BegunIs
<1>7. cur' \in [Tabs -> 0 .. gens']
  <2>1. cur \in [Tabs -> 0 .. gens] /\ 0 .. gens \subseteq 0 .. gens' /\ gens + 1 \in 0 .. gens'
    BY <1>1, <1>3 DEF PageOK
  <2>2. cur' = [u \in Tabs |-> IF u = t THEN gens + 1 ELSE cur[u]]
    BY <1>3, <2>1
  <2> QED
    BY <2>1, <2>2
<1>8. DOMAIN [N!NoNative EXCEPT !.tab = t, !.id = id] = NativeFields
  BY DEF N!NoNative, NativeFields
<1>9. DOMAIN nat' = N!Gens /\ \A g \in N!Gens : DOMAIN nat'[g] = NativeFields
  BY <1>3, <1>8
<1>10. \A m \in net' : DOMAIN m = RequestFields
  <2>1. requests \subseteq net
    OBVIOUS
  <2> QED
    BY <1>3, <1>4, <2>1 DEF PageOK
<1> QED
  BY <1>5, <1>6, <1>7, <1>9, <1>10 DEF PageOK

\* What a request served, or lost, leaves of the requests.
Settled == \E x : \E m \in net : /\ net' \subseteq (net \ {m}) \cup {x} /\ x.kind = m.kind
                                 /\ DOMAIN x = RequestFields

LEMMA AnswerSettles ==
  ASSUME PageOK, NEW m \in net, NEW reply, N!Answered(m, reply)
  PROVE  Settled
<1>1. PICK x : x = [m EXCEPT !.reply = reply]
  OBVIOUS
<1>2. DOMAIN m = RequestFields
  BY DEF PageOK
<1>3. x.kind = m.kind /\ DOMAIN x = RequestFields
  BY <1>1, <1>2 DEF RequestFields
<1>4. net' \subseteq (net \ {m}) \cup {x}
  BY <1>1 DEF N!Answered
<1> QED
  BY <1>3, <1>4 DEF Settled

LEMMA ServedNet ==
  ASSUME PageOK, N!Serve
  PROVE  UNCHANGED N!page /\ (net' \subseteq net \/ Settled)
<1>1. PICK m \in net : N!ServeStart(m) \/ N!ServeInput(m) \/ N!ServeSignal(m) \/ N!ServeClose(m)
  BY DEF N!Serve
<1>2. ASSUME N!WriteAfterEnd(m) PROVE net' \subseteq net \/ Settled
  BY <1>1, <1>2, AnswerSettles DEF N!WriteAfterEnd, N!Down
<1>3. ASSUME NEW frames, N!ServeFrames(m, frames) PROVE net' \subseteq net \/ Settled
  <2>1. N!WriteAfterEnd(m) \/ \E reply : N!Answered(m, reply)
    BY <1>3 DEF N!ServeFrames
  <2> QED
    BY <1>1, <1>2, <2>1, AnswerSettles
<1>4. ASSUME N!ServeStart(m) PROVE net' \subseteq net \/ Settled
  <2>1. PICK x : x = [m EXCEPT !.reply = "ok", !.id = started + 1]
    OBVIOUS
  <2>2. DOMAIN m = RequestFields
    BY <1>1 DEF PageOK
  <2>3. x.kind = m.kind /\ DOMAIN x = RequestFields
    BY <2>1, <2>2 DEF RequestFields
  <2>4. net' \subseteq (net \ {m}) \cup {x}
    BY <1>4, <2>1 DEF N!ServeStart
  <2> QED
    BY <1>1, <2>3, <2>4 DEF Settled
<1>5. ASSUME N!ServeClose(m) PROVE net' \subseteq net \/ Settled
  <2>1. N!WriteAfterEnd(m) \/ \E reply : N!Answered(m, reply)
    BY <1>5 DEF N!ServeClose
  <2> QED
    BY <1>1, <1>2, <2>1, AnswerSettles
<1>6. net' \subseteq net \/ Settled
  BY <1>1, <1>3, <1>4, <1>5 DEF N!ServeInput, N!ServeSignal
<1>7. UNCHANGED N!page
  BY DEF N!Serve
<1> QED
  BY <1>6, <1>7

LEMMA PageReplies ==
  ASSUME PageOK, NEW m \in net, N!StartReply(m) \/ N!SettleReply(m) \/ N!RestartReply(m)
  PROVE  PageOK'
<1>1. DOMAIN nat = N!Gens /\ \A g \in N!Gens : DOMAIN nat[g] = NativeFields
  BY DEF PageOK
<1>2. CASE N!StartReply(m)
  <2>1. net' \subseteq net /\ UNCHANGED <<open, cur, gens>>
    BY <1>2 DEF N!StartReply
  <2>2. DOMAIN nat' = N!Gens /\ \A g \in N!Gens : DOMAIN nat'[g] = NativeFields
    BY <1>1, <1>2 DEF N!StartReply, NativeFields
  <2> QED
    BY <2>1, <2>2, SameGens DEF PageOK
<1>3. CASE N!SettleReply(m)
  <2>1. net' \subseteq net /\ UNCHANGED <<open, cur, gens>>
    BY <1>3 DEF N!SettleReply
  <2>2. DOMAIN nat' = N!Gens /\ \A g \in N!Gens : DOMAIN nat'[g] = NativeFields
    BY <1>1, <1>3 DEF N!SettleReply, N!Native, NativeFields
  <2> QED
    BY <2>1, <2>2, SameGens DEF PageOK
<1>4. CASE N!RestartReply(m)
  <2>1. /\ m.kind = "restart" /\ N!Renew(m.tab, 0, nat, net \ {m}) /\ open' = open
    BY <1>4 DEF N!RestartReply
  <2> QED
    BY <1>1, <2>1, RenewKeeps DEF PageOK
<1> QED
  BY <1>2, <1>3, <1>4

LEMMA PageClicks ==
  ASSUME PageOK, NEW t \in Tabs, cur[t] # 0,
         \/ N!Type(t) \/ N!Restart(t) \/ N!CloseTab(t)
         \/ \E s \in {N!terminate, N!kill} : N!Signal(t, s)
  PROVE  PageOK'
<1>1. DOMAIN nat = N!Gens /\ \A g \in N!Gens : DOMAIN nat[g] = NativeFields
  BY DEF PageOK
<1>2. PICK c : c = cur[t]
  OBVIOUS
<1>3. c \in N!Gens
  BY <1>2, WorkbenchAssumption
     DEF PageOK, N!Gens, WorkbenchAssumption, N!NativeAssumption
<1>4. /\ DOMAIN N!Shut(c) = N!Gens
      /\ \A g \in N!Gens : DOMAIN N!Shut(c)[g] = NativeFields
  BY <1>1, <1>3 DEF N!Shut, NativeFields
<1>5. ASSUME NEW kind, NEW id, NEW data
      PROVE  /\ N!Request(kind, c, t, id, data).kind = kind
             /\ DOMAIN N!Request(kind, c, t, id, data) = RequestFields
  BY DEF N!Request, RequestFields
<1>6. CASE N!Type(t)
  <2>1. net' \subseteq net /\ UNCHANGED <<open, cur, gens>>
    BY <1>6 DEF N!Type
  <2>2. DOMAIN nat' = N!Gens /\ \A g \in N!Gens : DOMAIN nat'[g] = NativeFields
    BY <1>1, <1>6 DEF N!Type, NativeFields
  <2> QED
    BY <2>1, <2>2, SameGens DEF PageOK
<1>7. CASE N!Restart(t)
  <2>1. open' = open /\ N!Begun < MaxGens
    BY <1>7 DEF N!Restart
  <2>2. CASE N!Renew(t, 0, N!Shut(c), net)
    BY <1>4, <2>1, <2>2, RenewKeeps DEF PageOK
  <2>3. CASE /\ nat' = N!Shut(c) /\ UNCHANGED <<cur, gens>>
             /\ net' = net \cup {N!Request("restart", c, t, nat[c].id, <<>>)}
    BY <1>4, <1>5, <2>1, <2>3, SameGens DEF PageOK
  <2> QED
    BY <1>2, <1>7, <2>2, <2>3 DEF N!Restart
<1>8. CASE N!CloseTab(t)
  <2>1. /\ nat' = N!Shut(c) /\ UNCHANGED <<cur, gens>> /\ open' \subseteq open
        /\ \/ net' = net
           \/ net' = net \cup {N!Request("close", c, t, nat[c].id, <<>>)}
    BY <1>2, <1>8 DEF N!CloseTab
  <2> QED
    BY <1>4, <1>5, <2>1, SameGens DEF PageOK
<1>9. ASSUME NEW s, N!Signal(t, s) PROVE PageOK'
  <2>1. /\ nat' = [nat EXCEPT ![c].stopping = s = N!kill] /\ UNCHANGED <<open, cur, gens>>
        /\ net' = net \cup {N!Request("signal", c, t, N!Native(t).id, <<s>>)}
    BY <1>2, <1>9 DEF N!Signal
  <2>2. DOMAIN nat' = N!Gens /\ \A g \in N!Gens : DOMAIN nat'[g] = NativeFields
    BY <1>1, <2>1 DEF NativeFields
  <2> QED
    BY <1>5, <2>1, <2>2, SameGens DEF PageOK
<1> QED
  BY <1>6, <1>7, <1>8, <1>9

LEMMA PageKept ==
  ASSUME PageOK, N!Next
  PROVE  PageOK'
<1> USE DEF N!page
<1>1. DOMAIN nat = N!Gens /\ \A g \in N!Gens : DOMAIN nat[g] = NativeFields
  BY DEF PageOK
<1>2. ASSUME UNCHANGED N!page, net' \subseteq net \/ Settled PROVE PageOK'
  BY <1>1, <1>2, SameGens DEF Settled, PageOK
<1>3. CASE N!Serve \/ N!RequestFails \/ N!ShutDown
  <2>1. CASE N!RequestFails
    BY <1>2, <2>1, AnswerSettles DEF N!RequestFails
  <2>2. CASE N!ShutDown
    BY <1>2, <2>2 DEF N!ShutDown, N!Down
  <2> QED
    BY <1>2, <1>3, <2>1, <2>2, ServedNet
<1>4. CASE N!Reply
  BY <1>4, PageReplies DEF N!Reply
<1>5. ASSUME NEW g \in N!Gens, N!ServeStream(g) \/ N!Deliver(g) \/ N!StreamFails(g) PROVE PageOK'
  <2>1. UNCHANGED <<open, cur, gens, net>>
    BY <1>5 DEF N!ServeStream, N!Deliver, N!StreamFails
  <2>2. DOMAIN nat' = N!Gens /\ \A h \in N!Gens : DOMAIN nat'[h] = NativeFields
    BY <1>1, <1>5 DEF N!ServeStream, N!Deliver, N!StreamFails, N!Shown, NativeFields
  <2> QED
    BY <2>1, <2>2, SameGens DEF PageOK
<1>6. ASSUME NEW g \in N!Gens, N!SendInput(g) PROVE PageOK'
  <2>1. PICK x : x = N!Request("input", g, nat[g].tab, N!Native(nat[g].tab).id, Head(nat[g].chain))
    OBVIOUS
  <2>2. /\ net' = net \cup {x} /\ nat' = [nat EXCEPT ![g].chain = Tail(@)]
        /\ UNCHANGED <<open, cur, gens>>
    BY <1>6, <2>1 DEF N!SendInput, N!Send
  <2>3. x.kind = "input" /\ DOMAIN x = RequestFields
    BY <2>1 DEF N!Request, RequestFields
  <2>4. DOMAIN nat' = N!Gens /\ \A h \in N!Gens : DOMAIN nat'[h] = NativeFields
    BY <1>1, <2>2 DEF NativeFields
  <2> QED
    BY <2>2, <2>3, <2>4, SameGens DEF PageOK
<1>7. ASSUME NEW n \in N!Sessions,
             \/ N!Exit(n) \/ N!KillTimer(n) \/ N!BridgeReads(n) \/ N!BridgeEnds(n)
             \/ N!ShellEnds(n) \/ N!Output(n)
      PROVE  PageOK'
  <2>1. UNCHANGED <<N!page, net>>
    BY <1>7 DEF N!Exit, N!KillTimer, N!BridgeReads, N!BridgeEnds, N!ShellEnds, N!Output
  <2> QED
    BY <1>2, <2>1
<1>8. ASSUME NEW n \in N!Sessions, N!Stop(n) PROVE PageOK'
  <2>1. PICK x, t : /\ net' = net \cup {x} /\ \E g : x = N!Request("stop", g, t, n, <<>>)
                    /\ nat' = nat \/ nat' = [nat EXCEPT ![cur[t]].stopping = TRUE]
                    /\ UNCHANGED <<open, cur, gens>>
    BY <1>8 DEF N!Stop
  <2>2. x.kind = "stop" /\ DOMAIN x = RequestFields
    BY <2>1 DEF N!Request, RequestFields
  <2>3. DOMAIN nat' = N!Gens /\ \A h \in N!Gens : DOMAIN nat'[h] = NativeFields
    BY <1>1, <2>1 DEF NativeFields
  <2> QED
    BY <2>1, <2>2, <2>3, SameGens DEF PageOK
<1>9. ASSUME NEW t \in Tabs, NEW n \in 0 .. MaxGens, N!OpenTab(t, n) PROVE PageOK'
  <2>1. open' \subseteq Tabs /\ N!Begun < MaxGens /\ N!Renew(t, n, nat, net)
    BY <1>9 DEF N!OpenTab, PageOK
  <2> QED
    BY <1>1, <2>1, RenewKeeps
<1> QED
  BY <1>3, <1>4, <1>5, <1>6, <1>7, <1>8, <1>9, PageClicks DEF N!Next, N!Work

\* Events of a stream, and streams.
Events == [event : {"ready", "data", "exit", "done"}, from : Int, to : Int]
LinkFields == {"state", "id", "from", "q", "seen"}
LinkStates == {"none", "asked", "refused", "open", "ended", "over"}

\* What a stream has told is the output from one piece to another, none missing or twice.
Told(s, from, to) ==
    /\ s # <<>> /\ s[1].from = from
    /\ \A i \in 1 .. Len(s) - 1 : s[i + 1].from = s[i].to + 1
    /\ s[Len(s)].to = to

\* A stream, with what the shells have written and which have ended.  One that is asked for
\* has told nothing.
LinkOK(l, written, gone) ==
    /\ DOMAIN l = LinkFields /\ l.state \in LinkStates
    /\ l.q \in Seq(Events) /\ l.seen \in Seq(Events)
    /\ l.state = "asked" => l.seen = <<>>
    /\ l.state = "open" =>
         /\ l.id \in N!Sessions /\ l.id \notin gone
         /\ Told(l.seen \o l.q, N!BacklogFrom(l.from), written[l.id])

LinksOK == DOMAIN link = N!Gens /\ \A g \in N!Gens : LinkOK(link[g], emitted, exited)

\* One more piece is told.
LEMMA OneMoreTold ==
  ASSUME NEW s \in Seq(Events), NEW from, NEW k \in Int, Told(s, from, k),
         NEW e \in Events, e.from = k + 1
  PROVE  Told(Append(s, e), from, e.to)
<1>1. PICK z : z = Append(s, e)
  OBVIOUS
<1>2. /\ Len(s) \in Nat /\ Len(z) = Len(s) + 1 /\ z[Len(s) + 1] = e
      /\ \A i \in 1 .. Len(s) : z[i] = s[i]
  BY <1>1
<1>3. Len(s) # 0 /\ s[1].from = from /\ s[Len(s)].to = k
      /\ \A i \in 1 .. Len(s) - 1 : s[i + 1].from = s[i].to + 1
  BY DEF Told
<1>4. z[1].from = from /\ z # <<>> /\ z[Len(z)].to = e.to
  BY <1>2, <1>3
<1>5. ASSUME NEW i \in 1 .. Len(z) - 1 PROVE z[i + 1].from = z[i].to + 1
  <2>1. CASE i = Len(s)
    BY <1>2, <1>3, <2>1
  <2>2. CASE i # Len(s)
    <3>1. i \in 1 .. Len(s) - 1 /\ i \in 1 .. Len(s) /\ i + 1 \in 1 .. Len(s)
      BY <1>2, <2>2
    <3>2. z[i + 1] = s[i + 1] /\ z[i] = s[i]
      BY <1>2, <3>1
    <3> QED
      BY <1>3, <3>1, <3>2
  <2> QED
    BY <2>1, <2>2
<1> QED
  BY <1>1, <1>4, <1>5 DEF Told

\* Pieces added behind what is queued, and pieces shown, in what is told.
LEMMA TellingOn ==
  ASSUME NEW p \in Seq(Events), NEW q \in Seq(Events)
  PROVE  /\ \A e \in Events : p \o Append(q, e) = Append(p \o q, e)
         /\ q # <<>> => /\ Head(q) \in Events /\ Tail(q) \in Seq(Events)
                        /\ Append(p, Head(q)) \in Seq(Events)
                        /\ Append(p, Head(q)) \o Tail(q) = p \o q
<1>1. ASSUME NEW e \in Events PROVE p \o Append(q, e) = Append(p \o q, e)
  OBVIOUS
<1>2. ASSUME q # <<>>
      PROVE  /\ Head(q) \in Events /\ Tail(q) \in Seq(Events)
             /\ Append(p, Head(q)) \in Seq(Events)
             /\ Append(p, Head(q)) \o Tail(q) = p \o q
  <2>1. /\ Head(q) \in Events /\ Tail(q) \in Seq(Events) /\ Append(p, Head(q)) \in Seq(Events)
        /\ Head(q) = q[1] /\ Len(Tail(q)) = Len(q) - 1 /\ Len(q) \in Nat /\ Len(q) > 0
        /\ \A i \in 1 .. Len(q) - 1 : Tail(q)[i] = q[i + 1]
    BY <1>2
  <2>2. PICK a, b : a = Append(p, Head(q)) /\ b = Tail(q)
    OBVIOUS
  <2>3. /\ a \in Seq(Events) /\ b \in Seq(Events) /\ Len(a) = Len(p) + 1
        /\ a[Len(p) + 1] = q[1] /\ \A i \in 1 .. Len(p) : a[i] = p[i]
        /\ \A i \in 1 .. Len(q) - 1 : b[i] = q[i + 1]
    BY <2>1, <2>2
  <2>4. Len(a \o b) = Len(p \o q)
    BY <2>1, <2>2, <2>3
  <2>5. ASSUME NEW i \in 1 .. Len(p \o q) PROVE (a \o b)[i] = (p \o q)[i]
    <3>1. CASE i <= Len(p)
      BY <2>1, <2>2, <2>3, <2>5, <3>1
    <3>2. CASE i = Len(p) + 1
      BY <2>1, <2>2, <2>3, <2>5, <3>2
    <3>3. CASE i > Len(p) + 1
      <4>1. PICK j : j = i - Len(a)
        OBVIOUS
      <4>2. /\ j \in 1 .. Len(q) - 1 /\ i = Len(a) + j /\ i = Len(p) + (j + 1)
            /\ j \in 1 .. Len(b) /\ j + 1 \in 1 .. Len(q)
        BY <2>1, <2>2, <2>3, <2>5, <3>3, <4>1
      <4>3. (a \o b)[i] = b[j] /\ (p \o q)[i] = q[j + 1]
        BY <2>3, <4>2
      <4>4. b[j] = q[j + 1]
        BY <2>3, <4>2
      <4> QED
        BY <4>3, <4>4, Zenon
    <3>4. i \in Int /\ Len(p) \in Nat
      BY <2>5
    <3>5. i <= Len(p) \/ i = Len(p) + 1 \/ i > Len(p) + 1
      BY <3>4
    <3> QED
      BY <3>1, <3>2, <3>3, <3>5, Zenon
  <2>6. a \o b \in Seq(Events) /\ p \o q \in Seq(Events)
    BY <2>3, <2>2, <2>1
  <2>7. a \o b = p \o q
    BY <2>4, <2>5, <2>6
  <2> QED
    BY <2>1, <2>2, <2>7
<1> QED
  BY <1>1, <1>2

\* What a new subscriber is given reaches back over the backlog.
LEMMA SubscribedIsTold ==
  ASSUME SessionsOK, NEW n \in N!Sessions
  PROVE  /\ N!subscribe(n) \in Seq(Events)
         /\ Told(N!subscribe(n), N!BacklogFrom(emitted[n]), emitted[n])
<1>1. PICK k : k = N!BacklogFrom(emitted[n])
  OBVIOUS
<1>2. emitted[n] \in Nat /\ Backlog \in Nat \ {0}
  BY WorkbenchAssumption DEF SessionsOK, WorkbenchAssumption, N!NativeAssumption
<1>3. k \in Int /\ (emitted[n] = 0 => k = 1)
  BY <1>1, <1>2 DEF N!BacklogFrom
<1>4. PICK r, d : r = N!Event("ready", k - 1) /\ d = N!Data(k, emitted[n])
  OBVIOUS
<1>5. /\ r \in Events /\ r.from = k /\ r.to = k - 1
      /\ d \in Events /\ d.from = k /\ d.to = emitted[n]
  BY <1>2, <1>3, <1>4 DEF N!Event, N!Data, Events
<1>6. Told(<<r>>, k, k - 1) /\ <<r>> \in Seq(Events)
  BY <1>5 DEF Told
<1>7. CASE emitted[n] = 0
  <2>1. N!subscribe(n) = <<r>>
    BY <1>1, <1>4, <1>5, <1>7 DEF N!subscribe
  <2> QED
    BY <1>1, <1>3, <1>6, <1>7, <2>1
<1>8. CASE emitted[n] # 0
  <2>1. PICK s : s = <<r>>
    OBVIOUS
  <2>2. N!subscribe(n) = <<r>> \o <<d>>
    BY <1>1, <1>4, <1>8 DEF N!subscribe
  <2>3. <<r>> \o <<d>> = Append(<<r>>, d)
    BY <1>5
  <2>4. k - 1 \in Int /\ d.from = (k - 1) + 1 /\ s \in Seq(Events) /\ Told(s, k, k - 1)
    BY <1>3, <1>5, <1>6, <2>1
  <2>5. Told(Append(s, d), k, d.to) /\ Append(s, d) \in Seq(Events)
    BY <1>5, <2>4, OneMoreTold
  <2> QED
    BY <1>1, <1>5, <2>1, <2>2, <2>3, <2>5
<1> QED
  BY <1>7, <1>8

\* A stream that is as it was, is over, or is asked for anew; what the shells it may follow have
\* written, and which have ended, is as it was.
LEMMA LinksStay ==
  ASSUME LinksOK, DOMAIN link' = N!Gens, UNCHANGED <<emitted, exited>>,
         \A g \in N!Gens : \/ link'[g] = link[g] \/ link'[g] = N!Over
                           \/ \E n : link'[g] = [N!NoLink EXCEPT !.state = "asked", !.id = n]
  PROVE  LinksOK'
<1>1. LinkOK(N!Over, emitted, exited)
  <2>1. PICK x : x = N!Over
    OBVIOUS
  <2>2. /\ DOMAIN x = {"state", "id", "from", "q", "seen"}
        /\ x.state = "over" /\ x.q = <<>> /\ x.seen = <<>>
    BY <2>1 DEF N!Over, N!NoLink
  <2>3. <<>> \in Seq(Events)
    BY EmptySeq
  <2>4. DOMAIN x = LinkFields /\ x.state \in LinkStates /\ x.state # "asked" /\ x.state # "open"
    BY <2>2 DEF LinkFields, LinkStates
  <2> QED
    BY <2>1, <2>2, <2>3, <2>4 DEF LinkOK
<1>2. ASSUME NEW n
      PROVE  LinkOK([N!NoLink EXCEPT !.state = "asked", !.id = n], emitted, exited)
  <2>1. PICK x : x = [N!NoLink EXCEPT !.state = "asked", !.id = n]
    OBVIOUS
  <2>2. /\ DOMAIN x = {"state", "id", "from", "q", "seen"}
        /\ x.state = "asked" /\ x.q = <<>> /\ x.seen = <<>>
    BY <2>1 DEF N!NoLink
  <2>3. <<>> \in Seq(Events)
    BY EmptySeq
  <2>4. DOMAIN x = LinkFields /\ x.state \in LinkStates /\ x.state # "open"
    BY <2>2 DEF LinkFields, LinkStates
  <2> QED
    BY <2>1, <2>2, <2>3, <2>4 DEF LinkOK
<1>3. ASSUME NEW g \in N!Gens PROVE LinkOK(link'[g], emitted, exited)
  BY <1>1, <1>2 DEF LinksOK
<1> QED
  BY <1>3 DEF LinksOK

\* The streams that follow a shell: one more piece of its output, or its end.
LEMMA LinksFollow ==
  ASSUME SessionsOK, LinksOK, NEW n \in N!Sessions, N!Output(n) \/ N!Exit(n)
  PROVE  LinksOK'
<1>1. \A g : g \in N!Subscribers(n) <=> g \in N!Gens /\ link[g].state = "open" /\ link[g].id = n
  BY DEF N!Subscribers
<1>2. ASSUME NEW g \in N!Gens, g \notin N!Subscribers(n), link'[g] = link[g],
             emitted' = emitted \/ emitted' = [emitted EXCEPT ![n] = @ + 1],
             exited' = exited \/ exited' = exited \cup {n}
      PROVE  LinkOK(link'[g], emitted', exited')
  <2>1. link[g].state = "open" => link[g].id # n
    BY <1>1, <1>2
  <2>2. link[g].state = "open" =>
          link[g].id \in N!Sessions /\ link[g].id \notin exited' /\ emitted'[link[g].id] = emitted[link[g].id]
    BY <1>2, <2>1 DEF LinksOK, LinkOK, SessionsOK
  <2> QED
    BY <1>2, <2>2 DEF LinksOK, LinkOK
<1>3. CASE N!Output(n)
  <2>1. PICK k : k = emitted[n]
    OBVIOUS
  <2>2. PICK e : e = N!Data(k + 1, k + 1)
    OBVIOUS
  <2>3. k \in Nat
    BY <2>1 DEF SessionsOK
  <2>4. e \in Events /\ e.from = k + 1 /\ e.to = k + 1
    BY <2>2, <2>3 DEF N!Data, Events
  <2>5. /\ emitted' = [emitted EXCEPT ![n] = @ + 1] /\ exited' = exited
        /\ link' = [g \in N!Gens |-> IF g \in N!Subscribers(n)
                                     THEN [link[g] EXCEPT !.q = Append(@, e)] ELSE link[g]]
    BY <1>3, <2>1, <2>2 DEF N!Output
  <2>6. emitted'[n] = k + 1
    BY <2>1, <2>5 DEF SessionsOK
  <2>7. ASSUME NEW g \in N!Gens, g \in N!Subscribers(n)
        PROVE  LinkOK(link'[g], emitted', exited')
    <3>1. PICK l, x : l = link[g] /\ x = link'[g]
      OBVIOUS
    <3>2. /\ DOMAIN l = LinkFields /\ l.state = "open" /\ l.id = n /\ n \notin exited
          /\ l.q \in Seq(Events) /\ l.seen \in Seq(Events)
          /\ Told(l.seen \o l.q, N!BacklogFrom(l.from), k)
      BY <1>1, <2>1, <2>7, <3>1 DEF LinksOK, LinkOK
    <3>3. x = [l EXCEPT !.q = Append(@, e)]
      BY <2>5, <2>7, <3>1
    <3>4. /\ DOMAIN x = LinkFields /\ x.state = "open" /\ x.id = n /\ x.q = Append(l.q, e)
          /\ x.seen = l.seen /\ x.from = l.from
      BY <3>2, <3>3 DEF LinkFields
    <3>5. PICK s : s = l.seen \o l.q
      OBVIOUS
    <3>6. s \in Seq(Events) /\ Told(s, N!BacklogFrom(l.from), k)
      BY <3>2, <3>5
    <3>7. Told(Append(s, e), N!BacklogFrom(l.from), k + 1)
      BY <2>3, <2>4, <3>6, OneMoreTold
    <3>8. /\ l.seen \o Append(l.q, e) = Append(l.seen \o l.q, e)
          /\ Append(l.q, e) \in Seq(Events)
      <4>1. PICK u, v : u = l.q /\ v = l.seen
        OBVIOUS
      <4>2. u \in Seq(Events) /\ v \in Seq(Events)
        BY <3>2, <4>1
      <4>3. v \o Append(u, e) = Append(v \o u, e)
        BY <2>4, <4>2, TellingOn, Zenon
      <4>4. Append(u, e) \in Seq(Events)
        BY <2>4, <4>2
      <4> QED
        BY <4>1, <4>3, <4>4, Zenon
    <3>9. x.seen \o x.q = Append(s, e) /\ x.q \in Seq(Events)
      BY <3>4, <3>5, <3>8, Zenon
    <3>10. Told(x.seen \o x.q, N!BacklogFrom(x.from), emitted'[x.id])
      BY <2>6, <3>4, <3>7, <3>9, Zenon
    <3>11. x.seen \in Seq(Events) /\ x.id \in N!Sessions /\ x.id \notin exited'
      BY <2>5, <3>2, <3>4
    <3> QED
      BY <3>1, <3>4, <3>9, <3>10, <3>11 DEF LinkOK, LinkStates
  <2> QED
    BY <1>2, <2>5, <2>7 DEF LinksOK
<1>4. CASE N!Exit(n)
  <2>1. PICK a, b : a = N!Event("exit", emitted[n]) /\ b = N!Event("done", emitted[n])
    OBVIOUS
  <2>2. a \in Events /\ b \in Events
    BY <2>1 DEF N!Event, Events, SessionsOK
  <2>3. /\ emitted' = emitted /\ exited' = exited \cup {n}
        /\ link' = [g \in N!Gens |-> IF g \in N!Subscribers(n)
                                     THEN [link[g] EXCEPT !.q = @ \o <<a, b>>, !.state = "ended"]
                                     ELSE link[g]]
    BY <1>4, <2>1 DEF N!Exit, N!Gone, N!Ended
  <2>4. ASSUME NEW g \in N!Gens, g \in N!Subscribers(n)
        PROVE  LinkOK(link'[g], emitted', exited')
    <3>1. PICK l, x : l = link[g] /\ x = link'[g]
      OBVIOUS
    <3>2. DOMAIN l = LinkFields /\ l.q \in Seq(Events) /\ l.seen \in Seq(Events)
      BY <2>4, <3>1 DEF LinksOK, LinkOK
    <3>3. x = [l EXCEPT !.q = @ \o <<a, b>>, !.state = "ended"]
      BY <2>3, <2>4, <3>1
    <3>4. /\ DOMAIN x = LinkFields /\ x.state = "ended" /\ x.q = l.q \o <<a, b>>
          /\ x.seen = l.seen
      BY <3>2, <3>3 DEF LinkFields
    <3>5. x.q \in Seq(Events)
      BY <2>2, <3>2, <3>4
    <3> QED
      BY <3>1, <3>2, <3>4, <3>5 DEF LinkOK, LinkStates
  <2> QED
    BY <1>2, <2>3, <2>4 DEF LinksOK
<1> QED
  BY <1>3, <1>4

\* A stream that is answered, or delivers what it has; the others are left alone.
LEMMA LinkServed ==
  ASSUME SessionsOK, LinksOK, NEW g \in N!Gens, N!ServeStream(g) \/ N!Deliver(g)
  PROVE  LinksOK'
<1>1. PICK l, x : l = link[g] /\ x = link'[g]
  OBVIOUS
<1>2. LinkOK(l, emitted, exited)
  BY <1>1 DEF LinksOK
<1>3. /\ DOMAIN l = LinkFields /\ l.q \in Seq(Events) /\ l.seen \in Seq(Events)
  BY <1>2 DEF LinkOK
<1>4. ASSUME LinkOK(x, emitted, exited), UNCHANGED <<emitted, exited>>, DOMAIN link' = N!Gens,
             \A h \in N!Gens : h # g => link'[h] = link[h]
      PROVE  LinksOK'
  BY <1>1, <1>4 DEF LinksOK
<1>5. CASE N!ServeStream(g)
  <2>1. /\ UNCHANGED <<emitted, exited>> /\ DOMAIN link' = N!Gens /\ l.state = "asked"
        /\ \A h \in N!Gens : h # g => link'[h] = link[h]
    BY <1>1, <1>5 DEF N!ServeStream, LinksOK, N!sessions
  <2>2. PICK n : n = l.id
    OBVIOUS
  <2>3. CASE n \notin listed
    <3>1. x = [l EXCEPT !.state = "refused"]
      BY <1>1, <1>5, <2>2, <2>3 DEF N!ServeStream, LinksOK
    <3>2. DOMAIN x = LinkFields /\ x.state = "refused" /\ x.q = l.q /\ x.seen = l.seen
      BY <1>3, <3>1 DEF LinkFields
    <3>3. LinkOK(x, emitted, exited)
      BY <1>3, <3>2 DEF LinkOK, LinkStates
    <3> QED
      BY <1>4, <2>1, <3>3
  <2>4. CASE n \in listed
    <3>1. x = [l EXCEPT !.state = "open", !.q = N!subscribe(n), !.from = emitted[n]]
      BY <1>1, <1>5, <2>2, <2>4 DEF N!ServeStream, LinksOK
    <3>2. /\ DOMAIN x = LinkFields /\ x.state = "open" /\ x.q = N!subscribe(n) /\ x.id = n
          /\ x.from = emitted[n] /\ x.seen = l.seen
      BY <1>3, <2>2, <3>1 DEF LinkFields
    <3>3. l.seen = <<>>
      BY <1>2, <2>1 DEF LinkOK
    <3>4. n \in N!Sessions /\ n \notin exited
      BY <2>4, WorkbenchAssumption
         DEF SessionsOK, N!Sessions, WorkbenchAssumption, N!NativeAssumption
    <3>5. /\ N!subscribe(n) \in Seq(Events)
          /\ Told(N!subscribe(n), N!BacklogFrom(emitted[n]), emitted[n])
      BY <3>4, SubscribedIsTold
    <3>6. x.seen \o x.q = N!subscribe(n)
      BY <3>2, <3>3, <3>5, ConcatEmptySeq
    <3>7. LinkOK(x, emitted, exited)
      BY <1>3, <3>2, <3>4, <3>5, <3>6 DEF LinkOK, LinkStates
    <3> QED
      BY <1>4, <2>1, <3>7
  <2> QED
    BY <2>3, <2>4
<1>6. CASE N!Deliver(g)
  <2>1. PICK e : e = Head(l.q)
    OBVIOUS
  <2>2. /\ UNCHANGED <<emitted, exited>> /\ DOMAIN link' = N!Gens /\ l.q # <<>>
        /\ l.state \in {"open", "ended"}
        /\ \A h \in N!Gens : h # g => link'[h] = link[h]
        /\ x = IF e.event = "exit" THEN N!Over
               ELSE [l EXCEPT !.q = Tail(@), !.seen = Append(@, e)]
    <3>1. PICK v : v = [l EXCEPT !.q = Tail(@), !.seen = Append(@, e)]
      OBVIOUS
    <3>2. /\ UNCHANGED <<emitted, exited>> /\ l.q # <<>> /\ l.state \in {"open", "ended"}
          /\ link' = [link EXCEPT ![g] = IF e.event = "exit" THEN N!Over ELSE v]
      BY <1>1, <1>6, <2>1, <3>1 DEF N!Deliver, N!sessions
    <3> QED
      BY <1>1, <3>1, <3>2 DEF LinksOK
  <2>3. CASE e.event = "exit"
    BY <1>1, <2>2, <2>3, LinksStay
  <2>4. CASE e.event # "exit"
    <3>1. /\ DOMAIN x = LinkFields /\ x.state = l.state /\ x.id = l.id /\ x.from = l.from
          /\ x.q = Tail(l.q) /\ x.seen = Append(l.seen, e)
      BY <1>3, <2>2, <2>4 DEF LinkFields
    <3>2. /\ Tail(l.q) \in Seq(Events) /\ Append(l.seen, e) \in Seq(Events)
          /\ Append(l.seen, e) \o Tail(l.q) = l.seen \o l.q
      BY <1>3, <2>1, <2>2, TellingOn
    <3>3. x.seen \o x.q = l.seen \o l.q
      BY <3>1, <3>2, Zenon
    <3>4. LinkOK(x, emitted, exited)
      BY <1>2, <2>2, <3>1, <3>2, <3>3 DEF LinkOK
    <3> QED
      BY <1>4, <2>2, <3>4
  <2> QED
    BY <2>3, <2>4
<1> QED
  BY <1>5, <1>6

LEMMA LinksKept ==
  ASSUME SessionsOK, PageOK, LinksOK, N!Next
  PROVE  LinksOK'
<1>1. ASSUME UNCHANGED <<link, emitted, exited>> PROVE LinksOK'
  BY <1>1 DEF LinksOK
<1>2. ASSUME NEW how, N!Down(how), UNCHANGED <<emitted, exited>> PROVE LinksOK'
  <2>1. link' = [g \in N!Gens |-> IF link[g] = N!NoLink THEN N!NoLink ELSE N!Over]
    BY <1>2 DEF N!Down
  <2> QED
    BY <1>2, <2>1, LinksStay
<1>3. ASSUME NEW g, N!Abort(g), UNCHANGED <<emitted, exited>> PROVE LinksOK'
  <2>1. /\ DOMAIN link' = N!Gens
        /\ \A h \in N!Gens : link'[h] = link[h] \/ link'[h] = N!Over
    BY <1>3 DEF N!Abort, LinksOK
  <2> QED
    BY <1>3, <2>1, LinksStay
<1>4. ASSUME NEW g, NEW n, UNCHANGED <<emitted, exited>>,
             \/ link' = [link EXCEPT ![g] = N!Over]
             \/ link' = [link EXCEPT ![g] = [N!NoLink EXCEPT !.state = "asked", !.id = n]]
      PROVE  LinksOK'
  <2>1. /\ DOMAIN link' = N!Gens
        /\ \A h \in N!Gens : \/ link'[h] = link[h] \/ link'[h] = N!Over
                             \/ link'[h] = [N!NoLink EXCEPT !.state = "asked", !.id = n]
    BY <1>4 DEF LinksOK
  <2> QED
    BY <1>4, <2>1, LinksStay
<1>5. CASE N!Serve
  <2>1. PICK m \in net : N!ServeStart(m) \/ N!ServeInput(m) \/ N!ServeSignal(m) \/ N!ServeClose(m)
    BY <1>5 DEF N!Serve
  <2>2. ASSUME N!WriteAfterEnd(m) PROVE LinksOK'
    BY <1>1, <1>2, <2>2 DEF N!WriteAfterEnd, N!sessions
  <2>3. ASSUME NEW frames, N!ServeFrames(m, frames) PROVE LinksOK'
    BY <1>1, <2>2, <2>3 DEF N!ServeFrames, N!sessions
  <2>4. ASSUME N!ServeClose(m) PROVE LinksOK'
    BY <1>1, <2>2, <2>4 DEF N!ServeClose, N!Hangup, N!sessions
  <2>5. ASSUME N!ServeStart(m) PROVE LinksOK'
    BY <1>1, <2>5 DEF N!ServeStart
  <2> QED
    BY <2>1, <2>3, <2>4, <2>5 DEF N!ServeInput, N!ServeSignal
<1>6. CASE N!ShutDown
  BY <1>2, <1>6 DEF N!ShutDown, N!Hangup, N!sessions
<1>7. CASE N!Reply
  <2>1. PICK m \in net : /\ N!StartReply(m) \/ N!SettleReply(m) \/ N!RestartReply(m)
                         /\ UNCHANGED <<emitted, exited>>
    BY <1>7 DEF N!Reply, N!sessions
  <2>2. CASE N!StartReply(m)
    BY <1>1, <1>4, <2>1, <2>2 DEF N!StartReply
  <2>3. CASE N!SettleReply(m) \/ N!RestartReply(m)
    BY <1>1, <2>1, <2>3 DEF N!SettleReply, N!RestartReply
  <2> QED
    BY <2>1, <2>2, <2>3
<1>8. ASSUME NEW g \in N!Gens, N!StreamFails(g) PROVE LinksOK'
  BY <1>4, <1>8 DEF N!StreamFails, N!sessions
<1>9. CASE \/ N!RequestFails \/ \E g \in N!Gens : N!SendInput(g)
           \/ \E n \in N!Sessions : \/ N!KillTimer(n) \/ N!BridgeReads(n) \/ N!BridgeEnds(n)
                                    \/ N!ShellEnds(n) \/ N!Stop(n)
  <2>1. UNCHANGED <<link, emitted, exited>>
    BY <1>9 DEF N!RequestFails, N!SendInput, N!Send, N!KillTimer, N!BridgeReads, N!BridgeEnds,
                N!ShellEnds, N!Stop, N!sessions
  <2> QED
    BY <1>1, <2>1
<1>10. ASSUME NEW t \in Tabs, NEW n, N!OpenTab(t, n) PROVE LinksOK'
  BY <1>1, <1>4, <1>10 DEF N!OpenTab, N!sessions
<1>11. ASSUME NEW t \in Tabs, \/ N!Type(t) \/ N!Restart(t) \/ N!CloseTab(t)
                              \/ \E s \in {N!terminate, N!kill} : N!Signal(t, s)
       PROVE  LinksOK'
  <2>1. CASE N!Restart(t) \/ N!CloseTab(t)
    BY <1>3, <2>1 DEF N!Restart, N!CloseTab, N!sessions
  <2>2. CASE N!Type(t) \/ \E s \in {N!terminate, N!kill} : N!Signal(t, s)
    BY <1>1, <2>2 DEF N!Type, N!Signal, N!sessions
  <2> QED
    BY <1>11, <2>1, <2>2
<1> QED
  BY <1>5, <1>6, <1>7, <1>8, <1>9, <1>10, <1>11, LinksFollow, LinkServed DEF N!Next, N!Work

ShellsInv == SessionsOK /\ PageOK /\ LinksOK

LEMMA ShellsBegun == N!Init => ShellsInv
<1> SUFFICES ASSUME N!Init PROVE ShellsInv
  OBVIOUS
<1> USE WorkbenchAssumption DEF WorkbenchAssumption, N!NativeAssumption
<1>1. SessionsOK
  BY DEF N!Init, SessionsOK
<1>2. PageOK
  <2>1. N!Begun = 0
    <3>1. Restarts({}) = {}
      BY DEF Restarts
    <3>2. gens = 0 /\ net = {} /\ N!Begun = gens + Cardinality(Restarts(net))
      BY BegunIs DEF N!Init
    <3>3. Cardinality(Restarts(net)) = 0
      BY <3>1, <3>2, FS_EmptySet, Zenon
    <3> QED
      BY <3>2, <3>3
  <2>2. IsFiniteSet(net)
    BY FS_EmptySet DEF N!Init
  <2>3. /\ gens \in 0 .. MaxGens /\ open \subseteq Tabs /\ cur \in [Tabs -> 0 .. gens]
        /\ \A m \in net : DOMAIN m = RequestFields
    BY DEF N!Init
  <2>4. DOMAIN nat = N!Gens /\ \A g \in N!Gens : DOMAIN nat[g] = NativeFields
    BY DEF N!Init, N!NoNative, NativeFields
  <2> QED
    BY <2>1, <2>2, <2>3, <2>4 DEF PageOK
<1>3. LinksOK
  <2>1. PICK x : x = N!NoLink
    OBVIOUS
  <2>2. /\ DOMAIN x = LinkFields /\ x.state = "none" /\ x.q = <<>> /\ x.seen = <<>>
    BY <2>1 DEF N!NoLink, LinkFields
  <2>3. LinkOK(x, emitted, exited)
    BY <2>2, EmptySeq DEF LinkOK, LinkStates
  <2>4. link = [g \in N!Gens |-> x]
    BY <2>1 DEF N!Init
  <2> QED
    BY <2>3, <2>4 DEF LinksOK
<1> QED
  BY <1>1, <1>2, <1>3 DEF ShellsInv

LEMMA ShellsStep == ShellsInv /\ [N!Next]_(N!vars) => ShellsInv'
<1>1. ASSUME ShellsInv, N!Next PROVE ShellsInv'
  BY <1>1, SessionsKept, PageKept, LinksKept DEF ShellsInv
<1>2. ASSUME ShellsInv, UNCHANGED N!vars PROVE ShellsInv'
  <2>1. UNCHANGED <<server, started, proc, ended, exited, listed, armed, emitted>>
    BY <1>2 DEF N!vars, N!sessions
  <2>2. UNCHANGED <<gens, open, cur, nat, net, link>>
    BY <1>2 DEF N!vars, N!page
  <2>3. SessionsOK'
    BY <1>2, <2>1 DEF ShellsInv, SessionsOK
  <2>4. PageOK'
    BY <1>2, <2>2, BegunIs DEF ShellsInv, PageOK
  <2>5. LinksOK'
    BY <1>2, <2>1, <2>2 DEF ShellsInv, LinksOK
  <2> QED
    BY <2>3, <2>4, <2>5 DEF ShellsInv
<1> QED
  BY <1>1, <1>2

LEMMA ShellsSoFar == Spec => []ShellsInv
BY ShellsBegun, ShellsStep, TerminalBehaves, PTL DEF N!Spec

\* However many tabs, shells, restarts and lost streams there are: a shell that runs is in the
\* list from which it can be closed, and what an open stream has shown and has queued are the
\* last pieces of the shell's output without a gap, back to the backlog of when the tab was
\* attached.
THEOREM ShellsAreListed == Spec => []NativeInv
<1>1. ShellsInv => NativeInv
  <2> SUFFICES ASSUME ShellsInv PROVE NativeInv
    OBVIOUS
  <2>1. N!TypeOK
    BY DEF ShellsInv, SessionsOK, PageOK, LinksOK, LinkOK, LinkStates, N!TypeOK
  <2>2. N!SessionsListed
    BY DEF ShellsInv, SessionsOK, LinksOK, LinkOK, N!SessionsListed
  <2>3. N!StreamsAreCurrent
    BY DEF ShellsInv, LinksOK, LinkOK, Told, N!StreamsAreCurrent
  <2> QED
    BY <2>1, <2>2, <2>3 DEF NativeInv, N!NativeInv
<1> QED
  BY <1>1, ShellsSoFar, PTL

-----------------------------------------------------------------------------
(* The keys typed into the tabs.                                           *)

\* What waits in a chain, with the generation each key was pressed under: one key in each
\* input, in the order the keys were pressed.
Waiting(c, g, keys) ==
    /\ c \in Seq(Seq(Nat))
    /\ \A i \in 1 .. Len(c) : c[i] = <<c[i][1]>> /\ c[i][1] \in 1 .. Len(keys) /\ keys[c[i][1]] = g
    /\ \A i, j \in 1 .. Len(c) : i < j => c[i][1] < c[j][1]

\* A key that has left its chain: what waits there is younger.
Before(k, c) == \A i \in 1 .. Len(c) : k < c[i][1]
Sent(k, keys, natives) ==
    k \in 1 .. Len(keys) /\ keys[k] \in N!Gens /\ Before(k, natives[keys[k]].chain)

Inputs == {m \in net : m.kind = "input"}

\* What a shell has got, with the inputs on their way.
Gotten(s, keys, natives, inputs) ==
    /\ \A i \in 1 .. Len(s) : /\ Sent(s[i], keys, natives)
                              /\ \A m \in inputs : m.gen = keys[s[i]] => s[i] < m.data[1]
    /\ \A i, j \in 1 .. Len(s) :
          i < j => s[i] # s[j] /\ (keys[s[i]] = keys[s[j]] => s[i] < s[j])

\* An input on its way.
Carried(m, keys, natives) ==
    m.data = <<m.data[1]>> /\ Sent(m.data[1], keys, natives) /\ keys[m.data[1]] = m.gen

\* Each key is in one place: waiting in its chain, or alone of its generation on its way, or with
\* a shell that has only older ones of it.
KeysOK ==
    /\ typed \in Seq(Nat) /\ got \in [N!Sessions -> Seq(Nat)]
    /\ \A g \in N!Gens : Waiting(nat[g].chain, g, typed)
    /\ \A m \in Inputs : Carried(m, typed, nat)
    /\ \A m, l \in Inputs : m.gen = l.gen => m = l
    /\ \A n \in N!Sessions : Gotten(got[n], typed, nat, Inputs)

\* Chains, requests and what the shells have got may go; no key comes.
LEMMA KeysStay ==
  ASSUME KeysOK, typed' = typed, Inputs' \subseteq Inputs,
         \A g \in N!Gens : nat'[g].chain = nat[g].chain \/ nat'[g].chain = <<>>,
         got' \in [N!Sessions -> Seq(Nat)],
         \A n \in N!Sessions : got'[n] = got[n] \/ got'[n] = <<>>
  PROVE  KeysOK'
<1>1. \A g : Waiting(<<>>, g, typed)
  BY EmptySeq DEF Waiting
<1>2. \A g \in N!Gens : Waiting(nat'[g].chain, g, typed)
  BY <1>1 DEF KeysOK
<1>3. ASSUME NEW k, Sent(k, typed, nat) PROVE Sent(k, typed, nat')
  <2>1. Before(k, <<>>)
    BY DEF Before
  <2> QED
    BY <1>3, <2>1 DEF Sent
<1>4. \A m \in Inputs' : Carried(m, typed, nat')
  BY <1>3 DEF KeysOK, Carried
<1>5. ASSUME NEW n \in N!Sessions PROVE Gotten(got'[n], typed, nat', Inputs')
  <2>1. Gotten(<<>>, typed, nat', Inputs')
    BY DEF Gotten
  <2>2. Gotten(got[n], typed, nat', Inputs')
    BY <1>3 DEF KeysOK, Gotten
  <2> QED
    BY <2>1, <2>2
<1> QED
  BY <1>2, <1>4, <1>5 DEF KeysOK

\* A key is pressed.
LEMMA KeyTyped ==
  ASSUME PageOK, KeysOK, NEW t \in Tabs, cur[t] # 0, N!Type(t)
  PROVE  KeysOK'
<1>1. PICK g, k : g = cur[t] /\ k = Len(typed) + 1
  OBVIOUS
<1>2. g \in N!Gens /\ g \in Nat
  BY <1>1, WorkbenchAssumption DEF PageOK, N!Gens, WorkbenchAssumption, N!NativeAssumption
<1>3. /\ typed' = Append(typed, g) /\ got' = got /\ net' = net
      /\ nat' = [nat EXCEPT ![g].chain = Append(@, <<k>>)]
  BY <1>1 DEF N!Type, N!sessions
<1>4. /\ typed \in Seq(Nat) /\ typed' \in Seq(Nat) /\ Len(typed') = k /\ typed'[k] = g /\ k \in Nat
      /\ Len(typed) \in Nat /\ k = Len(typed) + 1
      /\ \A i \in 1 .. Len(typed) : typed'[i] = typed[i] /\ i < k /\ i \in 1 .. k
  BY <1>1, <1>2, <1>3 DEF KeysOK
<1>5. /\ nat'[g].chain = Append(nat[g].chain, <<k>>)
      /\ \A h \in N!Gens : h # g => nat'[h].chain = nat[h].chain
  BY <1>2, <1>3 DEF PageOK, NativeFields
<1>6. ASSUME NEW h, NEW c, Waiting(c, h, typed) PROVE Waiting(c, h, typed')
  BY <1>4, <1>6 DEF Waiting
<1>7. PICK c, d : c = nat[g].chain /\ d = nat'[g].chain
  OBVIOUS
<1>8. Waiting(c, g, typed)
  BY <1>2, <1>7 DEF KeysOK
<1>9. /\ d \in Seq(Seq(Nat)) /\ Len(c) \in Nat /\ Len(d) = Len(c) + 1 /\ d[Len(c) + 1] = <<k>>
      /\ \A i \in 1 .. Len(c) : d[i] = c[i]
  <2>1. c \in Seq(Seq(Nat)) /\ <<k>> \in Seq(Nat) /\ d = Append(c, <<k>>)
    BY <1>4, <1>5, <1>7, <1>8 DEF Waiting
  <2>2. PICK x : x = <<k>>
    OBVIOUS
  <2> QED
    BY <2>1, <2>2
<1>10. Waiting(d, g, typed')
  <2>1. Waiting(c, g, typed')
    BY <1>6, <1>8
  <2>2. ASSUME NEW i \in 1 .. Len(d)
        PROVE  d[i] = <<d[i][1]>> /\ d[i][1] \in 1 .. k /\ typed'[d[i][1]] = g
    <3>1. CASE i = Len(c) + 1
      <4>1. d[i] = <<k>>
        BY <1>9, <3>1
      <4>2. d[i][1] = k
        BY <4>1
      <4> QED
        BY <1>4, <4>1, <4>2
    <3>2. CASE i \in 1 .. Len(c)
      BY <1>4, <1>9, <2>1, <3>2 DEF Waiting
    <3> QED
      BY <1>9, <2>2, <3>1, <3>2
  <2>3. ASSUME NEW i \in 1 .. Len(d), NEW j \in 1 .. Len(d), i < j PROVE d[i][1] < d[j][1]
    <3>1. i \in 1 .. Len(c) /\ (j = Len(c) + 1 \/ j \in 1 .. Len(c))
      BY <1>9, <2>3
    <3>2. d[i][1] \in 1 .. Len(typed) /\ d[i] = c[i]
      BY <1>8, <1>9, <3>1 DEF Waiting
    <3>3. CASE j = Len(c) + 1
      <4>1. d[j][1] = k
        BY <1>9, <3>3
      <4> QED
        BY <1>4, <3>2, <4>1
    <3>4. CASE j \in 1 .. Len(c)
      <4>1. d[j] = c[j] /\ c[i][1] < c[j][1]
        BY <1>8, <1>9, <2>3, <3>1, <3>4 DEF Waiting
      <4> QED
        BY <3>2, <4>1
    <3> QED
      BY <3>1, <3>3, <3>4
  <2> QED
    BY <1>4, <1>9, <2>2, <2>3 DEF Waiting
<1>11. \A h \in N!Gens : Waiting(nat'[h].chain, h, typed')
  BY <1>5, <1>6, <1>7, <1>10 DEF KeysOK
<1>12. ASSUME NEW x, Sent(x, typed, nat)
       PROVE  Sent(x, typed', nat') /\ typed'[x] = typed[x]
  <2>1. x \in 1 .. Len(typed) /\ typed[x] \in N!Gens /\ typed'[x] = typed[x] /\ x < k /\ x \in 1 .. k
    BY <1>4, <1>12 DEF Sent
  <2>2. CASE typed[x] = g
    <3>1. Before(x, c)
      BY <1>7, <1>12, <2>2 DEF Sent
    <3>2. ASSUME NEW i \in 1 .. Len(d) PROVE x < d[i][1]
      <4>1. CASE i = Len(c) + 1
        <5>1. d[i][1] = k
          BY <1>9, <4>1
        <5> QED
          BY <2>1, <5>1
      <4>2. CASE i \in 1 .. Len(c)
        BY <1>9, <3>1, <4>2 DEF Before
      <4> QED
        BY <1>9, <3>2, <4>1, <4>2
    <3> QED
      BY <1>4, <1>7, <2>1, <2>2, <3>2 DEF Sent, Before
  <2>3. CASE typed[x] # g
    BY <1>4, <1>5, <1>12, <2>1, <2>3 DEF Sent
  <2> QED
    BY <2>1, <2>2, <2>3
<1>13. Inputs' = Inputs
  BY <1>3 DEF Inputs
<1>14. \A m \in Inputs : Carried(m, typed', nat')
  BY <1>12 DEF KeysOK, Carried
<1>15. ASSUME NEW n \in N!Sessions PROVE Gotten(got[n], typed', nat', Inputs)
  BY <1>12 DEF KeysOK, Gotten
<1> QED
  BY <1>3, <1>4, <1>11, <1>13, <1>14, <1>15 DEF KeysOK

\* The eldest of a chain is sent.
LEMMA KeySent ==
  ASSUME PageOK, KeysOK, NEW g \in N!Gens, N!SendInput(g)
  PROVE  KeysOK'
<1>1. PICK c, x : /\ c = nat[g].chain
                  /\ x = N!Request("input", g, nat[g].tab, N!Native(nat[g].tab).id, Head(nat[g].chain))
  OBVIOUS
<1>2. PICK k : k = c[1][1]
  OBVIOUS
<1>3. Waiting(c, g, typed) /\ typed \in Seq(Nat)
  BY <1>1 DEF KeysOK
<1>4. /\ c # <<>> /\ net' = net \cup {x} /\ nat' = [nat EXCEPT ![g].chain = Tail(@)]
      /\ typed' = typed /\ got' = got /\ \A m \in Inputs : m.gen # g
  BY <1>1 DEF N!SendInput, N!Send, N!sessions, Inputs
<1>5. /\ x.kind = "input" /\ x.gen = g /\ x.data = Head(c)
  BY <1>1 DEF N!Request
<1>6. PICK d : d = nat'[g].chain
  OBVIOUS
<1>7. d = Tail(c) /\ \A h \in N!Gens : h # g => nat'[h].chain = nat[h].chain
  BY <1>1, <1>4, <1>6 DEF PageOK, NativeFields
<1>8. /\ c \in Seq(Seq(Nat)) /\ d \in Seq(Seq(Nat)) /\ Len(c) \in Nat /\ Len(c) > 0
      /\ Len(d) = Len(c) - 1 /\ Head(c) = c[1]
      /\ \A i \in 1 .. Len(d) : d[i] = c[i + 1] /\ i + 1 \in 1 .. Len(c)
  BY <1>3, <1>4, <1>7 DEF Waiting
<1>9. x.data = <<k>> /\ k \in 1 .. Len(typed) /\ typed[k] = g
  <2>1. 1 \in 1 .. Len(c)
    BY <1>8
  <2>2. c[1] = <<c[1][1]>> /\ c[1][1] \in 1 .. Len(typed) /\ typed[c[1][1]] = g
    BY <1>3, <2>1 DEF Waiting
  <2> QED
    BY <1>2, <1>5, <1>8, <2>2, Zenon
<1>10. x.data[1] = k
  BY <1>9
<1>11. Waiting(d, g, typed)
  <2>1. ASSUME NEW i \in 1 .. Len(d)
        PROVE  d[i] = <<d[i][1]>> /\ d[i][1] \in 1 .. Len(typed) /\ typed[d[i][1]] = g
    <3>1. d[i] = c[i + 1] /\ i + 1 \in 1 .. Len(c)
      BY <1>8
    <3> QED
      BY <1>3, <3>1 DEF Waiting
  <2>2. ASSUME NEW i \in 1 .. Len(d), NEW j \in 1 .. Len(d), i < j PROVE d[i][1] < d[j][1]
    <3>1. d[i] = c[i + 1] /\ i + 1 \in 1 .. Len(c) /\ d[j] = c[j + 1] /\ j + 1 \in 1 .. Len(c)
      BY <1>8
    <3>2. i + 1 < j + 1
      BY <1>8, <2>2
    <3> QED
      BY <1>3, <3>1, <3>2 DEF Waiting
  <2> QED
    BY <1>8, <2>1, <2>2 DEF Waiting
<1>12. \A h \in N!Gens : Waiting(nat'[h].chain, h, typed)
  BY <1>6, <1>7, <1>11 DEF KeysOK
<1>13. ASSUME NEW y, Sent(y, typed, nat) PROVE Sent(y, typed, nat')
  <2>1. CASE typed[y] = g
    <3>1. Before(y, c)
      BY <1>1, <1>13, <2>1 DEF Sent
    <3>2. Before(y, d)
      BY <1>8, <3>1 DEF Before
    <3> QED
      BY <1>6, <1>13, <2>1, <3>2 DEF Sent
  <2>2. CASE typed[y] # g
    BY <1>7, <1>13, <2>2 DEF Sent
  <2> QED
    BY <2>1, <2>2
<1>14. Sent(k, typed, nat')
  <2>1. ASSUME NEW i \in 1 .. Len(d) PROVE k < d[i][1]
    <3>1. d[i] = c[i + 1] /\ i + 1 \in 1 .. Len(c) /\ 1 \in 1 .. Len(c) /\ 1 < i + 1
      BY <1>8
    <3>2. c[1][1] < c[i + 1][1]
      BY <1>3, <3>1 DEF Waiting
    <3> QED
      BY <1>2, <3>1, <3>2
  <2> QED
    BY <1>6, <1>9, <2>1 DEF Sent, Before
<1>15. Inputs' = Inputs \cup {x}
  BY <1>4, <1>5 DEF Inputs
<1>16. \A m \in Inputs' : Carried(m, typed, nat')
  BY <1>5, <1>9, <1>10, <1>13, <1>14, <1>15 DEF KeysOK, Carried
<1>17. \A m, l \in Inputs' : m.gen = l.gen => m = l
  BY <1>4, <1>5, <1>15 DEF KeysOK
<1>18. ASSUME NEW n \in N!Sessions PROVE Gotten(got[n], typed, nat', Inputs')
  <2>1. Gotten(got[n], typed, nat, Inputs)
    BY DEF KeysOK
  <2>2. ASSUME NEW i \in 1 .. Len(got[n]), typed[got[n][i]] = g PROVE got[n][i] < k
    <3>1. Before(got[n][i], c)
      BY <1>1, <2>1, <2>2 DEF Gotten, Sent
    <3> QED
      BY <1>2, <1>8, <3>1 DEF Before
  <2>3. ASSUME NEW i \in 1 .. Len(got[n]), NEW m \in Inputs', m.gen = typed[got[n][i]]
        PROVE  got[n][i] < m.data[1]
    BY <1>5, <1>10, <1>15, <2>1, <2>2, <2>3 DEF Gotten
  <2> QED
    BY <1>13, <2>1, <2>3 DEF Gotten
<1> QED
  BY <1>4, <1>12, <1>16, <1>17, <1>18 DEF KeysOK

\* An input is served: the shell gets its key, or it is lost.
LEMMA KeyServed ==
  ASSUME SessionsOK, KeysOK, NEW m \in net, N!ServeInput(m), UNCHANGED N!page
  PROVE  KeysOK'
<1>1. m.kind = "input" /\ m \in Inputs /\ nat' = nat /\ typed' = typed
  BY DEF N!ServeInput, Inputs, N!page
<1>2. ASSUME NEW reply, N!Answered(m, reply) PROVE net' = net \ {m} /\ Inputs' = Inputs \ {m}
  <2>1. net' = net \ {m}
    BY <1>1, <1>2 DEF N!Answered
  <2> QED
    BY <2>1 DEF Inputs
<1>3. CASE UNCHANGED N!sessions
  <2>1. Inputs' \subseteq Inputs
    <3>1. CASE \E reply : N!Answered(m, reply)
      BY <1>2, <3>1
    <3>2. CASE net' = {}
      BY <3>2 DEF Inputs
    <3>3. CASE m.id \in listed /\ m.id \notin ended
      BY <1>2, <3>3 DEF N!ServeInput, N!ServeFrames
    <3> QED
      BY <3>1, <3>2, <3>3 DEF N!ServeInput, N!ServeFrames, N!WriteAfterEnd, N!Down
  <2>2. got' = got
    BY <1>3 DEF N!sessions
  <2> QED
    BY <1>1, <2>1, <2>2, KeysStay DEF KeysOK
<1>4. CASE m.id \in listed /\ m.id \notin ended
  <2>1. PICK n, k : n = m.id /\ k = m.data[1]
    OBVIOUS
  <2>2. /\ got' = [got EXCEPT ![n] = @ \o m.data] /\ Inputs' = Inputs \ {m}
    BY <1>1, <1>2, <1>4, <2>1 DEF N!ServeInput, N!ServeFrames
  <2>3. n \in N!Sessions
    BY <1>4, <2>1, WorkbenchAssumption
       DEF SessionsOK, N!Sessions, WorkbenchAssumption, N!NativeAssumption
  <2>4. m.data = <<k>> /\ Sent(k, typed, nat) /\ typed[k] = m.gen /\ k \in Nat
    BY <1>1, <2>1 DEF KeysOK, Carried, Sent
  <2>5. PICK s, z : s = got[n] /\ z = got'[n]
    OBVIOUS
  <2>6. /\ s \in Seq(Nat) /\ Gotten(s, typed, nat, Inputs)
    BY <2>3, <2>5 DEF KeysOK
  <2>7. z = s \o <<k>>
    BY <2>2, <2>3, <2>4, <2>5 DEF KeysOK
  <2>8. /\ z \in Seq(Nat) /\ Len(s) \in Nat /\ Len(z) = Len(s) + 1 /\ z[Len(s) + 1] = k
        /\ \A i \in 1 .. Len(s) : z[i] = s[i]
    BY <2>4, <2>6, <2>7
  <2>9. ASSUME NEW l \in Inputs' PROVE l \in Inputs /\ l.gen # m.gen
    BY <1>1, <2>2, <2>9 DEF KeysOK
  <2>10. ASSUME NEW i \in 1 .. Len(z)
         PROVE  /\ Sent(z[i], typed, nat)
                /\ \A l \in Inputs' : l.gen = typed[z[i]] => z[i] < l.data[1]
    <3>1. CASE i = Len(s) + 1
      BY <2>4, <2>8, <2>9, <3>1
    <3>2. CASE i \in 1 .. Len(s)
      BY <2>6, <2>8, <2>9, <3>2 DEF Gotten
    <3> QED
      BY <2>8, <2>10, <3>1, <3>2
  <2>11. ASSUME NEW i \in 1 .. Len(z), NEW j \in 1 .. Len(z), i < j
         PROVE  z[i] # z[j] /\ (typed[z[i]] = typed[z[j]] => z[i] < z[j])
    <3>1. i \in 1 .. Len(s) /\ (j = Len(s) + 1 \/ j \in 1 .. Len(s))
      BY <2>8, <2>11
    <3>2. CASE j = Len(s) + 1
      <4>1. z[j] = k /\ z[i] = s[i] /\ s[i] \in Nat
        BY <2>6, <2>8, <3>1, <3>2
      <4>2. m.gen = typed[s[i]] => s[i] < k
        BY <1>1, <2>1, <2>6, <3>1 DEF Gotten
      <4> QED
        BY <2>4, <4>1, <4>2
    <3>3. CASE j \in 1 .. Len(s)
      BY <2>6, <2>8, <2>11, <3>1, <3>3 DEF Gotten
    <3> QED
      BY <3>1, <3>2, <3>3
  <2>12. Gotten(z, typed, nat, Inputs')
    BY <2>10, <2>11 DEF Gotten
  <2>13. ASSUME NEW h \in N!Sessions PROVE got'[h] \in Seq(Nat) /\ Gotten(got'[h], typed, nat, Inputs')
    <3>1. CASE h = n
      BY <2>5, <2>8, <2>12, <3>1
    <3>2. CASE h # n
      <4>1. got'[h] = got[h]
        BY <2>2, <2>3, <3>2 DEF KeysOK
      <4>2. got[h] \in Seq(Nat) /\ Gotten(got[h], typed, nat, Inputs)
        BY DEF KeysOK
      <4>3. Gotten(got[h], typed, nat, Inputs')
        BY <2>9, <4>2 DEF Gotten
      <4> QED
        BY <4>1, <4>2, <4>3
    <3> QED
      BY <3>1, <3>2
  <2>14. got' \in [N!Sessions -> Seq(Nat)]
    <3>1. got' = [h \in N!Sessions |-> got'[h]]
      BY <2>2 DEF KeysOK
    <3> QED
      BY <2>13, <3>1
  <2> QED
    BY <1>1, <2>2, <2>13, <2>14 DEF KeysOK
<1> QED
  BY <1>3, <1>4 DEF N!ServeInput, N!ServeFrames, N!WriteAfterEnd, N!sessions

\* An answer brings no input.
LEMMA NoInputAnswered ==
  ASSUME PageOK, NEW m \in net, NEW reply, N!Answered(m, reply)
  PROVE  Inputs' \subseteq Inputs
<1>1. PICK x : x = [m EXCEPT !.reply = reply]
  OBVIOUS
<1>2. x.kind = m.kind
  BY <1>1 DEF PageOK, RequestFields
<1>3. net' \subseteq net \/ (m.kind # "input" /\ net' \subseteq net \cup {x})
  BY <1>1 DEF N!Answered
<1> QED
  BY <1>2, <1>3 DEF Inputs

\* What the server does but to serve an input.
LEMMA KeysServed ==
  ASSUME PageOK, SessionsOK, KeysOK, N!Serve
  PROVE  KeysOK'
<1>1. PICK m \in net : N!ServeStart(m) \/ N!ServeInput(m) \/ N!ServeSignal(m) \/ N!ServeClose(m)
  BY DEF N!Serve
<1>2. UNCHANGED <<nat, typed>> /\ UNCHANGED N!page
  BY DEF N!Serve, N!page
<1>3. ASSUME Inputs' \subseteq Inputs, got' = got PROVE KeysOK'
  BY <1>2, <1>3, KeysStay DEF KeysOK
<1>4. ASSUME N!WriteAfterEnd(m) PROVE Inputs' \subseteq Inputs /\ got' = got
  <2>1. got' = got /\ (net' = {} \/ \E reply : N!Answered(m, reply))
    BY <1>4 DEF N!WriteAfterEnd, N!Down, N!sessions
  <2>2. net' = {} => Inputs' \subseteq Inputs
    BY DEF Inputs
  <2> QED
    BY <2>1, <2>2, NoInputAnswered
<1>5. CASE N!ServeStart(m)
  <2>1. PICK x : x = [m EXCEPT !.reply = "ok", !.id = started + 1]
    OBVIOUS
  <2>2. x.kind = m.kind /\ m.kind = "start"
    BY <1>5, <2>1 DEF N!ServeStart, PageOK, RequestFields
  <2>3. net' \subseteq net \cup {x} /\ got' = got
    BY <1>5, <2>1 DEF N!ServeStart
  <2>4. Inputs' \subseteq Inputs
    BY <2>2, <2>3 DEF Inputs
  <2> QED
    BY <1>3, <2>3, <2>4
<1>6. CASE N!ServeSignal(m)
  <2>1. N!WriteAfterEnd(m) \/ (got' = got /\ \E reply : N!Answered(m, reply))
    BY <1>6 DEF N!ServeSignal, N!ServeFrames, N!sessions
  <2> QED
    BY <1>3, <1>4, <2>1, NoInputAnswered
<1>7. CASE N!ServeClose(m)
  <2>1. N!WriteAfterEnd(m) \/ (got' = got /\ \E reply : N!Answered(m, reply))
    BY <1>7 DEF N!ServeClose, N!Hangup, N!sessions
  <2> QED
    BY <1>3, <1>4, <2>1, NoInputAnswered
<1> QED
  BY <1>1, <1>2, <1>5, <1>6, <1>7, KeyServed

LEMMA KeysReplied ==
  ASSUME PageOK, KeysOK, N!Reply
  PROVE  KeysOK'
<1>1. PICK m \in net : /\ N!StartReply(m) \/ N!SettleReply(m) \/ N!RestartReply(m)
                       /\ UNCHANGED <<got, typed>>
  BY DEF N!Reply, N!sessions
<1>2. ASSUME Inputs' \subseteq Inputs,
             \A g \in N!Gens : nat'[g].chain = nat[g].chain \/ nat'[g].chain = <<>>
      PROVE  KeysOK'
  BY <1>1, <1>2, KeysStay DEF KeysOK
<1>3. DOMAIN nat = N!Gens /\ \A g \in N!Gens : DOMAIN nat[g] = NativeFields
  BY DEF PageOK
<1>4. CASE N!StartReply(m)
  <2>1. Inputs' \subseteq Inputs
    BY <1>4 DEF N!StartReply, Inputs
  <2>2. \A g \in N!Gens : nat'[g].chain = nat[g].chain
    BY <1>3, <1>4 DEF N!StartReply, NativeFields
  <2> QED
    BY <1>2, <2>1, <2>2
<1>5. CASE N!SettleReply(m)
  <2>1. Inputs' \subseteq Inputs
    BY <1>5 DEF N!SettleReply, Inputs
  <2>2. \A g \in N!Gens : nat'[g].chain = nat[g].chain
    BY <1>3, <1>5 DEF N!SettleReply, N!Native, NativeFields
  <2> QED
    BY <1>2, <2>1, <2>2
<1>6. CASE N!RestartReply(m)
  <2>1. PICK x : x = N!Request("start", gens + 1, m.tab, 0, <<>>)
    OBVIOUS
  <2>2. x.kind = "start"
    BY <2>1 DEF N!Request
  <2>3. net' \subseteq net \cup {x}
    BY <1>6, <2>1 DEF N!RestartReply, N!Renew
  <2>4. Inputs' \subseteq Inputs
    BY <2>2, <2>3 DEF Inputs
  <2>5. PICK y : y = [N!NoNative EXCEPT !.tab = m.tab, !.id = 0]
    OBVIOUS
  <2>6. y.chain = <<>> /\ nat' = [nat EXCEPT ![gens + 1] = y]
    BY <1>6, <2>5 DEF N!RestartReply, N!Renew, N!NoNative
  <2> QED
    BY <1>2, <1>3, <2>4, <2>6
<1> QED
  BY <1>1, <1>4, <1>5, <1>6

\* What is clicked, or opened, but not typed.
LEMMA KeysClicked ==
  ASSUME PageOK, KeysOK, NEW t \in Tabs,
         \/ \E n \in 0 .. MaxGens : N!OpenTab(t, n)
         \/ cur[t] # 0 /\ (N!Restart(t) \/ N!CloseTab(t))
         \/ \E s \in {N!terminate, N!kill} : N!Signal(t, s)
  PROVE  KeysOK'
<1>1. UNCHANGED <<got, typed>>
  BY DEF N!OpenTab, N!Restart, N!CloseTab, N!Signal, N!sessions
<1>2. ASSUME Inputs' \subseteq Inputs,
             \A g \in N!Gens : nat'[g].chain = nat[g].chain \/ nat'[g].chain = <<>>
      PROVE  KeysOK'
  BY <1>1, <1>2, KeysStay DEF KeysOK
<1>3. DOMAIN nat = N!Gens /\ \A g \in N!Gens : DOMAIN nat[g] = NativeFields
  BY DEF PageOK
<1>4. ASSUME NEW x, x.kind # "input", net' \subseteq net \cup {x} PROVE Inputs' \subseteq Inputs
  BY <1>4 DEF Inputs
<1>5. PICK c : c = cur[t]
  OBVIOUS
<1>6. \A kind, gen, id, data : N!Request(kind, gen, t, id, data).kind = kind
  BY DEF N!Request
<1>7. ASSUME NEW id, NEW states, DOMAIN states = N!Gens, N!Renew(t, id, states, net),
             \A g \in N!Gens : states[g].chain = nat[g].chain
      PROVE  KeysOK'
  <2>1. PICK x, y : /\ x = N!Request("start", gens + 1, t, 0, <<>>)
                    /\ y = [N!NoNative EXCEPT !.tab = t, !.id = id]
    OBVIOUS
  <2>2. /\ y.chain = <<>> /\ nat' = [states EXCEPT ![gens + 1] = y]
        /\ net' \subseteq net \cup {x}
    BY <1>7, <2>1 DEF N!Renew, N!NoNative
  <2> QED
    BY <1>2, <1>4, <1>6, <1>7, <2>1, <2>2
<1>8. /\ DOMAIN N!Shut(c) = N!Gens
      /\ \A g \in N!Gens : N!Shut(c)[g].chain = nat[g].chain
  BY <1>3 DEF N!Shut, NativeFields
<1>9. ASSUME NEW n, N!OpenTab(t, n) PROVE KeysOK'
  BY <1>3, <1>7, <1>9 DEF N!OpenTab
<1>10. CASE N!Restart(t)
  <2>1. CASE N!Renew(t, 0, N!Shut(c), net)
    BY <1>7, <1>8, <2>1
  <2>2. CASE /\ nat' = N!Shut(c)
             /\ net' = net \cup {N!Request("restart", c, t, nat[c].id, <<>>)}
    BY <1>2, <1>4, <1>6, <1>8, <2>2
  <2> QED
    BY <1>5, <1>10, <2>1, <2>2 DEF N!Restart
<1>11. CASE N!CloseTab(t)
  <2>1. /\ nat' = N!Shut(c)
        /\ net' \subseteq net \cup {N!Request("close", c, t, nat[c].id, <<>>)}
    BY <1>5, <1>11 DEF N!CloseTab
  <2> QED
    BY <1>2, <1>4, <1>6, <1>8, <2>1
<1>12. ASSUME NEW s, N!Signal(t, s) PROVE KeysOK'
  <2>1. /\ nat' = [nat EXCEPT ![c].stopping = s = N!kill]
        /\ net' = net \cup {N!Request("signal", c, t, N!Native(t).id, <<s>>)}
    BY <1>5, <1>12 DEF N!Signal
  <2>2. \A g \in N!Gens : nat'[g].chain = nat[g].chain
    BY <1>3, <2>1 DEF NativeFields
  <2> QED
    BY <1>2, <1>4, <1>6, <2>1, <2>2
<1> QED
  BY <1>9, <1>10, <1>11, <1>12

LEMMA KeysKept ==
  ASSUME ShellsInv, KeysOK, N!Next
  PROVE  KeysOK'
<1> USE DEF ShellsInv
<1>1. ASSUME typed' = typed, got' = got, Inputs' \subseteq Inputs,
             \A g \in N!Gens : nat'[g].chain = nat[g].chain
      PROVE  KeysOK'
  BY <1>1, KeysStay DEF KeysOK
<1>2. DOMAIN nat = N!Gens /\ \A g \in N!Gens : DOMAIN nat[g] = NativeFields
  BY DEF PageOK
<1>3. CASE N!RequestFails
  <2>1. PICK m \in net : N!Answered(m, "failed")
    BY <1>3 DEF N!RequestFails
  <2>2. UNCHANGED <<typed, got, nat>>
    BY <1>3 DEF N!RequestFails, N!sessions, N!page
  <2> QED
    BY <1>1, <2>1, <2>2, NoInputAnswered
<1>4. CASE N!ShutDown
  <2>1. net' = {} /\ UNCHANGED <<typed, got, nat>>
    BY <1>4 DEF N!ShutDown, N!Down, N!Hangup, N!sessions, N!page
  <2> QED
    BY <1>1, <2>1 DEF Inputs
<1>5. ASSUME NEW g \in N!Gens, N!ServeStream(g) \/ N!Deliver(g) \/ N!StreamFails(g) PROVE KeysOK'
  <2>1. UNCHANGED <<typed, got, net>>
    BY <1>5 DEF N!ServeStream, N!Deliver, N!StreamFails, N!sessions, N!page
  <2>2. \A h \in N!Gens : nat'[h].chain = nat[h].chain
    <3>1. CASE N!ServeStream(g)
      BY <3>1 DEF N!ServeStream, N!page
    <3>2. CASE N!Deliver(g)
      <4>1. PICK event : nat' = [nat EXCEPT ![g] = N!Shown(g, event)]
        BY <3>2 DEF N!Deliver
      <4>2. N!Shown(g, event).chain = nat[g].chain
        BY <1>2 DEF N!Shown, NativeFields
      <4> QED
        BY <1>2, <4>1, <4>2
    <3>3. CASE N!StreamFails(g)
      BY <1>2, <3>3 DEF N!StreamFails, NativeFields
    <3> QED
      BY <1>5, <3>1, <3>2, <3>3
  <2> QED
    BY <1>1, <2>1, <2>2 DEF Inputs
<1>6. ASSUME NEW n \in N!Sessions,
             N!KillTimer(n) \/ N!BridgeReads(n) \/ N!BridgeEnds(n) \/ N!ShellEnds(n) \/ N!Output(n)
      PROVE  KeysOK'
  <2>1. UNCHANGED <<typed, got, net, nat>>
    BY <1>6 DEF N!KillTimer, N!BridgeReads, N!BridgeEnds, N!ShellEnds, N!Output, N!page
  <2> QED
    BY <1>1, <2>1 DEF Inputs
<1>7. ASSUME NEW n \in N!Sessions, N!Exit(n) PROVE KeysOK'
  <2>1. UNCHANGED <<typed, net, nat>> /\ got' = [got EXCEPT ![n] = <<>>]
    BY <1>7 DEF N!Exit, N!Gone, N!page
  <2>2. /\ got' \in [N!Sessions -> Seq(Nat)]
        /\ \A h \in N!Sessions : got'[h] = got[h] \/ got'[h] = <<>>
    BY <2>1, EmptySeq DEF KeysOK
  <2> QED
    BY <2>1, <2>2, KeysStay DEF Inputs
<1>8. ASSUME NEW n \in N!Sessions, N!Stop(n) PROVE KeysOK'
  <2>1. PICK x, t : /\ net' = net \cup {x} /\ \E g : x = N!Request("stop", g, t, n, <<>>)
                    /\ nat' = nat \/ nat' = [nat EXCEPT ![cur[t]].stopping = TRUE]
                    /\ UNCHANGED <<typed, got>>
    BY <1>8 DEF N!Stop, N!sessions
  <2>2. x.kind = "stop"
    BY <2>1 DEF N!Request
  <2>3. \A h \in N!Gens : nat'[h].chain = nat[h].chain
    BY <1>2, <2>1 DEF NativeFields
  <2> QED
    BY <1>1, <2>1, <2>2, <2>3 DEF Inputs
<1> QED
  BY <1>3, <1>4, <1>5, <1>6, <1>7, <1>8, KeysServed, KeysReplied, KeysClicked, KeyTyped, KeySent
     DEF N!Next, N!Work

LEMMA KeysBegun == N!Init => KeysOK
<1> SUFFICES ASSUME N!Init PROVE KeysOK
  OBVIOUS
<1>1. typed = <<>> /\ net = {} /\ got = [n \in N!Sessions |-> <<>>]
      /\ nat = [g \in N!Gens |-> N!NoNative] /\ N!NoNative.chain = <<>>
  BY DEF N!Init, N!NoNative
<1>2. <<>> \in Seq(Nat) /\ <<>> \in Seq(Seq(Nat))
  BY EmptySeq
<1>3. \A g : Waiting(<<>>, g, typed)
  BY <1>2 DEF Waiting
<1>4. Gotten(<<>>, typed, nat, Inputs)
  BY DEF Gotten
<1>5. Inputs = {}
  BY <1>1 DEF Inputs
<1> QED
  BY <1>1, <1>2, <1>3, <1>4, <1>5 DEF KeysOK

\* However many keys are typed into however many tabs, and whatever restarts, failures and
\* crashes come between: a shell gets no key twice, and those of one generation of a tab in the
\* order they were pressed.
THEOREM KeysArriveInOrder == Spec => []InputInOrder
<1>1. ShellsInv /\ KeysOK /\ [N!Next]_(N!vars) => KeysOK'
  <2>1. ASSUME KeysOK, UNCHANGED N!vars PROVE KeysOK'
    BY <2>1, KeysStay DEF KeysOK, Inputs, N!vars, N!sessions, N!page
  <2> QED
    BY <2>1, KeysKept
<1>2. KeysOK => InputInOrder
  <2> SUFFICES ASSUME KeysOK PROVE InputInOrder
    OBVIOUS
  <2>1. ASSUME NEW n \in N!Sessions, NEW i \in DOMAIN got[n], NEW j \in DOMAIN got[n], i < j
        PROVE  /\ got[n][i] # got[n][j]
               /\ typed[got[n][i]] = typed[got[n][j]] => got[n][i] < got[n][j]
    <3>1. DOMAIN got[n] = 1 .. Len(got[n])
      BY DEF KeysOK
    <3>2. Gotten(got[n], typed, nat, Inputs)
      BY DEF KeysOK
    <3> QED
      BY <2>1, <3>1, <3>2 DEF Gotten
  <2> QED
    BY <2>1 DEF InputInOrder, N!InputInOrder
<1> QED
  BY <1>1, <1>2, KeysBegun, ShellsSoFar, TerminalBehaves, PTL DEF N!Spec

-----------------------------------------------------------------------------
(* File commands.                                                          *)

\* Of some numbers up to a bound one is the least: of the sets of those up to each of them, one
\* is contained in the others.
LEMMA Least ==
  ASSUME NEW b \in Nat, NEW T \in SUBSET (1 .. b), T # {}
  PROVE  A!Min(T) \in T /\ \A y \in T : A!Min(T) <= y
<1>1. PICK W : W = {{y \in T : y <= x} : x \in T}
  OBVIOUS
<1>2. W \subseteq FiniteSubsetsOf(1 .. b) /\ W # {}
  <2>1. ASSUME NEW R \in SUBSET (1 .. b) PROVE IsFiniteSet(R)
    <3>1. IsFiniteSet(1 .. b)
      BY FS_Interval
    <3> QED
      BY <3>1, FS_Subset
  <2> QED
    BY <1>1, <2>1 DEF FiniteSubsetsOf
<1>3. PICK R \in W : \A V \in W : <<V, R>> \notin StrictSubsetOrdering(1 .. b)
  BY <1>2, FS_StrictSubsetOrderingWellFounded, WFMin
<1>4. PICK x \in T : R = {y \in T : y <= x}
  BY <1>1
<1>5. ASSUME NEW y \in T PROVE x <= y
  <2>1. SUFFICES ASSUME y < x PROVE FALSE
    OBVIOUS
  <2>2. PICK V : V = {z \in T : z <= y}
    OBVIOUS
  <2>3. V \in W /\ V \in SUBSET (1 .. b) /\ R \in SUBSET (1 .. b)
    BY <1>1, <2>2
  <2>4. V \subseteq R
    <3>1. \A z \in T : z \in Int
      OBVIOUS
    <3>2. \A z \in T : z <= y => z <= x
      BY <2>1, <3>1
    <3> QED
      BY <1>4, <2>2, <3>2
  <2>5. x \in R /\ x \notin V
    BY <1>4, <2>1, <2>2
  <2>6. <<V, R>> \in StrictSubsetOrdering(1 .. b)
    BY <2>3, <2>4, <2>5 DEF StrictSubsetOrdering
  <2> QED
    BY <1>3, <2>3, <2>6
<1> QED
  BY <1>5 DEF A!Min

\* And one is the greatest.
LEMMA Greatest ==
  ASSUME NEW b \in Nat, NEW T \in SUBSET (1 .. b), T # {}
  PROVE  \E x \in T : \A y \in T : y <= x
<1>1. PICK U : U = {b + 1 - x : x \in T}
  OBVIOUS
<1>2. U \in SUBSET (1 .. b) /\ U # {}
  <2>1. ASSUME NEW x \in T PROVE b + 1 - x \in 1 .. b
    OBVIOUS
  <2> QED
    BY <1>1, <2>1
<1>3. PICK u \in U : \A v \in U : u <= v
  BY <1>2, Least
<1>4. PICK x \in T : u = b + 1 - x
  BY <1>1
<1>5. ASSUME NEW y \in T PROVE y <= x
  <2>1. b + 1 - y \in U
    BY <1>1
  <2>2. b + 1 - x <= b + 1 - y
    BY <1>3, <1>4, <2>1
  <2> QED
    BY <2>2
<1> QED
  BY <1>5

\* Numbers are as many when each is moved.
LEMMA Shifted ==
  ASSUME NEW T \in SUBSET Nat, IsFiniteSet(T), NEW k \in Nat
  PROVE  Cardinality({x + k : x \in T}) = Cardinality(T) /\ IsFiniteSet({x + k : x \in T})
<1>1. PICK f : f = [x \in T |-> x + k]
  OBVIOUS
<1>2. f \in Bijection(T, {x + k : x \in T})
  BY <1>1 DEF Bijection, Injection, Surjection, IsInjective
<1> QED
  BY <1>2, FS_Bijection DEF ExistsBijection

\* Of the places where lines start, those from which no more than n lines are left.
Latest(T, n) == {j \in T : Cardinality({i \in T : i >= j}) <= n}

Places(b) == SUBSET (1 .. b)

\* Behind k, the places of one text are those of the other, moved by k.
Behind(F, T, k) == \A i \in Nat : i > k + 1 => (i \in F <=> i - k \in T)

\* Where the last n lines start does not depend on what is in front of a part with more lines.
LEMMA LatestMatch ==
  ASSUME NEW b \in Nat, NEW F \in Places(b), NEW T \in Places(b), NEW k \in Nat,
         NEW n \in Nat \ {0}, 1 \in T, Cardinality(T) > n,
         Behind(F, T, k)
  PROVE  A!Min(Latest(T, n)) \in 1 .. b /\ A!Min(Latest(F, n)) = A!Min(Latest(T, n)) + k
<1> USE DEF Behind, Places
<1>0. \A j \in T \cup F : j \in Nat /\ j >= 1
  OBVIOUS
<1>1. \A R \in SUBSET (1 .. b) : IsFiniteSet(R) /\ Cardinality(R) \in Nat
  <2>1. IsFiniteSet(1 .. b)
    BY FS_Interval
  <2> QED
    BY <2>1, FS_Subset, FS_CardinalityType
<1>2. ASSUME NEW j \in T, j > 1
      PROVE  Cardinality({i \in F : i >= j + k}) = Cardinality({i \in T : i >= j})
  <2>1. PICK R : R = {i \in T : i >= j}
    OBVIOUS
  <2>2. R \in SUBSET Nat /\ IsFiniteSet(R)
    <3>1. R \in SUBSET (1 .. b)
      BY <2>1
    <3> QED
      BY <1>1, <3>1
  <2>3. {i \in F : i >= j + k} = {i + k : i \in R}
    <3>1. ASSUME NEW i \in F, i >= j + k PROVE i - k \in R /\ i = (i - k) + k
      BY <1>2, <2>1, <3>1
    <3>2. ASSUME NEW i \in R PROVE i + k \in F /\ i + k >= j + k
      <4>1. i + k \in Nat /\ i + k > k + 1 /\ (i + k) - k = i
        BY <1>2, <2>1
      <4> QED
        BY <2>1, <4>1
    <3> QED
      BY <3>1, <3>2
  <2> QED
    BY <2>1, <2>2, <2>3, Shifted
<1>3. ASSUME NEW j \in F, j <= k + 1 PROVE Cardinality({i \in F : i >= j}) > n
  <2>1. PICK R, V : R = {i \in T : i > 1} /\ V = {i + k : i \in R}
    OBVIOUS
  <2>2. R \in SUBSET Nat /\ IsFiniteSet(R) /\ R = T \ {1}
    <3>1. R \in SUBSET (1 .. b)
      BY <2>1
    <3>2. ASSUME NEW i \in T PROVE i > 1 <=> i # 1
      BY <1>0
    <3>3. R = T \ {1}
      BY <2>1, <3>2
    <3> QED
      BY <1>1, <3>1, <3>3
  <2>3. Cardinality(R) = Cardinality(T) - 1
    BY <1>1, <2>2, FS_RemoveElement
  <2>4. Cardinality(V) = Cardinality(R) /\ IsFiniteSet(V)
    BY <2>1, <2>2, Shifted
  <2>5. \A i \in V : i \in F /\ i \in Int /\ i > k + 1
    <3>1. ASSUME NEW i \in R PROVE i + k \in F /\ i + k \in Int /\ i + k > k + 1
      <4>1. i \in T /\ i \in Nat /\ i > 1
        BY <1>0, <2>1
      <4>2. i + k \in Nat /\ i + k > k + 1 /\ (i + k) - k = i
        BY <4>1
      <4> QED
        BY <4>1, <4>2
    <3> QED
      BY <2>1, <3>1
  <2>6. j \notin V
    BY <1>3, <2>5
  <2>7. Cardinality(V \cup {j}) = Cardinality(T)
    BY <1>1, <2>3, <2>4, <2>6, FS_AddElement
  <2>8. V \cup {j} \subseteq {i \in F : i >= j}
    <3>1. j \in Int /\ \A i \in V : i \in Int /\ i >= j
      BY <1>3, <2>5
    <3> QED
      BY <2>5, <3>1
  <2>9. Cardinality(V \cup {j}) <= Cardinality({i \in F : i >= j})
    BY <1>1, <2>8, FS_Subset
  <2> QED
    BY <1>1, <2>7, <2>9
<1>4. 1 \notin Latest(T, n)
  <2>1. {i \in T : i >= 1} = T
    BY <1>0
  <2> QED
    BY <1>1, <2>1 DEF Latest
<1>5. Latest(F, n) = {j + k : j \in Latest(T, n)}
  <2>1. ASSUME NEW j \in Latest(F, n) PROVE j - k \in Latest(T, n) /\ j = (j - k) + k
    <3>1. j \in F /\ j > k + 1 /\ j - k \in T /\ j - k > 1 /\ j = (j - k) + k
      BY <1>1, <1>3 DEF Latest
    <3> QED
      BY <1>2, <3>1 DEF Latest
  <2>2. ASSUME NEW j \in Latest(T, n) PROVE j + k \in Latest(F, n)
    <3>1. j \in T /\ j > 1
      BY <1>0, <1>4 DEF Latest
    <3>2. j + k \in Nat /\ j + k > k + 1 /\ (j + k) - k = j
      BY <3>1
    <3> QED
      BY <1>2, <3>1, <3>2 DEF Latest
  <2> QED
    BY <2>1, <2>2
<1>6. Latest(T, n) # {}
  <2>1. PICK x \in T : \A y \in T : y <= x
    BY Greatest
  <2>2. {i \in T : i >= x} = {x}
    <3>1. ASSUME NEW i \in T PROVE i >= x <=> i = x
      BY <1>0, <2>1
    <3> QED
      BY <3>1
  <2>3. Cardinality({x}) = 1
    BY FS_Singleton
  <2> QED
    BY <2>2, <2>3 DEF Latest
<1>7. PICK x, y : x = A!Min(Latest(T, n)) /\ y = A!Min(Latest(F, n))
  OBVIOUS
<1>8. x \in Latest(T, n) /\ \A j \in Latest(T, n) : x <= j
  <2>1. Latest(T, n) \in SUBSET (1 .. b)
    BY DEF Latest
  <2> QED
    BY <1>6, <1>7, <2>1, Least
<1>9. y \in Latest(F, n) /\ \A j \in Latest(F, n) : y <= j
  <2>1. Latest(F, n) \in SUBSET (1 .. b)
    BY DEF Latest
  <2>2. Latest(F, n) # {}
    BY <1>5, <1>6
  <2> QED
    BY <1>7, <2>1, <2>2, Least
<1>10. x \in 1 .. b /\ y \in 1 .. b
  BY <1>8, <1>9 DEF Latest
<1>11. x + k \in Latest(F, n) /\ \E j \in Latest(T, n) : y = j + k
  BY <1>5, <1>8, <1>9
<1>12. y = x + k
  <2>1. PICK j \in Latest(T, n) : y = j + k
    BY <1>11
  <2>2. j \in 1 .. b /\ x <= j /\ y <= x + k
    BY <1>8, <1>9, <1>11, <2>1 DEF Latest
  <2> QED
    BY <1>10, <2>1, <2>2
<1> QED
  BY <1>7, <1>10, <1>12

Texts == Seq(STRING)
Ended(t) == t # <<>> /\ t[Len(t)] = A!LineEnd
Body(t) == IF Ended(t) THEN SubSeq(t, 1, Len(t) - 1) ELSE t
StartsOf(t) == {1} \cup {i + 1 : i \in A!EndsOfLines(t)}

\* The lines shown are those of the body, with the end of line the text has.
LEMMA LastLinesIs ==
  ASSUME NEW t, NEW n, NEW m, m = SubSeq(Body(t), A!Min(Latest(StartsOf(Body(t)), n)), Len(Body(t)))
  PROVE  A!LastLines(t, n) = IF m = <<>> THEN <<>>
                             ELSE m \o IF Ended(t) THEN <<A!LineEnd>> ELSE <<>>
<1>1. PICK R : R = {i \in StartsOf(Body(t)) :
                      A!Cardinality({j \in StartsOf(Body(t)) : j >= i}) <= n}
  OBVIOUS
<1>2. A!LastLines(t, n) =
        IF SubSeq(Body(t), A!Min(R), Len(Body(t))) = <<>> THEN <<>>
        ELSE SubSeq(Body(t), A!Min(R), Len(Body(t))) \o IF Ended(t) THEN <<A!LineEnd>> ELSE <<>>
  BY <1>1, Zenon DEF A!LastLines, Body, Ended, StartsOf
<1>3. R = Latest(StartsOf(Body(t)), n)
  <2>1. \A T : A!Cardinality(T) = Cardinality(T)
    BY DEF A!Cardinality, Cardinality
  <2> QED
    BY <1>1, <2>1 DEF Latest
<1> QED
  BY <1>2, <1>3, Zenon

\* What a text and a part of it consist of.
LEMMA TextHas ==
  ASSUME NEW t \in Texts
  PROVE  /\ Len(t) \in Nat /\ DOMAIN t = 1 .. Len(t) /\ \A i \in 1 .. Len(t) : t[i] \in STRING
         /\ t = <<>> <=> Len(t) = 0
<1>1. Len(t) \in Nat /\ DOMAIN t = 1 .. Len(t) /\ \A i \in 1 .. Len(t) : t[i] \in STRING
  BY LenProperties DEF Texts
<1>2. t = <<>> <=> Len(t) = 0
  BY EmptySeq DEF Texts
<1> QED
  BY <1>1, <1>2

\* A part of a text, place by place.
LEMMA TextPart ==
  ASSUME NEW t \in Texts, NEW a \in Nat \ {0}, NEW z \in 0 .. Len(t)
  PROVE  /\ SubSeq(t, a, z) \in Texts
         /\ Len(SubSeq(t, a, z)) = IF a <= z THEN z - a + 1 ELSE 0
         /\ \A i \in 1 .. z - a + 1 : SubSeq(t, a, z)[i] = t[a + i - 1]
<1>1. Len(t) \in Nat /\ a \in Int /\ z \in Int
  BY TextHas
<1>2. \A i \in a .. z : t[i] \in STRING
  <2>1. ASSUME NEW i \in a .. z PROVE i \in 1 .. Len(t)
    BY <1>1
  <2> QED
    BY <2>1, TextHas
<1> QED
  BY <1>1, <1>2, SubSeqProperties DEF Texts

\* Texts that agree in every place are the same.
LEMMA TextsSame ==
  ASSUME NEW t \in Texts, NEW u \in Texts, Len(t) = Len(u), \A i \in 1 .. Len(t) : t[i] = u[i]
  PROVE  t = u
BY SeqEqual DEF Texts

\* Where a text's lines end.
LEMMA EndsAre ==
  ASSUME NEW t \in Texts
  PROVE  /\ A!EndsOfLines(t) = {i \in 1 .. Len(t) : t[i] = A!LineEnd}
         /\ IsFiniteSet(A!EndsOfLines(t))
<1>1. A!EndsOfLines(t) = {i \in 1 .. Len(t) : t[i] = A!LineEnd}
  BY TextHas DEF A!EndsOfLines
<1>2. IsFiniteSet(1 .. Len(t))
  BY TextHas, FS_Interval
<1>3. A!EndsOfLines(t) \subseteq 1 .. Len(t)
  BY <1>1
<1> QED
  BY <1>1, <1>2, <1>3, FS_Subset

\* The body of a text is the text up to the end of its last line.
LEMMA BodyIs ==
  ASSUME NEW t \in Texts, t # <<>>
  PROVE  /\ Body(t) \in Texts
         /\ Len(Body(t)) = IF Ended(t) THEN Len(t) - 1 ELSE Len(t)
         /\ \A i \in 1 .. Len(Body(t)) : i \in 1 .. Len(t) /\ Body(t)[i] = t[i]
<1>1. Len(t) \in Nat /\ Len(t) >= 1
  BY TextHas
<1>2. CASE Ended(t)
  <2>1. PICK z, u : z = Len(t) - 1 /\ u = SubSeq(t, 1, z)
    OBVIOUS
  <2>2. z \in 0 .. Len(t) /\ 1 \in Nat \ {0} /\ z - 1 + 1 = z
    BY <1>1, <2>1
  <2>3. u \in Texts /\ Len(u) = z /\ \A i \in 1 .. z : u[i] = t[1 + i - 1]
    BY <2>1, <2>2, TextPart
  <2>4. ASSUME NEW i \in 1 .. Len(u) PROVE i \in 1 .. Len(t) /\ u[i] = t[i]
    <3>1. i \in 1 .. z /\ 1 + i - 1 = i /\ i \in 1 .. Len(t)
      BY <1>1, <2>2, <2>3
    <3> QED
      BY <2>3, <3>1
  <2> QED
    BY <1>2, <2>1, <2>3, <2>4 DEF Body
<1>3. CASE ~Ended(t)
  BY <1>3 DEF Body
<1> QED
  BY <1>2, <1>3

\* A part of a text at its end that has more ends of lines than lines are wanted is enough.
LEMMA SuffixLines ==
  ASSUME NEW s \in Texts, NEW k \in 0 .. Len(s), NEW n \in Nat \ {0},
         NEW t, t = SubSeq(s, k + 1, Len(s)), A!Enough(t, n)
  PROVE  A!LastLines(t, n) = A!LastLines(s, n)
<1>0. k \in Nat /\ n \in Nat
  BY TextHas
<1>1. /\ Len(s) \in Nat /\ t \in Texts /\ Len(t) \in Nat /\ Len(t) = Len(s) - k
      /\ \A i \in 1 .. Len(t) : t[i] = s[i + k]
  <2>1. PICK a, z : a = k + 1 /\ z = Len(s)
    OBVIOUS
  <2>2. z \in Nat /\ z \in 0 .. Len(s) /\ a \in Nat \ {0}
    BY <2>1, TextHas
  <2>3. /\ t \in Texts /\ Len(t) = IF a <= z THEN z - a + 1 ELSE 0
        /\ \A i \in 1 .. z - a + 1 : t[i] = s[a + i - 1]
    BY <2>1, <2>2, TextPart
  <2>4. Len(t) = z - k /\ z - a + 1 = z - k
    BY <2>1, <2>2, <2>3
  <2>5. ASSUME NEW i \in 1 .. Len(t) PROVE t[i] = s[i + k]
    <3>1. i \in 1 .. z - a + 1 /\ a + i - 1 = i + k
      BY <2>1, <2>2, <2>4
    <3> QED
      BY <2>3, <3>1
  <2> QED
    BY <2>1, <2>2, <2>3, <2>4, <2>5
<1>2. PICK X : X = A!EndsOfLines(t)
  OBVIOUS
<1>3. X = {i \in 1 .. Len(t) : t[i] = A!LineEnd} /\ IsFiniteSet(X) /\ Cardinality(X) \in Nat
  BY <1>1, <1>2, EndsAre, FS_CardinalityType
<1>4. Cardinality(X) > n
  BY <1>2 DEF A!Enough, A!Cardinality, Cardinality
<1>5. t # <<>> /\ s # <<>> /\ Len(t) >= 1
  <2>1. X # {}
    <3>1. SUFFICES ASSUME X = {} PROVE FALSE
      OBVIOUS
    <3>2. Cardinality(X) = 0
      BY <3>1, FS_EmptySet
    <3> QED
      BY <1>0, <1>4, <3>2
  <2>2. Len(t) >= 1
    BY <1>1, <1>3, <2>1
  <2>3. Len(t) # 0 /\ Len(s) # 0
    BY <1>0, <1>1, <2>2
  <2> QED
    BY <1>1, <2>2, <2>3, TextHas
<1>6. Ended(t) <=> Ended(s)
  <2>1. Len(t) \in 1 .. Len(t) /\ Len(t) + k = Len(s)
    BY <1>1, <1>5
  <2>2. t[Len(t)] = s[Len(s)]
    BY <1>1, <2>1
  <2> QED
    BY <1>5, <2>2 DEF Ended
<1>7. PICK p, q : p = Body(t) /\ q = Body(s)
  OBVIOUS
<1>8. /\ p \in Texts /\ q \in Texts /\ Len(p) \in Nat /\ Len(q) \in Nat
      /\ \A i \in 1 .. Len(p) : p[i] = t[i] /\ i \in 1 .. Len(t)
      /\ \A i \in 1 .. Len(q) : q[i] = s[i]
  BY <1>1, <1>5, <1>7, BodyIs, TextHas
<1>9. Len(q) = Len(p) + k /\ Len(t) <= Len(p) + 1
  <2>1. /\ Len(p) = IF Ended(t) THEN Len(t) - 1 ELSE Len(t)
        /\ Len(q) = IF Ended(s) THEN Len(s) - 1 ELSE Len(s)
    BY <1>1, <1>5, <1>7, BodyIs
  <2> QED
    BY <1>1, <1>6, <2>1
<1>10. ASSUME NEW i \in 1 .. Len(p) PROVE i + k \in 1 .. Len(q) /\ p[i] = q[i + k]
  <2>1. i + k \in 1 .. Len(q)
    BY <1>8, <1>9
  <2> QED
    BY <1>1, <1>8, <2>1
<1>11. PICK P, Q, Y : P = StartsOf(p) /\ Q = StartsOf(q) /\ Y = A!EndsOfLines(p)
  OBVIOUS
<1>12. Y = {i \in 1 .. Len(p) : p[i] = A!LineEnd} /\ IsFiniteSet(Y) /\ Cardinality(Y) \in Nat
  BY <1>8, <1>11, EndsAre, FS_CardinalityType
<1>13. A!EndsOfLines(q) = {i \in 1 .. Len(q) : q[i] = A!LineEnd}
  BY <1>8, EndsAre
<1>14. PICK b : b = Len(q) + 1
  OBVIOUS
<1>15. b \in Nat /\ P \in SUBSET (1 .. b) /\ Q \in SUBSET (1 .. b) /\ 1 \in P
  <2>1. \A i \in 1 .. Len(q) : i + 1 \in 1 .. b
    BY <1>8, <1>14
  <2>2. \A i \in 1 .. Len(p) : i + 1 \in 1 .. b
    BY <1>8, <1>9, <1>14
  <2>3. b \in Nat /\ 1 \in 1 .. b
    BY <1>8, <1>14
  <2> QED
    BY <1>11, <1>12, <1>13, <2>1, <2>2, <2>3 DEF StartsOf
<1>16. ASSUME NEW i \in Nat, i > k + 1 PROVE i \in Q <=> i - k \in P
  <2>1. PICK h, j : h = i - 1 /\ j = (i - k) - 1
    OBVIOUS
  <2>2. h \in Int /\ j \in Int /\ i = h + 1 /\ i - k = j + 1 /\ i # 1 /\ i - k # 1 /\ h = j + k
    BY <1>16, <2>1
  <2>3. i \in Q <=> h \in A!EndsOfLines(q)
    BY <1>11, <1>13, <2>2 DEF StartsOf
  <2>4. i - k \in P <=> j \in Y
    BY <1>11, <1>12, <2>2 DEF StartsOf
  <2>5. h \in 1 .. Len(q) <=> j \in 1 .. Len(p)
    BY <1>8, <1>9, <1>16, <2>1
  <2>6. j \in 1 .. Len(p) => p[j] = q[h]
    BY <1>10, <2>2
  <2> QED
    BY <1>12, <1>13, <2>3, <2>4, <2>5, <2>6
<1>17. Cardinality(P) > n
  <2>1. X \subseteq Y \cup {Len(t)}
    <3>1. ASSUME NEW i \in X, i # Len(t) PROVE i \in Y
      <4>1. i \in 1 .. Len(t) /\ t[i] = A!LineEnd
        BY <1>3
      <4>2. i \in 1 .. Len(p)
        BY <1>1, <1>8, <1>9, <3>1, <4>1
      <4> QED
        BY <1>8, <1>12, <4>1, <4>2
    <3> QED
      BY <3>1
  <2>2. PICK E, c, d : E = Y \cup {Len(t)} /\ c = Cardinality(Y) /\ d = Cardinality(X)
    OBVIOUS
  <2>3. d <= c + 1 /\ c \in Nat /\ d \in Nat
    <3>1. IsFiniteSet(E) /\ Cardinality(E) = IF Len(t) \in Y THEN c ELSE c + 1
      BY <1>12, <2>2, FS_AddElement
    <3>2. X \in SUBSET E
      BY <2>1, <2>2
    <3>3. d <= Cardinality(E)
      BY <2>2, <3>1, <3>2, FS_Subset
    <3>4. c \in Nat /\ d \in Nat
      BY <1>3, <1>12, <2>2
    <3>5. d <= c \/ d <= c + 1
      BY <3>1, <3>3
    <3> QED
      BY <3>4, <3>5
  <2>4. PICK Z : Z = {i + 1 : i \in Y}
    OBVIOUS
  <2>5. Y \in SUBSET Nat /\ \A i \in Y : i + 1 # 1
    BY <1>12
  <2>6. Cardinality(Z) = c /\ IsFiniteSet(Z) /\ 1 \notin Z
    <3>1. 1 \in Nat
      OBVIOUS
    <3>2. Cardinality(Z) = c /\ IsFiniteSet(Z)
      BY <1>12, <2>2, <2>4, <2>5, <3>1, Shifted
    <3> QED
      BY <2>4, <2>5, <3>2
  <2>7. P = Z \cup {1}
    BY <1>11, <2>4 DEF StartsOf
  <2>8. Cardinality(P) = c + 1
    BY <2>6, <2>7, FS_AddElement
  <2> QED
    BY <1>0, <1>4, <2>2, <2>3, <2>8
<1>18. PICK x, y : x = A!Min(Latest(P, n)) /\ y = A!Min(Latest(Q, n))
  OBVIOUS
<1>19. x \in 1 .. b /\ y = x + k
  <2>1. Behind(Q, P, k) /\ Q \in Places(b) /\ P \in Places(b)
    BY <1>15, <1>16 DEF Behind, Places
  <2>2. /\ A!Min(Latest(P, n)) \in 1 .. b
        /\ A!Min(Latest(Q, n)) = A!Min(Latest(P, n)) + k
    BY <1>0, <1>15, <1>17, <2>1, LatestMatch
  <2> QED
    BY <1>18, <2>2
<1>20. SubSeq(p, x, Len(p)) = SubSeq(q, y, Len(q))
  <2>1. PICK u, v : u = SubSeq(p, x, Len(p)) /\ v = SubSeq(q, y, Len(q))
    OBVIOUS
  <2>2. /\ x \in Nat \ {0} /\ y \in Nat \ {0} /\ Len(p) \in 0 .. Len(p) /\ Len(q) \in 0 .. Len(q)
    BY <1>0, <1>8, <1>15, <1>19
  <2>3. /\ u \in Texts /\ Len(u) = IF x <= Len(p) THEN Len(p) - x + 1 ELSE 0
        /\ \A i \in 1 .. Len(p) - x + 1 : u[i] = p[x + i - 1]
    BY <1>8, <2>1, <2>2, TextPart
  <2>4. /\ v \in Texts /\ Len(v) = IF y <= Len(q) THEN Len(q) - y + 1 ELSE 0
        /\ \A i \in 1 .. Len(q) - y + 1 : v[i] = q[y + i - 1]
    BY <1>8, <2>1, <2>2, TextPart
  <2>5. Len(u) = Len(v)
    BY <1>8, <1>9, <1>19, <2>2, <2>3, <2>4
  <2>6. ASSUME NEW i \in 1 .. Len(u) PROVE u[i] = v[i]
    <3>1. i \in 1 .. Len(p) - x + 1 /\ i \in 1 .. Len(q) - y + 1
      BY <1>8, <1>9, <1>19, <2>2, <2>3, <2>6
    <3>2. x + i - 1 \in 1 .. Len(p) /\ y + i - 1 = (x + i - 1) + k
      <4>1. /\ x \in Int /\ y \in Int /\ i \in Int /\ k \in Int /\ x >= 1 /\ i >= 1
            /\ i <= Len(p) - x + 1 /\ y = x + k
        BY <1>0, <1>8, <1>19, <2>2, <3>1
      <4> QED
        BY <1>8, <4>1
    <3>3. p[x + i - 1] = q[y + i - 1]
      BY <1>10, <3>2
    <3> QED
      BY <2>3, <2>4, <3>1, <3>3
  <2> QED
    BY <2>1, <2>3, <2>4, <2>5, <2>6, TextsSame
<1>21. PICK m : m = SubSeq(p, x, Len(p)) /\ m = SubSeq(q, y, Len(q))
  BY <1>20
<1>22. A!LastLines(t, n) = IF m = <<>> THEN <<>> ELSE m \o IF Ended(t) THEN <<A!LineEnd>> ELSE <<>>
  BY <1>7, <1>11, <1>18, <1>21, LastLinesIs
<1>23. A!LastLines(s, n) = IF m = <<>> THEN <<>> ELSE m \o IF Ended(s) THEN <<A!LineEnd>> ELSE <<>>
  BY <1>7, <1>11, <1>18, <1>21, LastLinesIs
<1> QED
  BY <1>6, <1>22, <1>23

\* Nor do the steps of the others touch what file commands work on.
LEMMA AdapterBehaves == Spec => A!Spec
<1>1. Init => A!Init
  BY DEF Init
<1>2. [Next]_vars => [A!Next]_(A!vars)
  BY DEF Next, vars, adapter, A!vars
<1> QED
  BY <1>1, <1>2, PTL DEF Spec, A!Spec

\* What a path of the workspace may name: never the file outside.
Entries(count) == {A!Nothing, A!Directory, A!Link} \cup {A!File(f) : f \in 2 .. count}

FilesOK ==
    /\ files \in 1 .. MaxFiles /\ DOMAIN text = A!Files /\ \A f \in A!Files : text[f] \in Texts
    /\ DOMAIN entry = Paths \cup {Outside} /\ entry[Outside] = A!File(1)
    /\ \A p \in Paths : entry[p] \in Entries(files)

CommandFields == {"at", "r", "ok", "out", "file", "was", "left", "got", "mixed"}

\* What tail.file has read so far is the end of the text as it was looked at.
TailOK(c, count) ==
    /\ c.at \in {"begin", "open", "read", "done"} /\ (c.at = "begin" => c.ok = FALSE)
    /\ c.was \in Texts /\ c.got \in Texts /\ c.left \in 0 .. Len(c.was)
    /\ c.at = "begin" => c.was = <<>>
    /\ c.at \in {"begin", "open"} => c.got = <<>> /\ c.left = Len(c.was)
    /\ c.at = "read" => c.file \in 1 .. count
    /\ c.at = "read" /\ ~c.mixed => c.got = SubSeq(c.was, c.left + 1, Len(c.was))
    /\ c.at = "done" /\ c.ok /\ ~c.mixed => c.out = A!LastLines(c.was, c.r.lines)

CommandOK(c, count) ==
    /\ DOMAIN c = CommandFields /\ c.r \in Requested /\ c.at # "idle"
    /\ c.r.do = "tail" => TailOK(c, count)

CommandsOK ==
    /\ DOMAIN command = Workers
    /\ \A w \in Workers : command[w] = A!Idle \/ CommandOK(command[w], files)

NodeOK == FilesOK /\ CommandsOK

\* What a step of the request r may do to files and entries.
Named(r) ==
    /\ entry'[Outside] = entry[Outside]
    /\ \A f \in 1 .. files : text'[f] # text[f] =>
         /\ r.do \in {"write", "append", "copy"}
         /\ f = 1 => entry[IF r.do = "copy" THEN r.to ELSE r.path] = A!Link

\* The kinds of entries are told apart.
LEMMA EntriesApart ==
  ASSUME NEW f
  PROVE  /\ A!Nothing # A!Directory /\ A!Nothing # A!Link /\ A!Directory # A!Link
         /\ A!File(f) \notin {A!Nothing, A!Directory, A!Link} /\ A!File(f).file = f
<1>1. /\ A!Nothing.kind = "none" /\ A!Directory.kind = "dir" /\ A!Link.kind = "link"
      /\ A!File(f).kind = "file" /\ A!File(f).file = f
  BY DEF A!Nothing, A!Directory, A!Link, A!File
<1> QED
  BY <1>1

\* What a request names.
LEMMA RequestIs ==
  ASSUME NEW r \in Requested
  PROVE  r.path \in Paths /\ r.to \in Paths /\ r.text \in Texts /\ r.lines \in Nat \ {0}
BY WorkbenchAssumption DEF WorkbenchAssumption, A!AdapterAssumption, Texts

\* A path leads to itself or outside, and there to a file.
LEMMA TargetIs ==
  ASSUME FilesOK, NEW p \in Paths
  PROVE  /\ p # Outside
         /\ \/ A!Target(p) = p /\ entry[p] # A!Link
            \/ A!Target(p) = Outside /\ entry[p] = A!Link
         /\ A!Found(p) \in {A!Nothing, A!Directory} \cup {A!File(f) : f \in 1 .. files}
         /\ A!TextAt(p) \in Texts
         /\ A!IsFile(p) => \E f \in 1 .. files : A!Found(p) = A!File(f) /\ f \in A!Files
<1>1. p # Outside /\ MaxFiles \in Nat \ {0}
  BY WorkbenchAssumption DEF WorkbenchAssumption, A!AdapterAssumption
<1>2. \/ A!Target(p) = p /\ entry[p] # A!Link
      \/ A!Target(p) = Outside /\ entry[p] = A!Link
  BY DEF A!Target
<1>3. A!Found(p) \in {A!Nothing, A!Directory} \cup {A!File(f) : f \in 1 .. files}
  <2>1. files \in Nat /\ 1 \in 1 .. files /\ \A f \in 2 .. files : f \in 1 .. files
    BY <1>1 DEF FilesOK
  <2> QED
    BY <1>2, <2>1 DEF A!Found, FilesOK, Entries
<1>4. \A f \in 1 .. files : f \in A!Files
  BY <1>1 DEF FilesOK, A!Files
<1>5. A!IsFile(p) => \E f \in 1 .. files : A!Found(p) = A!File(f) /\ f \in A!Files
  BY <1>3, <1>4 DEF A!IsFile
<1>6. A!TextAt(p) \in Texts
  <2>1. CASE A!IsFile(p)
    <3>1. PICK f \in 1 .. files : A!Found(p) = A!File(f) /\ f \in A!Files
      BY <1>5, <2>1
    <3>2. A!TextAt(p) = text[f]
      BY <2>1, <3>1, EntriesApart DEF A!TextAt
    <3> QED
      BY <3>1, <3>2 DEF FilesOK
  <2>2. CASE ~A!IsFile(p)
    BY <2>2, EmptySeq DEF A!TextAt, Texts
  <2> QED
    BY <2>1, <2>2
<1> QED
  BY <1>1, <1>2, <1>3, <1>5, <1>6

\* A text is written where a path leads, into the file there is or a new one.
LEMMA PutFiles ==
  ASSUME FilesOK, NEW p \in Paths, NEW new \in Texts, A!Put(p, new), A!Found(p) # A!Directory
  PROVE  /\ FilesOK' /\ files <= files' /\ entry'[Outside] = entry[Outside]
         /\ \A f \in 1 .. files : text'[f] # text[f] =>
              A!Found(p) # A!Nothing /\ (f = 1 => entry[p] = A!Link)
<1>1. PICK q : q = A!Target(p)
  OBVIOUS
<1>2. /\ p # Outside /\ A!Found(p) = entry[q]
      /\ (q = p /\ entry[p] # A!Link) \/ (q = Outside /\ entry[p] = A!Link)
  BY <1>1, TargetIs DEF A!Found
<1>3. files \in Nat /\ files >= 1 /\ files <= MaxFiles /\ MaxFiles \in Nat
  BY WorkbenchAssumption DEF FilesOK, WorkbenchAssumption, A!AdapterAssumption
<1>4. CASE entry[q] = A!Nothing
  <2>1. PICK n : n = files + 1
    OBVIOUS
  <2>2. /\ files < MaxFiles /\ files' = n /\ entry' = [entry EXCEPT ![q] = A!File(n)]
        /\ text' = [text EXCEPT ![n] = new]
    BY <1>1, <1>4, <2>1 DEF A!Put
  <2>3. q = p
    BY <1>2, <1>4, EntriesApart DEF FilesOK
  <2>4. n \in 2 .. n /\ n \in A!Files /\ n \notin 1 .. files /\ n \in 1 .. MaxFiles
    BY <1>3, <2>1, <2>2 DEF A!Files
  <2>5. \A v \in Paths : entry'[v] \in Entries(n)
    <3>1. \A v \in Paths : entry[v] \in Entries(n)
      <4>1. \A f \in 2 .. files : f \in 2 .. n
        BY <1>3, <2>1
      <4> QED
        BY <4>1 DEF FilesOK, Entries
    <3>2. A!File(n) \in Entries(n)
      BY <2>4 DEF Entries
    <3> QED
      BY <2>2, <2>3, <3>1, <3>2 DEF FilesOK
  <2>6. entry'[Outside] = entry[Outside] /\ DOMAIN entry' = Paths \cup {Outside}
    BY <1>2, <2>2, <2>3 DEF FilesOK
  <2>7. DOMAIN text' = A!Files /\ \A f \in A!Files : text'[f] \in Texts
    BY <2>2 DEF FilesOK
  <2>8. FilesOK'
    BY <2>2, <2>4, <2>5, <2>6, <2>7 DEF FilesOK, A!Files
  <2>9. \A f \in 1 .. files : text'[f] = text[f]
    BY <1>3, <2>2, <2>4 DEF FilesOK, A!Files
  <2> QED
    BY <1>3, <2>1, <2>2, <2>6, <2>8, <2>9
<1>5. CASE entry[q] # A!Nothing
  <2>1. text' = [text EXCEPT ![entry[q].file] = new] /\ UNCHANGED <<entry, files>>
    BY <1>1, <1>5 DEF A!Put
  <2>2. PICK g \in 1 .. files : entry[q] = A!File(g) /\ g \in A!Files
    BY <1>2, <1>5, TargetIs DEF A!IsFile
  <2>3. text' = [text EXCEPT ![g] = new]
    BY <2>1, <2>2, EntriesApart
  <2>4. FilesOK'
    BY <2>1, <2>2, <2>3 DEF FilesOK, A!Files
  <2>5. ASSUME NEW f \in 1 .. files, text'[f] # text[f]
        PROVE  A!Found(p) # A!Nothing /\ (f = 1 => entry[p] = A!Link)
    <3>1. f = g
      BY <2>2, <2>3, <2>5 DEF FilesOK, A!Files
    <3>2. f = 1 => q # p
      <4>1. SUFFICES ASSUME f = 1, q = p PROVE FALSE
        OBVIOUS
      <4>2. entry[p] \in Entries(files) /\ entry[p] = A!File(1)
        BY <2>2, <3>1, <4>1 DEF FilesOK
      <4>3. PICK h \in 2 .. files : A!File(1) = A!File(h)
        BY <4>2, EntriesApart DEF Entries
      <4>4. h = 1
        BY <4>3, EntriesApart
      <4> QED
        BY <1>3, <4>3, <4>4
    <3> QED
      BY <1>2, <1>5, <3>2
  <2> QED
    BY <1>3, <2>1, <2>4, <2>5
<1> QED
  BY <1>4, <1>5

\* A command goes on, and the others stay as they are.
LEMMA CommandGoes ==
  ASSUME NodeOK, NEW w \in Workers, NEW y, command' = [command EXCEPT ![w] = y],
         files' \in Nat, files <= files', CommandOK(y, files')
  PROVE  /\ CommandsOK' /\ command'[w] = y
         /\ \A v \in Workers : v # w => command'[v] = command[v]
<1>1. /\ DOMAIN command' = Workers /\ command'[w] = y
      /\ \A v \in Workers : v # w => command'[v] = command[v]
  BY DEF NodeOK, CommandsOK
<1>2. \A i \in 1 .. files : i \in 1 .. files'
  BY DEF NodeOK, FilesOK
<1>3. ASSUME NEW c, CommandOK(c, files) PROVE CommandOK(c, files')
  BY <1>2, <1>3 DEF CommandOK, TailOK
<1>4. ASSUME NEW v \in Workers PROVE command'[v] = A!Idle \/ CommandOK(command'[v], files')
  BY <1>1, <1>3 DEF NodeOK, CommandsOK
<1> QED
  BY <1>1, <1>4 DEF CommandsOK

\* What a worker is at.
LEMMA AtIs ==
  ASSUME NodeOK, NEW w \in Workers, command[w].at # "idle"
  PROVE  CommandOK(command[w], files) /\ command[w].r \in Requested
<1>1. A!Idle.at = "idle"
  BY DEF A!Idle
<1> QED
  BY <1>1 DEF NodeOK, CommandsOK, CommandOK

\* What a step may change is what its command may.
Changes ==
    \A w \in Workers : command'[w] # command[w] => Named(command'[w].r)

\* Only one command moves in a step.
LEMMA ChangesOf ==
  ASSUME NEW w \in Workers, \A v \in Workers : v # w => command'[v] = command[v],
         Named(command'[w].r)
  PROVE  Changes
BY DEF Changes

\* A command other than tail.file goes on, or ends with an answer.
LEMMA OtherGoes ==
  ASSUME NodeOK, NEW w \in Workers, command[w].at # "idle", command[w].r.do # "tail",
         FilesOK', files <= files', Named(command[w].r),
         \/ \E at : at # "idle" /\ A!Goto(w, at)
         \/ \E ok, out : A!Ends(w, ok, out)
  PROVE  NodeOK' /\ Changes
<1>1. PICK c : c = command[w]
  OBVIOUS
<1>2. CommandOK(c, files) /\ c.r \in Requested /\ DOMAIN c = CommandFields
  BY <1>1, AtIs DEF CommandOK
<1>3. PICK y : /\ command' = [command EXCEPT ![w] = y]
               /\ DOMAIN y = CommandFields /\ y.r = c.r /\ y.at # "idle"
  <2>1. CASE \E at : at # "idle" /\ A!Goto(w, at)
    <3>1. PICK at : at # "idle" /\ A!Goto(w, at)
      BY <2>1
    <3>2. PICK y : y = [c EXCEPT !.at = at]
      OBVIOUS
    <3>3. command' = [command EXCEPT ![w] = y]
      BY <1>1, <3>1, <3>2 DEF A!Goto
    <3>4. DOMAIN y = CommandFields /\ y.r = c.r /\ y.at # "idle"
      BY <1>2, <3>1, <3>2 DEF CommandFields
    <3> QED
      BY <3>3, <3>4
  <2>2. CASE \E ok, out : A!Ends(w, ok, out)
    <3>1. PICK ok, out : A!Ends(w, ok, out)
      BY <2>2
    <3>2. PICK y : y = [c EXCEPT !.at = "done", !.ok = ok, !.out = out]
      OBVIOUS
    <3>3. command' = [command EXCEPT ![w] = y]
      BY <1>1, <3>1, <3>2 DEF A!Ends
    <3>4. DOMAIN y = CommandFields /\ y.r = c.r /\ y.at # "idle"
      BY <1>2, <3>2 DEF CommandFields
    <3> QED
      BY <3>3, <3>4
  <2> QED
    BY <2>1, <2>2
<1>4. CommandOK(y, files')
  BY <1>1, <1>2, <1>3 DEF CommandOK
<1>5. files' \in Nat
  BY WorkbenchAssumption DEF FilesOK, WorkbenchAssumption, A!AdapterAssumption
<1>6. /\ CommandsOK' /\ command'[w] = y
      /\ \A v \in Workers : v # w => command'[v] = command[v]
  BY <1>3, <1>4, <1>5, CommandGoes
<1> QED
  BY <1>1, <1>3, <1>6, ChangesOf DEF NodeOK

\* A step that touches no file.
LEMMA SameFilesOK ==
  ASSUME NodeOK, A!SameFiles
  PROVE  FilesOK' /\ files' \in Nat /\ files <= files' /\ \A r : Named(r)
<1>1. files \in Nat
  BY WorkbenchAssumption DEF NodeOK, FilesOK, WorkbenchAssumption, A!AdapterAssumption
<1> QED
  BY <1>1 DEF NodeOK, A!SameFiles, FilesOK, A!Files, Named

\* A command that looks, or waits for another process.
LEMMA LookKeeps ==
  ASSUME NodeOK, NEW w \in Workers,
         \/ A!CreateStat(w) \/ A!RefuseLink(w) \/ A!Read(w) \/ A!Enter(w) \/ A!Spawn(w) \/ A!Exit(w)
  PROVE  NodeOK' /\ Changes
<1>1. /\ A!SameFiles /\ command[w].at # "idle"
      /\ \/ command[w].at = "spawned"
         \/ command[w].r.do # "tail"
      /\ \/ \E at : at # "idle" /\ A!Goto(w, at)
         \/ \E ok, out : A!Ends(w, ok, out)
  <2>1. A!Goto(w, "act") => \E at : at # "idle" /\ A!Goto(w, at)
    OBVIOUS
  <2>2. A!Goto(w, "spawned") => \E at : at # "idle" /\ A!Goto(w, at)
    OBVIOUS
  <2> QED
    BY <2>1, <2>2 DEF A!CreateStat, A!RefuseLink, A!Read, A!Enter, A!Spawn, A!Exit, A!At, A!Ok, A!Fails
<1>2. command[w].r.do # "tail"
  BY <1>1, AtIs DEF CommandOK, TailOK
<1>3. FilesOK' /\ files <= files' /\ Named(command[w].r)
  BY <1>1, SameFilesOK
<1> QED
  BY <1>1, <1>2, <1>3, OtherGoes

\* create.file
LEMMA CreateKeeps ==
  ASSUME NodeOK, NEW w \in Workers, A!Create(w)
  PROVE  NodeOK' /\ Changes
<1>1. PICK r : r = command[w].r
  OBVIOUS
<1>2. command[w].at # "idle" /\ r.do # "tail" /\ r \in Requested /\ r.path \in Paths
  BY <1>1, AtIs, RequestIs DEF A!Create, A!At
<1>3. \E ok, out : A!Ends(w, ok, out)
  BY DEF A!Create, A!Ok, A!Fails
<1>4. FilesOK' /\ files <= files' /\ Named(r)
  <2>1. CASE entry[r.path] # A!Nothing
    BY <1>1, <2>1, SameFilesOK DEF A!Create, A!Path
  <2>2. CASE entry[r.path] = A!Nothing
    <3>1. A!Put(r.path, <<>>) /\ <<>> \in Texts
      BY <1>1, <2>2, EmptySeq DEF A!Create, A!Path, Texts
    <3>2. A!Found(r.path) = A!Nothing
      BY <1>2, <2>2, EntriesApart, TargetIs DEF A!Found, NodeOK
    <3> QED
      BY <1>2, <3>1, <3>2, EntriesApart, PutFiles DEF NodeOK, Named
  <2> QED
    BY <2>1, <2>2
<1> QED
  BY <1>1, <1>2, <1>3, <1>4, OtherGoes

\* An entry of the workspace is replaced by one a path there may have.
LEMMA EntryPut ==
  ASSUME NodeOK, NEW p \in Paths, NEW e \in Entries(files),
         entry' = [entry EXCEPT ![p] = e], UNCHANGED <<text, files>>
  PROVE  FilesOK' /\ files <= files' /\ \A r : Named(r)
<1>1. p # Outside /\ files \in Nat
  BY WorkbenchAssumption DEF WorkbenchAssumption, A!AdapterAssumption, NodeOK, FilesOK
<1>2. /\ DOMAIN entry' = Paths \cup {Outside} /\ entry'[Outside] = entry[Outside]
      /\ \A v \in Paths : entry'[v] \in Entries(files)
  BY <1>1 DEF NodeOK, FilesOK
<1> QED
  BY <1>1, <1>2 DEF NodeOK, FilesOK, Named, A!Files

\* create.folder
LEMMA FolderKeeps ==
  ASSUME NodeOK, NEW w \in Workers, A!MakeFolder(w)
  PROVE  NodeOK' /\ Changes
<1>1. PICK r : r = command[w].r
  OBVIOUS
<1>2. command[w].at # "idle" /\ r.do # "tail" /\ r \in Requested /\ r.path \in Paths
  BY <1>1, AtIs, RequestIs DEF A!MakeFolder, A!At
<1>3. \E ok, out : A!Ends(w, ok, out)
  BY DEF A!MakeFolder, A!Ok, A!Fails
<1>4. FilesOK' /\ files <= files' /\ Named(r)
  <2>1. CASE A!IsFile(r.path)
    BY <1>1, <2>1, SameFilesOK DEF A!MakeFolder, A!Path
  <2>2. CASE ~A!IsFile(r.path)
    <3>1. entry' = [entry EXCEPT ![A!Target(r.path)] = A!Directory] /\ UNCHANGED <<text, files>>
      BY <1>1, <2>2 DEF A!MakeFolder, A!Path
    <3>2. A!Target(r.path) = r.path
      BY <1>2, <2>2, TargetIs, EntriesApart DEF A!IsFile, A!Found, NodeOK, FilesOK
    <3>3. A!Directory \in Entries(files)
      BY DEF Entries
    <3> QED
      BY <1>2, <3>1, <3>2, <3>3, EntryPut
  <2> QED
    BY <2>1, <2>2
<1> QED
  BY <1>1, <1>2, <1>3, <1>4, OtherGoes

\* remove.file and remove.folder
LEMMA RemoveKeeps ==
  ASSUME NodeOK, NEW w \in Workers, A!RemoveEntry(w)
  PROVE  NodeOK' /\ Changes
<1>1. PICK r : r = command[w].r
  OBVIOUS
<1>2. command[w].at # "idle" /\ r.do # "tail" /\ r \in Requested /\ r.path \in Paths
  BY <1>1, AtIs, RequestIs DEF A!RemoveEntry, A!At
<1>3. /\ \E ok, out : A!Ends(w, ok, out)
      /\ \/ A!SameFiles
         \/ entry' = [entry EXCEPT ![r.path] = A!Nothing] /\ UNCHANGED <<text, files>>
  BY <1>1 DEF A!RemoveEntry, A!Removed, A!Ok, A!Fails
<1>4. FilesOK' /\ files <= files' /\ Named(r)
  <2>1. A!Nothing \in Entries(files)
    BY DEF Entries
  <2> QED
    BY <1>2, <1>3, <2>1, EntryPut, SameFilesOK
<1> QED
  BY <1>1, <1>2, <1>3, <1>4, OtherGoes

\* move.file and rename.file
LEMMA MoveKeeps ==
  ASSUME NodeOK, NEW w \in Workers, A!Move(w)
  PROVE  NodeOK' /\ Changes
<1>1. PICK r : r = command[w].r
  OBVIOUS
<1>2. /\ command[w].at # "idle" /\ r.do # "tail" /\ r \in Requested
      /\ r.path \in Paths /\ r.to \in Paths
  BY <1>1, AtIs, RequestIs DEF A!Move, A!At
<1>3. \E ok, out : A!Ends(w, ok, out)
  BY DEF A!Move, A!Ok, A!Fails
<1>4. FilesOK' /\ files <= files' /\ Named(r)
  <2>1. CASE A!SameFiles
    BY <2>1, SameFilesOK
  <2>2. CASE ~A!SameFiles
    <3>1. PICK old : old = entry[r.path]
      OBVIOUS
    <3>2. /\ entry' = [p \in DOMAIN entry |-> IF p = r.to THEN old
                                              ELSE IF p = r.path THEN A!Nothing ELSE entry[p]]
          /\ UNCHANGED <<text, files>>
      BY <1>1, <2>2, <3>1 DEF A!Move
    <3>3. old \in Entries(files) /\ A!Nothing \in Entries(files)
      BY <1>2, <3>1 DEF Entries, NodeOK, FilesOK
    <3>4. Outside \notin Paths /\ files \in Nat
      BY WorkbenchAssumption DEF WorkbenchAssumption, A!AdapterAssumption, NodeOK, FilesOK
    <3>5. /\ DOMAIN entry' = Paths \cup {Outside} /\ entry'[Outside] = entry[Outside]
          /\ \A v \in Paths : entry'[v] \in Entries(files)
      BY <1>2, <3>2, <3>3, <3>4 DEF NodeOK, FilesOK
    <3> QED
      BY <3>2, <3>4, <3>5 DEF NodeOK, FilesOK, Named, A!Files
  <2> QED
    BY <2>1, <2>2
<1> QED
  BY <1>1, <1>2, <1>3, <1>4, OtherGoes

\* write.file, append.file and copy.file
LEMMA WriteKeeps ==
  ASSUME NodeOK, NEW w \in Workers, A!Write(w)
  PROVE  NodeOK' /\ Changes
<1>1. PICK r : r = command[w].r
  OBVIOUS
<1>2. PICK p, new :
        /\ p = IF r.do = "copy" THEN r.to ELSE r.path
        /\ new = CASE r.do = "write" -> r.text
                   [] r.do = "append" -> A!TextAt(r.path) \o r.text
                   [] r.do = "copy" -> A!TextAt(r.path)
  OBVIOUS
<1>3. /\ command[w].at # "idle" /\ r.do \in {"write", "append", "copy"} /\ r \in Requested
      /\ r.path \in Paths /\ r.to \in Paths /\ r.text \in Texts
  BY <1>1, AtIs, RequestIs DEF A!Write, A!At
<1>4. /\ \E ok, out : A!Ends(w, ok, out)
      /\ \/ A!SameFiles
         \/ A!Found(p) # A!Directory /\ A!Put(p, new)
  <2>1. \/ A!Fails(w) /\ A!SameFiles
        \/ A!Found(p) # A!Directory /\ A!Put(p, new) /\ A!Ok(w)
    BY <1>1, <1>2, Zenon DEF A!Write
  <2> QED
    BY <2>1 DEF A!Fails, A!Ok
<1>5. new \in Texts
  <2>1. A!TextAt(r.path) \in Texts
    BY <1>3, TargetIs DEF NodeOK
  <2>2. A!TextAt(r.path) \o r.text \in Texts
    BY <1>3, <2>1, ConcatProperties DEF Texts
  <2> QED
    BY <1>2, <1>3, <2>1, <2>2
<1>6. FilesOK' /\ files <= files' /\ Named(r)
  <2>1. CASE A!SameFiles
    BY <2>1, SameFilesOK
  <2>2. CASE A!Found(p) # A!Directory /\ A!Put(p, new)
    <3>1. p \in Paths
      BY <1>2, <1>3
    <3> QED
      BY <1>2, <1>3, <1>5, <2>2, <3>1, PutFiles DEF NodeOK, Named
  <2> QED
    BY <1>4, <2>1, <2>2
<1> QED
  BY <1>1, <1>3, <1>4, <1>6, OtherGoes

\* Another program swaps a path.
LEMMA SwapKeeps ==
  ASSUME NodeOK, NEW p \in Paths, A!Swap(p)
  PROVE  NodeOK' /\ Changes
<1>1. command' = command
  BY DEF A!Swap
<1>2. /\ Outside \notin Paths /\ files \in Nat /\ files >= 1 /\ MaxFiles \in Nat
      /\ FirstText \in Texts
  BY WorkbenchAssumption DEF WorkbenchAssumption, A!AdapterAssumption, NodeOK, FilesOK, Texts
<1>3. FilesOK' /\ files' \in Nat /\ files <= files'
  <2>1. CASE UNCHANGED <<text, files>>
    <3>1. entry' = [entry EXCEPT ![p] = A!Link] \/ entry' = [entry EXCEPT ![p] = A!Nothing]
      BY <1>2, <2>1 DEF A!Swap
    <3>2. A!Link \in Entries(files) /\ A!Nothing \in Entries(files)
      BY DEF Entries
    <3> QED
      BY <1>2, <2>1, <3>1, <3>2, EntryPut
  <2>2. CASE ~UNCHANGED <<text, files>>
    <3>1. PICK n : n = files + 1
      OBVIOUS
    <3>2. /\ files < MaxFiles /\ files' = n /\ entry' = [entry EXCEPT ![p] = A!File(n)]
          /\ text' = [text EXCEPT ![n] = FirstText]
      BY <2>2, <3>1 DEF A!Swap
    <3>3. n \in 2 .. n /\ n \in 1 .. MaxFiles /\ n \in Nat /\ \A f \in 2 .. files : f \in 2 .. n
      BY <1>2, <3>1, <3>2 DEF NodeOK, FilesOK
    <3>4. /\ DOMAIN entry' = Paths \cup {Outside} /\ entry'[Outside] = entry[Outside]
          /\ \A v \in Paths : entry'[v] \in Entries(n)
      BY <1>2, <3>2, <3>3 DEF NodeOK, FilesOK, Entries
    <3>5. DOMAIN text' = A!Files /\ \A f \in A!Files : text'[f] \in Texts
      BY <1>2, <3>2 DEF NodeOK, FilesOK
    <3> QED
      BY <1>2, <3>1, <3>2, <3>3, <3>4, <3>5 DEF NodeOK, FilesOK, A!Files
  <2> QED
    BY <2>1, <2>2
<1>4. CommandsOK'
  <2>1. \A i \in 1 .. files : i \in 1 .. files'
    BY <1>2, <1>3
  <2>2. ASSUME NEW c, CommandOK(c, files) PROVE CommandOK(c, files')
    BY <2>1, <2>2 DEF CommandOK, TailOK
  <2> QED
    BY <1>1, <2>2 DEF NodeOK, CommandsOK
<1> QED
  BY <1>1, <1>3, <1>4 DEF NodeOK, Changes

\* A command begins.
LEMMA BeginKeeps ==
  ASSUME NodeOK, NEW w \in Workers, NEW r \in Requested, A!Begin(w, r)
  PROVE  NodeOK' /\ Changes
<1>1. PICK y : y = [at |-> "begin", r |-> r, ok |-> FALSE, out |-> <<>>,
                    file |-> 0, was |-> <<>>, left |-> 0, got |-> <<>>, mixed |-> FALSE]
  OBVIOUS
<1>2. command' = [command EXCEPT ![w] = y] /\ A!SameFiles
  BY <1>1 DEF A!Begin
<1>3. FilesOK' /\ files' \in Nat /\ files <= files' /\ Named(r)
  BY <1>2, SameFilesOK
<1>4. /\ DOMAIN y = CommandFields /\ y.at = "begin" /\ y.r = r /\ y.ok = FALSE
      /\ y.was = <<>> /\ y.left = 0 /\ y.got = <<>>
  BY <1>1 DEF CommandFields
<1>5. <<>> \in Texts /\ Len(<<>>) = 0 /\ 0 \in 0 .. 0
  BY EmptySeq DEF Texts
<1>6. CommandOK(y, files')
  BY <1>4, <1>5 DEF CommandOK, TailOK
<1>7. /\ CommandsOK' /\ command'[w] = y
      /\ \A v \in Workers : v # w => command'[v] = command[v]
  BY <1>2, <1>3, <1>6, CommandGoes
<1> QED
  BY <1>3, <1>4, <1>7, ChangesOf DEF NodeOK

\* tail.file goes on.
LEMMA TailGoes ==
  ASSUME NodeOK, NEW w \in Workers, A!SameFiles, NEW y, command' = [command EXCEPT ![w] = y],
         DOMAIN y = CommandFields, y.r = command[w].r, y.r \in Requested,
         y.at # "idle", TailOK(y, files)
  PROVE  NodeOK' /\ Changes
<1>1. FilesOK' /\ files' \in Nat /\ files <= files' /\ files' = files /\ Named(y.r)
  BY SameFilesOK DEF A!SameFiles
<1>2. CommandOK(y, files')
  BY <1>1 DEF CommandOK
<1>3. /\ CommandsOK' /\ command'[w] = y
      /\ \A v \in Workers : v # w => command'[v] = command[v]
  BY <1>1, <1>2, CommandGoes
<1> QED
  BY <1>1, <1>3, ChangesOf DEF NodeOK

\* Of no text there are no lines.
LEMMA NoLines ==
  ASSUME NEW n \in Nat \ {0}
  PROVE  A!LastLines(<<>>, n) = <<>>
<1>1. Body(<<>>) = <<>> /\ Len(<<>>) = 0 /\ <<>> \in Texts
  BY EmptySeq DEF Body, Ended, Texts
<1>2. StartsOf(<<>>) = {1}
  <2>1. A!EndsOfLines(<<>>) = {}
    BY <1>1, EndsAre
  <2> QED
    BY <2>1 DEF StartsOf
<1>3. Latest({1}, n) = {1}
  <2>1. {i \in {1} : i >= 1} = {1}
    OBVIOUS
  <2>2. Cardinality({1}) = 1
    BY FS_Singleton
  <2>3. Cardinality({i \in {1} : i >= 1}) <= n
    BY <2>1, <2>2
  <2> QED
    BY <2>3 DEF Latest
<1>4. A!Min({1}) = 1
  BY DEF A!Min
<1>5. SubSeq(<<>>, 1, 0) = <<>>
  BY SubSeqEmpty
<1>6. SubSeq(Body(<<>>), A!Min(Latest(StartsOf(Body(<<>>)), n)), Len(Body(<<>>))) = <<>>
  BY <1>1, <1>2, <1>3, <1>4, <1>5
<1>7. \A m : m = SubSeq(Body(<<>>), A!Min(Latest(StartsOf(Body(<<>>)), n)), Len(Body(<<>>))) =>
        A!LastLines(<<>>, n) = IF m = <<>> THEN <<>>
                               ELSE m \o IF Ended(<<>>) THEN <<A!LineEnd>> ELSE <<>>
  BY LastLinesIs
<1> QED
  BY <1>6, <1>7

\* tail.file looks at the size.
LEMMA TailStatKeeps ==
  ASSUME NodeOK, NEW w \in Workers, A!TailStat(w)
  PROVE  NodeOK' /\ Changes
<1>1. PICK c : c = command[w]
  OBVIOUS
<1>2. /\ c.at = "begin" /\ c.r.do = "tail" /\ c.r \in Requested /\ DOMAIN c = CommandFields
      /\ TailOK(c, files) /\ A!SameFiles
  BY <1>1, AtIs DEF A!TailStat, A!At, CommandOK
<1>3. PICK p, was : p = c.r.path /\ was = A!TextAt(p)
  OBVIOUS
<1>4. was \in Texts /\ p \in Paths /\ c.r.lines \in Nat \ {0}
  BY <1>2, <1>3, RequestIs, TargetIs DEF NodeOK
<1>5. \/ \E ok : A!Ends(w, ok, <<>>)
      \/ /\ was # <<>>
         /\ command' = [command EXCEPT ![w] = [c EXCEPT !.at = "open", !.was = was,
                          !.left = Len(was)]]
  BY <1>1, <1>3 DEF A!TailStat, A!Path, A!Ok, A!Fails
<1>6. CASE \E ok : A!Ends(w, ok, <<>>)
  <2>1. PICK ok, y : A!Ends(w, ok, <<>>) /\ y = [c EXCEPT !.at = "done", !.ok = ok, !.out = <<>>]
    BY <1>6
  <2>2. command' = [command EXCEPT ![w] = y]
    BY <1>1, <2>1 DEF A!Ends
  <2>3. /\ DOMAIN y = CommandFields /\ y.at = "done" /\ y.r = c.r /\ y.out = <<>>
        /\ y.was = <<>> /\ y.got = c.got /\ y.left = c.left /\ c.was = <<>>
    BY <1>2, <2>1 DEF CommandFields, TailOK
  <2>4. TailOK(y, files)
    BY <1>2, <1>4, <2>3, NoLines DEF TailOK
  <2> QED
    BY <1>1, <1>2, <2>2, <2>3, <2>4, TailGoes
<1>7. CASE command' = [command EXCEPT ![w] = [c EXCEPT !.at = "open", !.was = was,
                          !.left = Len(was)]]
  <2>1. PICK y : y = [c EXCEPT !.at = "open", !.was = was, !.left = Len(was)]
    OBVIOUS
  <2>2. command' = [command EXCEPT ![w] = y]
    BY <1>7, <2>1
  <2>3. /\ DOMAIN y = CommandFields /\ y.at = "open" /\ y.r = c.r
        /\ y.was = was /\ y.got = c.got /\ y.left = Len(was) /\ c.got = <<>>
    BY <1>2, <2>1 DEF CommandFields, TailOK
  <2>4. Len(was) \in 0 .. Len(was)
    BY <1>4, TextHas
  <2>5. TailOK(y, files)
    BY <1>2, <1>4, <2>3, <2>4 DEF TailOK
  <2> QED
    BY <1>1, <1>2, <2>2, <2>3, <2>5, TailGoes
<1> QED
  BY <1>5, <1>6, <1>7

\* tail.file opens the file, which may be another by then.
LEMMA TailOpenKeeps ==
  ASSUME NodeOK, NEW w \in Workers, A!TailOpen(w)
  PROVE  NodeOK' /\ Changes
<1>1. PICK c : c = command[w]
  OBVIOUS
<1>2. /\ c.at = "open" /\ c.r.do = "tail" /\ c.r \in Requested /\ DOMAIN c = CommandFields
      /\ TailOK(c, files) /\ A!SameFiles
  BY <1>1, AtIs DEF A!TailOpen, A!At, CommandOK
<1>3. PICK p : p = c.r.path
  OBVIOUS
<1>4. p \in Paths
  BY <1>2, <1>3, RequestIs
<1>5. CASE A!Ends(w, FALSE, <<>>)
  <2>1. PICK y : y = [c EXCEPT !.at = "done", !.ok = FALSE, !.out = <<>>]
    OBVIOUS
  <2>2. command' = [command EXCEPT ![w] = y]
    BY <1>1, <1>5, <2>1 DEF A!Ends
  <2>3. /\ DOMAIN y = CommandFields /\ y.at = "done" /\ y.r = c.r /\ y.ok = FALSE
        /\ y.was = c.was /\ y.got = c.got /\ y.left = c.left
    BY <1>2, <2>1 DEF CommandFields
  <2>4. TailOK(y, files)
    BY <1>2, <2>3 DEF TailOK
  <2> QED
    BY <1>1, <1>2, <2>2, <2>3, <2>4, TailGoes
<1>6. CASE ~A!Ends(w, FALSE, <<>>)
  <2>1. A!IsFile(p)
    BY <1>1, <1>3, <1>6 DEF A!TailOpen, A!Path, A!Fails
  <2>2. PICK f \in 1 .. files : A!Found(p) = A!File(f)
    BY <1>4, <2>1, TargetIs DEF NodeOK
  <2>3. PICK y : y = [c EXCEPT !.at = "read", !.file = f]
    OBVIOUS
  <2>4. command' = [command EXCEPT ![w] = [c EXCEPT !.at = "read", !.file = A!Found(p).file]]
    BY <1>1, <1>3, <1>6, <2>1 DEF A!TailOpen, A!Path, A!Fails
  <2>5. command' = [command EXCEPT ![w] = y]
    BY <2>2, <2>3, <2>4, EntriesApart
  <2>6. /\ DOMAIN y = CommandFields /\ y.at = "read" /\ y.r = c.r /\ y.file = f
        /\ y.was = c.was /\ y.got = c.got /\ y.left = c.left
        /\ c.got = <<>> /\ c.left = Len(c.was)
    BY <1>2, <2>3 DEF CommandFields, TailOK
  <2>7. SubSeq(c.was, c.left + 1, Len(c.was)) = <<>>
    <3>1. Len(c.was) \in Nat
      BY <1>2, TextHas DEF TailOK
    <3> QED
      BY <2>6, <3>1, SubSeqEmpty
  <2>8. TailOK(y, files)
    BY <1>2, <2>6, <2>7 DEF TailOK
  <2> QED
    BY <1>1, <1>2, <2>5, <2>6, <2>8, TailGoes
<1> QED
  BY <1>5, <1>6

\* A part of a text that begins like another is the same part of that.
LEMMA SamePart ==
  ASSUME NEW t \in Texts, NEW u \in Texts, A!IsPrefix(t, u),
         NEW a \in Nat \ {0}, NEW z \in 0 .. Len(t)
  PROVE  z \in 0 .. Len(u) /\ SubSeq(u, a, z) = SubSeq(t, a, z)
<1>1. Len(t) \in Nat /\ Len(u) \in Nat /\ Len(t) <= Len(u) /\ z \in Nat
  BY TextHas DEF A!IsPrefix
<1>2. z \in 0 .. Len(u)
  BY <1>1
<1>3. ASSUME NEW i \in 1 .. Len(t) PROVE t[i] = u[i]
  <2>1. PICK v : v = SubSeq(t, 1, Len(t)) /\ v = SubSeq(u, 1, Len(t))
    BY DEF A!IsPrefix
  <2>2. 1 \in Nat \ {0} /\ Len(t) \in 0 .. Len(t) /\ Len(t) \in 0 .. Len(u)
    BY <1>1
  <2>3. /\ \A j \in 1 .. Len(t) - 1 + 1 : v[j] = t[1 + j - 1]
        /\ \A j \in 1 .. Len(t) - 1 + 1 : v[j] = u[1 + j - 1]
    BY <2>1, <2>2, TextPart
  <2>4. i \in 1 .. Len(t) - 1 + 1 /\ 1 + i - 1 = i
    BY <1>1
  <2> QED
    BY <2>3, <2>4
<1>4. PICK p, q : p = SubSeq(t, a, z) /\ q = SubSeq(u, a, z)
  OBVIOUS
<1>5. /\ p \in Texts /\ Len(p) = IF a <= z THEN z - a + 1 ELSE 0
      /\ \A i \in 1 .. z - a + 1 : p[i] = t[a + i - 1]
  BY <1>4, TextPart
<1>6. /\ q \in Texts /\ Len(q) = IF a <= z THEN z - a + 1 ELSE 0
      /\ \A i \in 1 .. z - a + 1 : q[i] = u[a + i - 1]
  BY <1>2, <1>4, TextPart
<1>7. ASSUME NEW i \in 1 .. Len(p) PROVE p[i] = q[i]
  <2>1. i \in 1 .. z - a + 1 /\ a + i - 1 \in 1 .. Len(t)
    BY <1>1, <1>5
  <2> QED
    BY <1>3, <1>5, <1>6, <2>1
<1>8. p = q
  BY <1>5, <1>6, <1>7, TextsSame
<1> QED
  BY <1>2, <1>4, <1>8

\* tail.file reads the next chunk from the end.
LEMMA TailReadKeeps ==
  ASSUME NodeOK, NEW w \in Workers, A!TailRead(w)
  PROVE  NodeOK' /\ Changes
<1>1. PICK c : c = command[w]
  OBVIOUS
<1>2. /\ c.at = "read" /\ c.r.do = "tail" /\ c.r \in Requested /\ DOMAIN c = CommandFields
      /\ TailOK(c, files) /\ A!SameFiles
  BY <1>1, AtIs DEF A!TailRead, A!At, CommandOK
<1>3. PICK from, now, z : /\ from = IF c.left > Chunk THEN c.left - Chunk ELSE 0
                          /\ now = text[c.file]
                          /\ z = IF c.left < Len(now) THEN c.left ELSE Len(now)
  OBVIOUS
<1>4. PICK new : new = SubSeq(now, from + 1, z) \o c.got
  OBVIOUS
<1>5. PICK y : y = [c EXCEPT !.left = from, !.got = new,
                             !.mixed = c.mixed \/ ~A!IsPrefix(c.was, now),
                             !.at = IF from = 0 \/ A!Enough(new, c.r.lines) THEN "done" ELSE "read",
                             !.ok = TRUE, !.out = A!LastLines(new, c.r.lines)]
  OBVIOUS
<1>6. command' = [command EXCEPT ![w] = y]
  BY <1>1, <1>3, <1>4, <1>5 DEF A!TailRead
<1>7. /\ DOMAIN y = CommandFields /\ y.r = c.r /\ y.was = c.was /\ y.file = c.file
      /\ y.left = from /\ y.got = new /\ y.out = A!LastLines(new, c.r.lines)
      /\ y.at = IF from = 0 \/ A!Enough(new, c.r.lines) THEN "done" ELSE "read"
      /\ y.mixed = (c.mixed \/ ~A!IsPrefix(c.was, now))
  BY <1>2, <1>5 DEF CommandFields
<1>8. ~y.mixed => ~c.mixed /\ A!IsPrefix(c.was, now)
  BY <1>7, Zenon
<1>9. /\ c.was \in Texts /\ c.got \in Texts /\ c.left \in 0 .. Len(c.was)
      /\ c.file \in 1 .. files /\ c.r.lines \in Nat \ {0} /\ Chunk \in Nat
  BY <1>2, RequestIs, WorkbenchAssumption DEF TailOK, WorkbenchAssumption, A!AdapterAssumption
<1>10. now \in Texts /\ Len(now) \in Nat /\ Len(c.was) \in Nat
  <2>1. c.file \in A!Files
    BY <1>9, WorkbenchAssumption
       DEF NodeOK, FilesOK, A!Files, WorkbenchAssumption, A!AdapterAssumption
  <2> QED
    BY <1>3, <1>9, <2>1, TextHas DEF NodeOK, FilesOK
<1>11. /\ from \in Nat /\ from <= c.left /\ from \in 0 .. Len(c.was) /\ c.left \in Nat
       /\ z \in 0 .. Len(now) /\ from + 1 \in Nat \ {0}
  BY <1>3, <1>9, <1>10
<1>12. new \in Texts
  <2>1. SubSeq(now, from + 1, z) \in Texts
    BY <1>10, <1>11, TextPart
  <2> QED
    BY <1>4, <1>9, <2>1, ConcatProperties DEF Texts
<1>13. ASSUME ~y.mixed PROVE new = SubSeq(c.was, from + 1, Len(c.was))
  <2>1. ~c.mixed /\ A!IsPrefix(c.was, now)
    BY <1>8, <1>13
  <2>2. c.got = SubSeq(c.was, c.left + 1, Len(c.was))
    BY <1>2, <2>1 DEF TailOK
  <2>3. c.left \in 0 .. Len(now) /\ SubSeq(now, from + 1, c.left) = SubSeq(c.was, from + 1, c.left)
    BY <1>9, <1>10, <1>11, <2>1, SamePart
  <2>4. z = c.left
    BY <1>3, <1>10, <1>11, <2>3
  <2>5. /\ from + 1 \in 1 .. Len(c.was) + 1 /\ c.left \in (from + 1) - 1 .. Len(c.was)
        /\ Len(c.was) \in c.left .. Len(c.was)
    BY <1>9, <1>10, <1>11
  <2>6. SubSeq(c.was, from + 1, c.left) \o SubSeq(c.was, c.left + 1, Len(c.was))
          = SubSeq(c.was, from + 1, Len(c.was))
    BY <1>9, <2>5, ConcatAdjacentSubSeq DEF Texts
  <2> QED
    BY <1>4, <2>2, <2>3, <2>4, <2>6
<1>14. ASSUME ~y.mixed, from = 0 \/ A!Enough(new, c.r.lines)
       PROVE  A!LastLines(new, c.r.lines) = A!LastLines(c.was, c.r.lines)
  <2>1. CASE from = 0
    <3>1. new = SubSeq(c.was, 1, Len(c.was))
      BY <1>13, <1>14, <2>1
    <3>2. new = c.was
      BY <1>9, <3>1, SubSeqFull DEF Texts
    <3> QED
      BY <3>2
  <2>2. CASE A!Enough(new, c.r.lines)
    BY <1>9, <1>11, <1>13, <1>14, <2>2, SuffixLines
  <2> QED
    BY <1>14, <2>1, <2>2
<1>15. TailOK(y, files)
  <2>1. y.at \in {"read", "done"} /\ y.was \in Texts /\ y.got \in Texts /\ y.left \in 0 .. Len(y.was)
    BY <1>7, <1>9, <1>11, <1>12
  <2>2. y.at = "read" => y.file \in 1 .. files
    BY <1>7, <1>9
  <2>3. ~y.mixed => y.got = SubSeq(y.was, y.left + 1, Len(y.was))
    BY <1>7, <1>13
  <2>4. y.at = "done" /\ ~y.mixed => y.out = A!LastLines(y.was, y.r.lines)
    BY <1>7, <1>14
  <2> QED
    BY <2>1, <2>2, <2>3, <2>4 DEF TailOK
<1>16. y.r \in Requested /\ y.at # "idle"
  BY <1>2, <1>7
<1> QED
  BY <1>1, <1>2, <1>6, <1>7, <1>15, <1>16, TailGoes

\* At first nothing is under way.
LEMMA AdapterStarts ==
  ASSUME A!Init
  PROVE  NodeOK
<1>1. /\ MaxFiles \in Nat \ {0} /\ FirstText \in Texts /\ Outside \notin Paths /\ 1 \in 1 .. MaxFiles
  BY WorkbenchAssumption DEF WorkbenchAssumption, A!AdapterAssumption, Texts
<1>2. FilesOK
  <2>1. DOMAIN text = A!Files /\ \A f \in A!Files : text[f] \in Texts
    BY <1>1, EmptySeq DEF A!Init, Texts
  <2>2. files \in 1 .. MaxFiles
    BY <1>1 DEF A!Init
  <2>3. DOMAIN entry = Paths \cup {Outside} /\ entry[Outside] = A!File(1)
    BY DEF A!Init
  <2>4. \A p \in Paths : entry[p] \in Entries(files)
    BY DEF A!Init, Entries
  <2> QED
    BY <2>1, <2>2, <2>3, <2>4 DEF FilesOK
<1>3. CommandsOK
  BY DEF A!Init, CommandsOK
<1> QED
  BY <1>2, <1>3 DEF NodeOK

\* Each step, one by one.
LEMMA AdapterStep ==
  ASSUME NodeOK, [A!Next]_(A!vars)
  PROVE  NodeOK' /\ Changes
<1>1. CASE UNCHANGED A!vars
  <2>1. UNCHANGED <<entry, text, files, command>>
    BY <1>1 DEF A!vars
  <2>2. FilesOK' /\ CommandsOK'
    BY <2>1 DEF NodeOK, FilesOK, CommandsOK, A!Files
  <2> QED
    BY <2>1, <2>2 DEF NodeOK, Changes
<1>2. CASE \E p \in Paths : A!Swap(p)
  BY <1>2, SwapKeeps
<1>3. CASE \E w \in Workers : \E r \in Requested : A!Begin(w, r)
  BY <1>3, BeginKeeps
<1>4. CASE \E w \in Workers : A!Step(w)
  <2>1. PICK w \in Workers : A!Step(w)
    BY <1>4
  <2>2. CASE \/ A!CreateStat(w) \/ A!RefuseLink(w) \/ A!Read(w) \/ A!Enter(w)
             \/ A!Spawn(w) \/ A!Exit(w)
    BY <2>2, LookKeeps
  <2>3. CASE A!Create(w)
    BY <2>3, CreateKeeps
  <2>4. CASE A!MakeFolder(w)
    BY <2>4, FolderKeeps
  <2>5. CASE A!Write(w)
    BY <2>5, WriteKeeps
  <2>6. CASE A!RemoveEntry(w)
    BY <2>6, RemoveKeeps
  <2>7. CASE A!Move(w)
    BY <2>7, MoveKeeps
  <2>8. CASE A!TailStat(w)
    BY <2>8, TailStatKeeps
  <2>9. CASE A!TailOpen(w)
    BY <2>9, TailOpenKeeps
  <2>10. CASE A!TailRead(w)
    BY <2>10, TailReadKeeps
  <2> QED
    BY <2>1, <2>2, <2>3, <2>4, <2>5, <2>6, <2>7, <2>8, <2>9, <2>10 DEF A!Step
<1> QED
  BY <1>1, <1>2, <1>3, <1>4 DEF A!Next

\* So what tail.file answers are the last lines.
LEMMA TailIsSound ==
  ASSUME NodeOK
  PROVE  A!TailIsLastLines
<1>1. ASSUME NEW w \in Workers, NEW c, c = command[w],
             c.at = "done" /\ c.r.do = "tail" /\ c.ok /\ ~c.mixed
      PROVE  c.out = A!LastLines(c.was, c.r.lines)
  BY <1>1, AtIs DEF CommandOK, TailOK
<1> QED
  BY <1>1 DEF A!TailIsLastLines

\* However paths are swapped while commands are under way: only a command that writes changes
\* a text, and none the entry outside, nor the text there but by writing through a link; and
\* what tail.file shows are the last lines of the text it looked at, unless that was written
\* anew or replaced (runOp, refuseSwappedSymlink, tailFile).
THEOREM FilesKeepTheirNames == Spec => FilesAsNamed
<1>1. A!Init => NodeOK
  BY AdapterStarts
<1>2. NodeOK /\ [A!Next]_(A!vars) => NodeOK'
  BY AdapterStep
<1>3. NodeOK /\ NodeOK' /\ [A!Next]_(A!vars) => A!TailIsLastLines' /\ Changes
  <2>1. NodeOK => A!TailIsLastLines
    BY TailIsSound
  <2>2. NodeOK' => A!TailIsLastLines'
    BY <2>1, PTL
  <2> QED
    BY <2>2, AdapterStep
<1>4. A!Spec => [][A!TailIsLastLines' /\ Changes]_(A!vars)
  BY <1>1, <1>2, <1>3, PTL DEF A!Spec
<1>5. Changes <=>
        \A w \in Workers : command'[w] # command[w] =>
          LET r == command'[w].r
              wrote == IF r.do = "copy" THEN r.to ELSE r.path
          IN /\ entry'[Outside] = entry[Outside]
             /\ \A f \in 1 .. files : text'[f] # text[f] =>
                  /\ r.do \in {"write", "append", "copy"}
                  /\ f = 1 => entry[wrote] = A!Link
  BY DEF Changes, Named
<1> QED
  BY <1>4, <1>5, AdapterBehaves, PTL DEF FilesAsNamed, A!FilesAsNamed
-----------------------------------------------------------------------------
(* A document.                                                             *)

\* Nor do the steps of the others touch what the document's extension has.
LEMMA DocumentBehaves == Spec => D!Spec
<1>1. Init => D!Init
  BY DEF Init
<1>2. [Next]_vars => [D!Next]_(D!vars)
  BY DEF Next, vars, document, D!vars
<1> QED
  BY <1>1, <1>2, PTL DEF Spec, D!Spec

\* However a document of any text is opened, changed, closed and opened again while refreshes
\* wait for their timer or for the parser: the diagnostics are those of its text, what the
\* editor's copy of the parser reads the package reads alike, and the canonical text of what
\* the package reads is read as that again (refreshDiagnostics, loadStructure, parseStructure,
\* canonicalize).
THEOREM DocumentsAreRead == Spec => []DocumentsReadTrue
<1>1. D!Spec => [](D!DiagnosticsTrue /\ D!CanonicalKeepsMeaning)
  <2>1. D!StructureAssumption
    BY WorkbenchAssumption
  <2> QED
    BY <2>1, D!DocumentsRead
<1>2. D!DiagnosticsTrue /\ D!CanonicalKeepsMeaning => DocumentsReadTrue
  BY DEF DocumentsReadTrue
<1> QED
  BY <1>1, <1>2, DocumentBehaves, PTL

-----------------------------------------------------------------------------
(* The command line.                                                       *)

\* And the others do not touch the input field.
LEMMA FieldBehaves == Spec => L!Spec
<1>1. Init => L!Init
  BY DEF Init
<1>2. [Next]_vars => [L!Next]_(L!vars)
  BY DEF Next, vars, field, L!vars
<1> QED
  BY <1>1, <1>2, PTL DEF Spec, L!Spec

\* Whatever is typed, brought back and completed, for texts of any length: the page takes a
\* command for the one the parser takes it for, the completion finds the last command of a
\* batch, and a value that is quoted into a line is read back as that value (parse, splitBatch,
\* parseIdelLine, currentBatchSegment, quoteHistoryValue, quoteParamValue).
THEOREM LinesReadTrue == Spec => []LinesReadBack
<1>1. L!Spec => [](L!ReadersAgree /\ L!WrittenReadsBack)
  <2>1. L!CommandLineAssumption
    BY WorkbenchAssumption
  <2> QED
    BY <2>1, L!LinesAgree
<1>2. L!ReadersAgree /\ L!WrittenReadsBack => LinesReadBack
  BY DEF LinesReadBack
<1> QED
  BY <1>1, <1>2, FieldBehaves, PTL

\* Whatever answers come late or out of order, for any commands, files of any names and lines:
\* a completion leaves the tokens before the last as they were and comes behind them, and one
\* that was asked for this text goes on where it ended, unless it is of an oddly named path
\* (complete, lastTokenBounds, tokenize).
THEOREM CompletionsLeaveTheRest == Spec => []CompletionFits
<1>1. L!Spec => []L!CompletionFits
  <2>1. L!CommandLineAssumption
    BY WorkbenchAssumption
  <2> QED
    BY <2>1, L!CompletionsFit
<1>2. L!CompletionFits => CompletionFits
  BY DEF CompletionFits
<1> QED
  BY <1>1, <1>2, FieldBehaves, PTL
=============================================================================
