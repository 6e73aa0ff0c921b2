----------------------------- MODULE ServerManager -----------------------------
(***************************************************************************)
(* The editor extension that runs a server of its own                      *)
(* (vscode-extension/src/extension.cjs): IdelServerManager, and the        *)
(* commands, the panel and the view that call it, several at once.         *)
(*                                                                         *)
(* A call is a plan of steps, each of which may wait for a health check,   *)
(* for a server to say that it listens, or for one to end.  All servers    *)
(* use the one configured port.  The settings are those the extension      *)
(* comes with: no serverUrl, manageServer on.  What a view shows is left   *)
(* out: it is the answer of its call.                                      *)
(***************************************************************************)
EXTENDS Integers, Sequences, FiniteSets

CONSTANTS
    Calls,          \* calls that may be under way at once
    MaxCalls,       \* bound on the calls
    MaxServers,     \* bound on the servers started; then starting one fails
    Deaf            \* TRUE: a server may ignore SIGTERM

VARIABLES
    child,          \* IdelServerManager.child: a server, or 0
    managed,        \* managedUrl: the server that gave it, or 0
    life,           \* each server: "none", "starting", "up" or "gone"
    told,           \* the servers sent SIGTERM, and those sent SIGKILL
    port,           \* who listens on the port: a server, Elsewhere, or 0
    call,           \* what each call is at
    calls,          \* how many there were
    lost            \* history: servers that another one took the place of in child

vars == <<child, managed, life, told, port, call, calls, lost>>

Servers == 1 .. MaxServers
Elsewhere == -1     \* an `idel serve` that somebody else has started

ManagerAssumption == MaxCalls \in Nat /\ MaxServers \in Nat /\ Deaf \in BOOLEAN

\* startServer, stopServer, openTerminal and openInBrowser, the webview's messages, and
\* deactivate or dispose.  "start" and "browse" throw what fails, a view that is rendered
\* shows it; "look" is not allowed to start a server.
Plans == { <<"start", "render">>, <<"stop", "look", "look">>, <<"render">>, <<"browse">>,
           <<"stop", "look">>, <<"stop">> }

Idle == [plan |-> <<>>, at |-> "idle", on |-> 0]

Init ==
    /\ child = 0 /\ managed = 0
    /\ life = [n \in Servers |-> "none"] /\ told = [term |-> {}, kill |-> {}]
    /\ port \in {0, Elsewhere}
    /\ call = [p \in Calls |-> Idle] /\ calls = 0 /\ lost = {}

Running(n) == life[n] \in {"starting", "up"}

\* ensureServer begins: a URL it has is tried first.
Ensure(plan, url) ==
    IF plan = <<>> THEN Idle
    ELSE [plan |-> plan, at |-> IF url # 0 THEN "managed" ELSE "default", on |-> 0]
Answered(c, url) == Ensure(Tail(c.plan), url)
Failed(c, url) ==
    IF Head(c.plan) \in {"start", "browse"} THEN Idle ELSE Ensure(Tail(c.plan), url)
\* There is a server: is there a terminal's page, if that is what is wanted?
Reached(c, url) ==
    IF Head(c.plan) = "start" THEN Answered(c, url) ELSE [c EXCEPT !.at = "page", !.on = 0]
OnServer(n, at) == {p \in Calls : call[p].on = n /\ call[p].at \in at}

\* stop, when there is a server: it is forgotten and sent SIGTERM, and the call waits.
StopChild(p, c, at) ==
    /\ child' = 0 /\ managed' = 0
    /\ told' = [told EXCEPT !.term = @ \cup {child}]
    /\ call' = [call EXCEPT ![p] = [c EXCEPT !.at = at, !.on = child]]
    /\ UNCHANGED <<life, port, lost>>

\* startManagedServer, past its stop: a server is spawned, or something to spawn is missing.
\* The calls are as in now, the servers as in procs, and the manager has held.
Spawn(p, now, procs, held) ==
    \/ \E n \in Servers :
         /\ procs[n] = "none" /\ \A m \in 1 .. n - 1 : procs[m] # "none"
         /\ life' = [procs EXCEPT ![n] = "starting"]
         /\ child' = n
         /\ lost' = lost \cup ({held} \ {0})
         /\ call' = [now EXCEPT ![p] = [@ EXCEPT !.at = "starting", !.on = n]]
    \/ /\ call' = [now EXCEPT ![p] = Failed(@, managed)]
       /\ child' = held /\ life' = procs /\ UNCHANGED lost

\* A call that waited for a server's end goes on, if there is one.
Resume(n, now, procs, held) ==
    \/ \E p \in OnServer(n, {"restarting"}) : Spawn(p, now, procs, held)
    \/ /\ OnServer(n, {"restarting"}) = {}
       /\ LET done == OnServer(n, {"stopping"})
          IN call' = [p \in Calls |-> IF p \in done THEN Answered(now[p], managed) ELSE now[p]]
       /\ child' = held /\ life' = procs /\ UNCHANGED lost

-----------------------------------------------------------------------------
Begin(p, plan) ==
    /\ call[p] = Idle /\ calls < MaxCalls /\ calls' = calls + 1
    /\ IF Head(plan) # "stop"
         THEN /\ call' = [call EXCEPT ![p] = Ensure(plan, managed)]
              /\ UNCHANGED <<child, managed, life, told, port, lost>>
       ELSE IF child # 0 THEN StopChild(p, [Idle EXCEPT !.plan = plan], "stopping")
       ELSE /\ managed' = 0
            /\ call' = [call EXCEPT ![p] = Ensure(Tail(plan), 0)]
            /\ UNCHANGED <<child, life, told, port, lost>>

\* isHealthy answers, for the server's own page or for the terminal's.
Healthy(p) ==
    /\ call[p].at \in {"managed", "default"} /\ port # 0
    /\ call' = [call EXCEPT ![p] = Reached(@, managed)]
    /\ UNCHANGED <<child, managed, life, told, port, calls, lost>>

Page(p) ==
    /\ call[p].at = "page"
    /\ call' = [call EXCEPT ![p] = Answered(@, managed)]
    /\ UNCHANGED <<child, managed, life, told, port, calls, lost>>

\* Nobody listens, or who does is too slow.  Then a server is started, if that is allowed;
\* what child there is, is stopped first.
Unhealthy(p) ==
    /\ \/ /\ call[p].at = "managed"
          /\ call' = [call EXCEPT ![p].at = "default"]
          /\ UNCHANGED <<child, managed, life, told, port, lost>>
       \/ /\ call[p].at = "default" /\ Head(call[p].plan) = "look"
          /\ call' = [call EXCEPT ![p] = Failed(@, managed)]
          /\ UNCHANGED <<child, managed, life, told, port, lost>>
       \/ /\ call[p].at = "default" /\ Head(call[p].plan) # "look"
          /\ IF child # 0 THEN StopChild(p, call[p], "restarting")
             ELSE Spawn(p, call, life, 0) /\ UNCHANGED <<managed, told, port>>
    /\ UNCHANGED calls

\* The server listens and says so: the call that started it is told, unless it gave up.
Listens(n) ==
    /\ life[n] = "starting" /\ port = 0
    /\ life' = [life EXCEPT ![n] = "up"] /\ port' = n
    /\ LET starters == OnServer(n, {"starting"}) IN
       /\ managed' = IF starters = {} THEN managed ELSE n
       /\ call' = [p \in Calls |-> IF p \in starters THEN Reached(call[p], n) ELSE call[p]]
    /\ UNCHANGED <<child, told, calls, lost>>

\* Mistake: a call whose server failed forgets the one there is by then.
Forgotten_Any(n) == IF child = n \/ OnServer(n, {"starting"}) # {} THEN 0 ELSE child
\* this.child, once this server has ended.
Forgotten(n) == IF child = n THEN 0 ELSE child

\* A server ends: it was told to, it found the port taken, or it broke.  The call that started
\* it fails, and the one that stopped it goes on.
Exits(n) ==
    /\ Running(n)
    /\ port' = IF port = n THEN 0 ELSE port
    /\ LET starters == OnServer(n, {"starting"})
       IN /\ managed' = IF child = n /\ starters = {} THEN 0 ELSE managed
          /\ Resume(n, [p \in Calls |-> IF p \in starters THEN Failed(call[p], managed) ELSE call[p]],
                    [life EXCEPT ![n] = "gone"], Forgotten(n))
    /\ UNCHANGED <<told, calls>>

\* The 20 s a server has to listen are over: it is sent SIGTERM, and nobody waits for it.
StartTimeout(p) ==
    /\ call[p].at = "starting"
    /\ child' = IF child = call[p].on THEN 0 ELSE child
    /\ told' = [told EXCEPT !.term = @ \cup {call[p].on}]
    /\ call' = [call EXCEPT ![p] = Failed(@, managed)]
    /\ UNCHANGED <<managed, life, port, calls, lost>>

\* Mistake: who stops a server waits as long as it takes.
StopTimeout_Never(p) == FALSE /\ UNCHANGED vars
\* The 3 s a server has to end are over: it is killed, and taken for ended.
StopTimeout(p) ==
    /\ call[p].at \in {"stopping", "restarting"}
    /\ told' = [told EXCEPT !.kill = @ \cup {call[p].on}]
    /\ Resume(call[p].on, call, life, child)
    /\ UNCHANGED <<managed, port, calls>>

ElsewhereStarts ==
    /\ port = 0 /\ port' = Elsewhere
    /\ UNCHANGED <<child, managed, life, told, call, calls, lost>>
ElsewhereEnds ==
    /\ port = Elsewhere /\ port' = 0
    /\ UNCHANGED <<child, managed, life, told, call, calls, lost>>

Work ==
    \/ \E p \in Calls : Healthy(p) \/ Page(p) \/ Unhealthy(p) \/ StartTimeout(p) \/ StopTimeout(p)
    \/ \E n \in told.kill : Exits(n)
    \/ \E n \in told.term : ~Deaf /\ Exits(n)

Next ==
    \/ \E p \in Calls, plan \in Plans : Begin(p, plan)
    \/ \E n \in Servers : Listens(n) \/ Exits(n)
    \/ ElsewhereStarts \/ ElsewhereEnds
    \/ Work

Spec == Init /\ [][Next]_vars

\* Requests and timers come to an end, and so do servers that are killed, or told to and not
\* deaf.
FairSpec == Spec /\ WF_vars(Work)

-----------------------------------------------------------------------------
(* Properties *)

\* The server the manager has is running and nobody has told it to end, and any other that
\* is left has been told to: Stop Server, and leaving the editor, end the last one.  But for a
\* server that a call has started while another waited to start its own: that call then
\* overwrites the manager's child and nobody ends the first (startManagedServer looks at
\* this.child before its stop, not after).
ChildIsTracked ==
    /\ child # 0 => Running(child) /\ child \notin told.term
    /\ \A n \in Servers :
         Running(n) => n = child \/ n \in told.term \/ n \in lost

\* Every call is answered, whether servers start, hang, break or ignore a signal: when no more
\* are made, none is left.
AtRest == \A p \in Calls : call[p] = Idle
CallsAnswered == []<>AtRest
=============================================================================
