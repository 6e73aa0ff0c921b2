---------------------------- MODULE NativeTerminal ----------------------------
(***************************************************************************)
(* Native shell tabs: the sessions the server keeps (native-terminal.ts    *)
(* with its PTY bridge, and the native routes of server.ts) and the tabs   *)
(* of the web terminal that show them (terminal.js).                       *)
(*                                                                         *)
(* A restart gives a tab a new native state, its generation, while what    *)
(* was begun under the old one is still under way: requests, their         *)
(* replies, the chain of inputs and the event stream.  Replies act on the  *)
(* state the tab has by then.  Sizes and resizing are left out.            *)
(***************************************************************************)
EXTENDS Integers, Sequences, FiniteSets, SequencesExt

CONSTANTS
    Tabs,
    MaxGens,        \* generations, and so sessions, of all tabs together
    MaxKeys,        \* keys pressed
    MaxOutput,      \* pieces of output of all shells together
    Backlog,        \* MAX_BACKLOG_CHARS, in pieces
    MaxClicks,      \* restarts, signals, closed tabs and shells closed in the dialog
    Stubborn,       \* TRUE: a shell may ignore a hangup or a termination
    Faults          \* TRUE: requests fail and streams break

NativeAssumption ==
    /\ MaxGens \in Nat \ {0} /\ MaxKeys \in Nat /\ MaxOutput \in Nat /\ MaxClicks \in Nat
    /\ Backlog \in Nat \ {0} /\ Stubborn \in BOOLEAN /\ Faults \in BOOLEAN

Gens == 1 .. MaxGens
Sessions == 1 .. MaxGens

VARIABLES
    server,         \* the server is up, shut down or crashed
    started,        \* the sessions started so far are 1 .. started
    proc,           \* each session's bridge and shell: "up", "waiting" (for the shell to
                    \* end), "down"
    ended,          \* the sessions whose stdin has been ended
    got,            \* the keys written to it
    signals,        \* the signals written to it that it has not read
    emitted,        \* pieces of its output so far
    exited,         \* the sessions whose exit the server has seen
    listed,         \* NativeTerminalManager.sessions
    armed,          \* the sessions whose close has set its timer
    open, cur,      \* the tabs on the page; the generation a tab is at
    gens, nat,      \* the generations begun so far, and their native states
    link,           \* the event stream of each generation: what it has shown is "seen"
    net,            \* the other requests under way
    typed,          \* the generation each key was pressed under
    clicks

sessions == <<started, proc, ended, got, signals, emitted, exited, listed, armed>>
page == <<open, cur, gens, nat, typed, clicks>>
vars == <<server, sessions, page, link, net>>

hangup == -1
terminate == -2
kill == -3

NoNative == [tab |-> "none", id |-> 0, closed |-> FALSE, stopping |-> FALSE, lost |-> FALSE,
             chain |-> <<>>]
NoLink == [state |-> "none", id |-> 0, from |-> 0, q |-> <<>>, seen |-> <<>>]
Over == [NoLink EXCEPT !.state = "over"]

Init ==
    /\ server = "up" /\ started = 0
    /\ proc = [n \in Sessions |-> "none"] /\ ended = {}
    /\ got = [n \in Sessions |-> <<>>] /\ signals = [n \in Sessions |-> {}]
    /\ emitted = [n \in Sessions |-> 0]
    /\ exited = {} /\ listed = {} /\ armed = {}
    /\ open = {} /\ cur = [t \in Tabs |-> 0] /\ gens = 0
    /\ nat = [g \in Gens |-> NoNative] /\ link = [g \in Gens |-> NoLink]
    /\ net = {} /\ typed = <<>> /\ clicks = 0

-----------------------------------------------------------------------------
(* The server.  A request is served at once, and answered later.           *)

\* The page does nothing about the answer to an input, but to go on with the next, nor
\* about that to the close of its tab.
Answered(m, reply) ==
    net' = (net \ {m}) \cup (IF m.kind \in {"input", "close"} THEN {}
                            ELSE {[m EXCEPT !.reply = reply]})

\* The server is gone, and what the page does without it is left out.
Down(how) ==
    /\ server' = how /\ net' = {}
    /\ link' = [g \in Gens |-> IF link[g] = NoLink THEN NoLink ELSE Over]

\* Writing to a stdin that was ended: it may be destroyed by now, and is left alone; if
\* not, an error is raised that no one listens for and the server goes down with it.
WriteAfterEnd(m) ==
    /\ \/ Answered(m, IF m.kind \in {"stop", "close", "restart"} THEN "ok" ELSE "missing")
          /\ UNCHANGED <<server, link>>
       \/ Down("crashed")
    /\ UNCHANGED sessions

\* POST /api/native/start
ServeStart(m) ==
    /\ m.kind = "start" /\ started < MaxGens
    /\ LET n == started + 1 IN
       /\ started' = n
       /\ proc' = [proc EXCEPT ![n] = "up"]
       /\ listed' = listed \cup {n}
       /\ net' = (net \ {m}) \cup {[m EXCEPT !.reply = "ok", !.id = n]}
    /\ UNCHANGED <<server, link, ended, got, signals, emitted, exited, armed>>

\* writeFrame, for a request about a session: frames, unless its stdin is gone.
ServeFrames(m, frames) ==
    IF m.id \notin listed THEN Answered(m, "missing") /\ UNCHANGED <<server, link, sessions>>
    ELSE IF m.id \in ended THEN WriteAfterEnd(m)
    ELSE /\ IF m.kind = "input"
            THEN got' = [got EXCEPT ![m.id] = @ \o frames] /\ UNCHANGED signals
            ELSE signals' = [signals EXCEPT ![m.id] = @ \cup ToSet(frames)] /\ UNCHANGED got
         /\ Answered(m, "ok")
         /\ UNCHANGED <<server, link, started, proc, ended, emitted, exited, listed, armed>>

ServeInput(m) == m.kind = "input" /\ ServeFrames(m, m.data)
ServeSignal(m) == m.kind = "signal" /\ ServeFrames(m, m.data)

\* NativeTerminalSession.close, for some sessions: a hangup, the end of stdin and a
\* timer that terminates what is still there.
Hangup(S) ==
    /\ signals' = [n \in Sessions |-> IF n \in S \ ended THEN signals[n] \cup {hangup}
                                      ELSE signals[n]]
    /\ ended' = ended \cup S
    /\ UNCHANGED <<started, proc, got, emitted, exited>>

\* Mistake: a hangup and the end of its input are trusted to end the shell.
ServeClose_NoTimer(m) ==
    /\ m.kind \in {"close", "restart", "stop"}
    /\ IF m.id \notin listed THEN Answered(m, "missing") /\ UNCHANGED <<server, link, sessions>>
       ELSE IF m.id \in ended THEN WriteAfterEnd(m)
       ELSE Hangup({m.id}) /\ Answered(m, "ok") /\ UNCHANGED <<server, link, listed, armed>>

ServeClose(m) ==
    /\ m.kind \in {"close", "restart", "stop"}
    /\ IF m.id \notin listed THEN Answered(m, "missing") /\ UNCHANGED <<server, link, sessions>>
       ELSE IF m.id \in ended THEN WriteAfterEnd(m)
       ELSE /\ Hangup({m.id}) /\ armed' = armed \cup {m.id}
            /\ Answered(m, "ok") /\ UNCHANGED <<server, link, listed>>

\* startServer's close(): closeAll, and the map is cleared.
ShutDown ==
    /\ server = "up"
    /\ \/ /\ Down("closed")
          /\ Hangup(listed) /\ armed' = armed \cup listed /\ listed' = {}
       \/ listed \cap ended # {} /\ Down("crashed") /\ UNCHANGED sessions
    /\ UNCHANGED page

Serve ==
    /\ server = "up"
    /\ \E m \in net : m.reply = "none" /\ (ServeStart(m) \/ ServeInput(m) \/ ServeSignal(m) \/ ServeClose(m))
    /\ UNCHANGED page

\* The first piece of a backlog that ends with the k-th; an event with the pieces of output from
\* one to another; and one that has none of them, behind the k-th.
BacklogFrom(k) == IF k > Backlog THEN k - Backlog + 1 ELSE 1
Data(from, to) == [event |-> "data", from |-> from, to |-> to]
Event(name, k) == [event |-> name, from |-> k + 1, to |-> k]

\* Mistake: a new subscriber is not given what came before.
subscribe_NoReplay(n) == <<Event("ready", BacklogFrom(emitted[n]) - 1)>>

\* What a new subscriber is given first: the backlog, if there is one.
subscribe(n) ==
    LET first == BacklogFrom(emitted[n])
    IN  <<Event("ready", first - 1)>>
        \o IF emitted[n] = 0 THEN <<>> ELSE <<Data(first, emitted[n])>>

\* GET /api/native/:id/stream
ServeStream(g) ==
    LET n == link[g].id IN
    /\ server = "up" /\ link[g].state = "asked"
    /\ link' = [link EXCEPT ![g] =
                   IF n \in listed
                   THEN [@ EXCEPT !.state = "open", !.q = subscribe(n), !.from = emitted[n]]
                   ELSE [@ EXCEPT !.state = "refused"]]
    /\ UNCHANGED <<server, sessions, page, net>>

Subscribers(n) == {g \in Gens : link[g].state = "open" /\ link[g].id = n}

\* The shell writes and stdout has data.  What is in the pipe when an exit is seen is
\* read later and reaches no stream, as they have all been ended.
Output(n) ==
    /\ server = "up" /\ proc[n] = "up" /\ SumFunction(emitted) < MaxOutput
    /\ emitted' = [emitted EXCEPT ![n] = @ + 1]
    /\ link' = [g \in Gens |-> IF g \in Subscribers(n)
                               THEN [link[g] EXCEPT !.q = Append(@, Data(emitted[n] + 1, emitted[n] + 1))]
                               ELSE link[g]]
    /\ UNCHANGED <<server, started, proc, ended, got, signals, exited, listed, armed, page, net>>

Ended(n) ==
    link' = [g \in Gens |-> IF g \in Subscribers(n)
                            THEN [link[g] EXCEPT !.q = @ \o <<Event("exit", emitted[n]),
                                                          Event("done", emitted[n])>>,
                                                 !.state = "ended"]
                            ELSE link[g]]

\* What was written to it does not matter any more, nor does its timer.
Gone(n) ==
    /\ exited' = exited \cup {n} /\ ended' = ended \cup {n}
    /\ got' = [got EXCEPT ![n] = <<>>] /\ signals' = [signals EXCEPT ![n] = {}]
    /\ armed' = armed \ {n}

\* Mistake: the manager does not listen for the exit.
Exit_Kept(n) ==
    /\ server # "crashed" /\ proc[n] = "down" /\ n \notin exited
    /\ Gone(n)
    /\ Ended(n)
    /\ UNCHANGED <<server, started, proc, emitted, listed, page, net>>

\* finishExit: the manager forgets the session, and its streams are ended.  There may
\* be output still to be read.
Exit(n) ==
    /\ server # "crashed" /\ proc[n] = "down" /\ n \notin exited
    /\ Gone(n)
    /\ listed' = listed \ {n}
    /\ Ended(n)
    /\ UNCHANGED <<server, started, proc, emitted, page, net>>

\* 250 ms after a close.
KillTimer(n) ==
    /\ server # "crashed" /\ n \in armed
    /\ armed' = armed \ {n}
    /\ proc' = [proc EXCEPT ![n] = "down"]
    /\ UNCHANGED <<server, started, ended, got, signals, emitted, exited,
                   listed, page, link, net>>

-----------------------------------------------------------------------------
(* The bridge and the shell behind it.                                     *)

\* read_frames: a signal is passed on, and only a kill cannot be ignored.
BridgeReads(n) ==
    \E sig \in signals[n] :
        /\ proc[n] = "up"
        /\ signals' = [signals EXCEPT ![n] = @ \ {sig}]
        /\ \/ proc' = [proc EXCEPT ![n] = "down"]
           \/ Stubborn /\ sig # kill /\ UNCHANGED proc
        /\ UNCHANGED <<server, started, ended, got, emitted, exited, listed, armed, page, link,
                       net>>

\* The end of its input: a hangup, and it waits for the shell to end.
BridgeEnds(n) ==
    /\ proc[n] = "up" /\ signals[n] = {} /\ (n \in ended \/ server = "crashed")
    /\ \/ proc' = [proc EXCEPT ![n] = "down"]
       \/ Stubborn /\ proc' = [proc EXCEPT ![n] = "waiting"]
    /\ UNCHANGED <<server, started, ended, got, signals, emitted, exited,
                   listed, armed, page, link, net>>

ShellEnds(n) ==
    /\ proc[n] \in {"up", "waiting"} /\ proc' = [proc EXCEPT ![n] = "down"]
    /\ UNCHANGED <<server, started, ended, got, signals, emitted, exited,
                   listed, armed, page, link, net>>

-----------------------------------------------------------------------------
(* The page.                                                               *)

Request(kind, gen, tab, id, data) ==
    [kind |-> kind, gen |-> gen, tab |-> tab, id |-> id, data |-> data, reply |-> "none"]

Begun == gens + Cardinality({m \in net : m.kind = "restart"})
Native(t) == nat[cur[t]]

\* What a person does next.
Click == server = "up" /\ clicks < MaxClicks /\ clicks' = clicks + 1

\* A tab is given a native state, and a session for it is asked for or attached.
Renew(t, id, states, requests) ==
    LET g == gens + 1 IN
    /\ gens' = g /\ cur' = [cur EXCEPT ![t] = g]
    /\ nat' = [states EXCEPT ![g] = [NoNative EXCEPT !.tab = t, !.id = id]]
    /\ net' = IF id = 0 THEN requests \cup {Request("start", g, t, 0, <<>>)} ELSE requests

\* createNativeTerminalTab, for a new session or, from the sessions dialog, for one
\* that no tab shows.
OpenTab(t, n) ==
    /\ server = "up" /\ cur[t] = 0 /\ Begun < MaxGens
    /\ n \in 0 .. started /\ (n = 0 \/ \A u \in open : Native(u).id # n)
    /\ open' = open \cup {t}
    /\ Renew(t, n, nat, net)
    /\ link' = IF n = 0 THEN link
               ELSE [link EXCEPT ![gens'] = [NoLink EXCEPT !.state = "asked", !.id = n]]
    /\ UNCHANGED <<server, sessions, typed, clicks>>

\* The reply to a start, unless the tab is at another generation by now.
StartReply(m) ==
    LET g == m.gen IN
    /\ m.kind = "start" /\ net' = net \ {m}
    /\ IF cur[m.tab] # g THEN UNCHANGED <<nat, link>>
       ELSE IF m.reply = "failed"
       THEN nat' = [nat EXCEPT ![g].closed = TRUE] /\ UNCHANGED link
       ELSE /\ nat' = [nat EXCEPT ![g].id = m.id, ![g].closed = FALSE, ![g].stopping = FALSE,
                                  ![g].lost = FALSE]
            /\ link' = [link EXCEPT ![g] = [NoLink EXCEPT !.state = "asked", !.id = m.id]]
    /\ UNCHANGED <<open, cur, gens>>

\* Mistake: an exit leaves the tab as it is.
Shown_Stopping(g, event) ==
    CASE event = "ready" -> [nat[g] EXCEPT !.closed = FALSE, !.stopping = FALSE, !.lost = FALSE]
      [] event = "exit" -> [nat[g] EXCEPT !.closed = TRUE]
      [] OTHER -> nat[g]

\* dispatchNativeSseBlock
Shown(g, event) ==
    CASE event = "ready" -> [nat[g] EXCEPT !.closed = FALSE, !.stopping = FALSE, !.lost = FALSE]
      [] event = "exit" -> [nat[g] EXCEPT !.closed = TRUE, !.stopping = FALSE]
      [] OTHER -> nat[g]

Deliver(g) ==
    LET first == Head(link[g].q)
        rest == [link[g] EXCEPT !.q = Tail(@), !.seen = Append(@, first)] IN
    /\ link[g].state \in {"open", "ended"} /\ link[g].q # <<>>
    /\ nat' = [nat EXCEPT ![g] = Shown(g, first.event)]
    /\ link' = [link EXCEPT ![g] = IF first.event = "exit" THEN Over ELSE rest]
    /\ UNCHANGED <<server, sessions, open, cur, gens, typed, clicks, net>>

\* The stream is refused, or breaks.
StreamFails(g) ==
    /\ \/ link[g].state = "refused"
       \/ Faults /\ link[g].state \in {"asked", "open", "ended"}
    /\ link' = [link EXCEPT ![g] = Over]
    /\ nat' = [nat EXCEPT ![g].lost = TRUE, ![g].stopping = FALSE]
    /\ UNCHANGED <<server, sessions, open, cur, gens, typed, clicks, net>>

Writable(t) ==
    t \in open /\ Native(t).id # 0
    /\ ~Native(t).closed /\ ~Native(t).stopping /\ ~Native(t).lost

\* queueNativeInput and flushNativeInput; the 12 ms a key may wait in a buffer are left
\* out.
Type(t) ==
    /\ server = "up" /\ Len(typed) < MaxKeys /\ Writable(t)
    /\ typed' = Append(typed, cur[t])
    /\ nat' = [nat EXCEPT ![cur[t]].chain = Append(@, <<Len(typed) + 1>>)]
    /\ UNCHANGED <<server, sessions, open, cur, gens, link, net, clicks>>

Send(g) ==
    LET t == nat[g].tab IN
    /\ server = "up" /\ nat[g].chain # <<>>
    /\ net' = net \cup {Request("input", g, t, Native(t).id, Head(nat[g].chain))}
    /\ nat' = [nat EXCEPT ![g].chain = Tail(@)]
    /\ UNCHANGED <<server, sessions, open, cur, gens, link, typed, clicks>>

\* Mistake: an input is sent while the one before it is under way.
SendInput_Unchained(g) == Send(g)

\* writeChain: one after another, each to the session the tab has by then.
SendInput(g) == Send(g) /\ \A m \in net : m.kind = "input" => m.gen # g

\* shutdownNativeSession
Shut(g) == [nat EXCEPT ![g].stopping = TRUE, ![g].closed = TRUE]
Abort(g) == link' = [link EXCEPT ![g] = IF @ = NoLink THEN @ ELSE Over]

Restart(t) ==
    LET g == cur[t] IN
    /\ Click /\ t \in open /\ Begun < MaxGens
    /\ Abort(g)
    /\ IF nat[g].id = 0 THEN Renew(t, 0, Shut(g), net)
       ELSE /\ nat' = Shut(g)
            /\ net' = net \cup {Request("restart", g, t, nat[g].id, <<>>)}
            /\ UNCHANGED <<cur, gens>>
    /\ UNCHANGED <<server, sessions, open, typed>>

CloseTab(t) ==
    LET g == cur[t] IN
    /\ Click /\ t \in open /\ open' = open \ {t}
    /\ nat' = Shut(g) /\ Abort(g)
    /\ net' = IF nat[g].id = 0 THEN net
              ELSE net \cup {Request("close", g, t, nat[g].id, <<>>)}
    /\ UNCHANGED <<server, sessions, cur, gens, typed>>

\* sendNativeSignal
Signal(t, s) ==
    /\ Click /\ t \in open
    /\ Native(t).id # 0 /\ ~Native(t).closed /\ ~Native(t).stopping
    /\ nat' = [nat EXCEPT ![cur[t]].stopping = s = kill]
    /\ net' = net \cup {Request("signal", cur[t], t, Native(t).id, <<s>>)}
    /\ UNCHANGED <<server, sessions, open, cur, gens, link, typed>>

\* closeNativeSessionId, in the dialog, with the tab that shows the session if any.
Stop(n) ==
    LET shown == {t \in open : Native(t).id = n} IN
    /\ Click /\ n \in 1 .. started
    /\ \/ /\ shown = {}
          /\ net' = net \cup {Request("stop", 0, "none", n, <<>>)} /\ UNCHANGED nat
       \/ \E t \in shown :
             /\ nat' = [nat EXCEPT ![cur[t]].stopping = TRUE]
             /\ net' = net \cup {Request("stop", cur[t], t, n, <<>>)}
    /\ UNCHANGED <<server, sessions, open, cur, gens, link, typed>>

\* The replies to a signal and to a close in the dialog.
SettleReply(m) ==
    LET t == m.tab
        native == [Native(t) EXCEPT
                      !.closed = @ \/ m.reply = "missing",
                      !.stopping = @ /\ (m.reply = "ok" \/ m.data = <<terminate>>)]
    IN  /\ m.kind \in {"signal", "stop"} /\ net' = net \ {m}
        /\ nat' = IF t = "none" THEN nat ELSE [nat EXCEPT ![cur[t]] = native]
        /\ UNCHANGED <<open, cur, gens, link>>

\* The shell of a restart is closed, or cannot be; the next one is asked for.
RestartReply(m) ==
    m.kind = "restart" /\ Renew(m.tab, 0, nat, net \ {m}) /\ UNCHANGED <<open, link>>

Reply ==
    \E m \in net : m.reply # "none" /\
        /\ StartReply(m) \/ SettleReply(m) \/ RestartReply(m)
        /\ UNCHANGED <<server, sessions, typed, clicks>>

RequestFails ==
    \E m \in net :
        /\ Faults /\ m.reply = "none"
        /\ Answered(m, "failed")
        /\ UNCHANGED <<server, sessions, page, link>>

-----------------------------------------------------------------------------
\* What the server, the page and the bridge do by themselves.
Work ==
    \/ Serve \/ Reply
    \/ \E g \in Gens : ServeStream(g) \/ Deliver(g) \/ SendInput(g)
    \/ \E g \in Gens : link[g].state = "refused" /\ StreamFails(g)
    \/ \E n \in Sessions : Exit(n) \/ KillTimer(n) \/ BridgeReads(n) \/ BridgeEnds(n)

Next ==
    \/ Work \/ RequestFails \/ ShutDown
    \/ \E n \in Sessions : ShellEnds(n) \/ Output(n) \/ Stop(n)
    \/ \E g \in Gens : StreamFails(g)
    \/ \E t \in Tabs : \/ \E n \in 0 .. MaxGens : OpenTab(t, n)
                       \/ cur[t] # 0 /\ (Type(t) \/ Restart(t) \/ CloseTab(t))
                       \/ cur[t] # 0 /\ \E s \in {terminate, kill} : Signal(t, s)

Spec == Init /\ [][Next]_vars

\* Both sides go on with what is under way, which is only so much.
FairSpec == Spec /\ WF_vars(Work)

-----------------------------------------------------------------------------
TypeOK ==
    /\ server \in {"up", "closed", "crashed"} /\ started \in 0 .. MaxGens /\ gens \in 0 .. MaxGens
    /\ proc \in [Sessions -> {"none", "up", "waiting", "down"}]
    /\ ended \subseteq 1 .. started
    /\ exited \subseteq 1 .. started /\ listed \subseteq 1 .. started /\ armed \subseteq 1 .. started
    /\ open \subseteq Tabs /\ cur \in [Tabs -> 0 .. gens]
    /\ \A g \in Gens : link[g].state \in {"none", "asked", "refused", "open", "ended", "over"}

\* A shell that runs is in the list from which a person can attach or close it,
\* whatever its tab has been through; what is listed has not exited and what streams
\* has not either.
SessionsListed ==
    /\ server = "up" => listed = (1 .. started) \ exited
    /\ listed \cap exited = {}
    /\ \A g \in Gens : link[g].state = "open" => link[g].id \notin exited

NativeInv == TypeOK /\ SessionsListed

\* What an open stream has shown and has in its queue are the last pieces of output
\* as far as they were read, none missing and none twice, and they reach back over
\* the backlog of the moment the tab was attached.
StreamsAreCurrent ==
    \A g \in Gens : link[g].state = "open" =>
        LET told == link[g].seen \o link[g].q
        IN  /\ told # <<>> /\ told[1].from = BacklogFrom(link[g].from)
            /\ \A i \in 1 .. Len(told) - 1 : told[i + 1].from = told[i].to + 1
            /\ told[Len(told)].to = emitted[link[g].id]

\* A shell receives no key twice, and the keys of one generation in the order they
\* were pressed.
InputInOrder ==
    \A n \in Sessions : \A i, j \in DOMAIN got[n] :
        i < j => /\ got[n][i] # got[n][j]
                 /\ typed[got[n][i]] = typed[got[n][j]] => got[n][i] < got[n][j]

\* "Stop this shell and start a fresh one in the same tab" (terminal.js): a shell
\* receives nothing that was typed into the one before it.
FreshAfterRestart ==
    \A n \in Sessions : \A i \in DOMAIN got[n] :
        \A g \in Gens : nat[g].id = n => got[n][i] \notin {k \in DOMAIN typed : typed[k] < g}

\* Once a person rests, and what a person does is bounded here, a session that was asked to
\* close has ended, also when its shell ignores the hangup; and a tab that says it is stopping
\* its shell, and is still connected, comes out of it.
AtRest ==
    /\ server = "crashed" \/ ended \subseteq exited
    /\ server = "up" => \A t \in open : ~Native(t).stopping \/ Native(t).lost
ShellsSettle == []<>AtRest
=============================================================================
