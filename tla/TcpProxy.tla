------------------------------ MODULE TcpProxy ------------------------------
(***************************************************************************)
(* The CONNECT proxy (app/proxy/tcp_proxy.py) on the event loop of one     *)
(* worker.                                                                 *)
(*                                                                         *)
(* A handler task per connection reads the request, connects to the        *)
(* target, answers, and then starts two forwarding tasks and waits for the *)
(* first of them to end. Tasks run from one await to the next without      *)
(* interruption; a cancellation is delivered at the await a task is in.    *)
(* stop() cancels the handlers it knows of, waits for them, and only then  *)
(* closes the listening socket. What the peers send is abstracted to       *)
(* whether there is some, and whether it ends.                             *)
(***************************************************************************)
EXTENDS FiniteSets

CONSTANT Conns      \* connections at the same time

Sides == {"client", "remote"}
Other(s) == IF s = "client" THEN "remote" ELSE "client"

VARIABLES
  server,     \* "down", "listening", "stopping", "stopped"
  tasks,      \* self._tasks: the handlers the proxy knows of
  awaited,    \* handlers stop() still waits for
  pc,         \* where each handler is
  cancel,     \* a handler has a cancellation that is not delivered yet
  forward,    \* per connection and side: the task that forwards to that side
  socket,     \* our end of the connection to each side
  gone,       \* that side has closed its end
  aborted,    \* history: the handler ended in an exception or cancellation
  orphaned,   \* history: it was cancelled while its forwards ran
  late        \* history: its cancellation came as the connection was made

loopVars == <<server, tasks, awaited>>
connVars == <<pc, cancel, forward, socket, gone>>
histVars == <<aborted, orphaned, late>>
vars     == <<loopVars, connVars, histVars>>

-----------------------------------------------------------------------------
Both(x) == [s \in Sides |-> x]

Init ==
  /\ server = "down" /\ tasks = {} /\ awaited = {}
  /\ pc       = [c \in Conns |-> "none"]
  /\ cancel   = [c \in Conns |-> FALSE]
  /\ forward  = [c \in Conns |-> Both("none")]
  /\ socket   = [c \in Conns |-> Both("none")]
  /\ gone     = [c \in Conns |-> Both(FALSE)]
  /\ aborted  = [c \in Conns |-> FALSE]
  /\ orphaned = [c \in Conns |-> FALSE]
  /\ late     = [c \in Conns |-> FALSE]

\* A handler goes on to its next await.
Goto(c, step) ==
  /\ pc' = [pc EXCEPT ![c] = step]
  /\ UNCHANGED <<server, awaited, cancel>>

\* _on_connect returns, in whatever way: `finally` forgets the task.
End(c) ==
  /\ pc' = [pc EXCEPT ![c] = "done"]
  /\ cancel' = [cancel EXCEPT ![c] = FALSE]
  /\ tasks' = tasks \ {c}
  /\ awaited' = awaited \ {c}
  /\ UNCHANGED server

Aborts(c) == aborted' = [aborted EXCEPT ![c] = TRUE]

\* transport.close() of those of the sides ss that are open.
Closing(sock, ss) ==
  [s \in Sides |-> IF s \in ss /\ sock[s] = "open" THEN "closing" ELSE sock[s]]
Close(c, ss) == socket' = [socket EXCEPT ![c] = Closing(@, ss)]

At(c, step) == pc[c] = step /\ ~cancel[c]

-----------------------------------------------------------------------------
(***************************************************************************)
(* The handler.                                                            *)
(***************************************************************************)
\* The socket is accepted and the task made; it runs in a later iteration.
Accept(c) ==
  /\ server \in {"listening", "stopping"} /\ pc[c] = "none"
  /\ Goto(c, "accepted")
  /\ socket' = [socket EXCEPT ![c]["client"] = "open"]
  /\ UNCHANGED <<tasks, forward, gone, histVars>>

Begin(c) ==
  /\ At(c, "accepted")
  /\ Goto(c, "reading")
  /\ tasks' = tasks \cup {c}
  /\ UNCHANGED <<forward, socket, gone, histVars>>

\* The client closes before it has sent a line.
ReadNothing(c) ==
  /\ At(c, "reading") /\ gone[c]["client"]
  /\ End(c)
  /\ Close(c, {"client"})
  /\ UNCHANGED <<forward, gone, histVars>>

\* A CONNECT to an allowed target, or to any if there is no list. The headers
\* end with an empty line or with the client's end of file.
ReadRequest(c) ==
  /\ At(c, "reading")
  /\ Goto(c, "connecting")
  /\ UNCHANGED <<tasks, forward, socket, gone, histVars>>

\* Another request, a bad port or a forbidden target: 400 or 403.
Refuse(c) ==
  /\ At(c, "reading")
  /\ Goto(c, "refusing")
  /\ UNCHANGED <<tasks, forward, socket, gone, histVars>>

\* The target does not answer within 15 seconds, or refuses: 504 or 502. Like
\* a connection, see below, a refusal that is there already makes
\* asyncio.wait_for of Python 3.11 lose a cancellation that arrives meanwhile.
ConnectFails(c) ==
  /\ pc[c] = "connecting"
  /\ pc' = [pc EXCEPT ![c] = "refusing"]
  /\ cancel' = [cancel EXCEPT ![c] = FALSE]
  /\ UNCHANGED <<loopVars, forward, socket, gone, histVars>>

\* Slip: the refused client is left connected.
RefusedOpen(c) ==
  /\ At(c, "refusing")
  /\ End(c)
  /\ UNCHANGED <<forward, socket, gone, histVars>>

\* _respond: the error is sent and the client's connection closed.
Refused(c) ==
  /\ At(c, "refusing")
  /\ End(c)
  /\ Close(c, {"client"})
  /\ UNCHANGED <<forward, gone, histVars>>

\* open_connection succeeds. asyncio.wait_for of Python 3.11 returns the
\* connection even if a cancellation arrived meanwhile, which is then lost.
Connected(c) ==
  /\ pc[c] = "connecting"
  /\ pc' = [pc EXCEPT ![c] = "replying"]
  /\ cancel' = [cancel EXCEPT ![c] = FALSE]
  /\ late' = [late EXCEPT ![c] = cancel[c]]
  /\ socket' = [socket EXCEPT ![c]["remote"] = "open"]
  /\ UNCHANGED <<loopVars, forward, gone, aborted, orphaned>>

\* Slip: nothing forwards to the client.
RepliedOneWay(c) ==
  /\ At(c, "replying")
  /\ Goto(c, "relaying")
  /\ forward' = [forward EXCEPT ![c] = [s \in {"remote"} |-> "read"]]
  /\ UNCHANGED <<tasks, socket, gone, histVars>>

\* The 200 is written; _relay starts its two tasks.
Replied(c) ==
  /\ At(c, "replying")
  /\ Goto(c, "relaying")
  /\ forward' = [forward EXCEPT ![c] = Both("read")]
  /\ UNCHANGED <<tasks, socket, gone, histVars>>

\* Slip: the other task is left running.
RelayEndsAlone(c) ==
  /\ At(c, "relaying") /\ \E s \in Sides : forward[c][s] = "done"
  /\ End(c)
  /\ Close(c, Sides)
  /\ UNCHANGED <<forward, gone, histVars>>

\* One of them is done: the other is cancelled, both connections are closed.
RelayEnds(c) ==
  /\ At(c, "relaying") /\ \E s \in Sides : forward[c][s] = "done"
  /\ End(c)
  /\ forward' = [forward EXCEPT ![c] =
       [s \in Sides |-> IF @[s] = "done" THEN "done" ELSE "cancelled"]]
  /\ Close(c, Sides)
  /\ UNCHANGED <<gone, histVars>>

\* Slip: an exception is reported, and the task remembered.
HandlerErrorKept(c) ==
  /\ pc[c] \in {"reading", "connecting", "refusing", "replying"} /\ ~cancel[c]
  /\ Goto(c, "done")
  /\ Aborts(c)
  /\ UNCHANGED <<tasks, forward, socket, gone, orphaned, late>>

\* An exception nothing but _on_connect catches: a line beyond the limit, a
\* client that resets, a host name that cannot be encoded.
HandlerError(c) ==
  /\ pc[c] \in {"reading", "connecting", "refusing", "replying"} /\ ~cancel[c]
  /\ End(c)
  /\ Aborts(c)
  /\ UNCHANGED <<forward, socket, gone, orphaned, late>>

\* Slip: a handler that has nothing to tear down goes on.
CancelledRelayOnly(c) ==
  /\ cancel[c] /\ pc[c] = "relaying"
  /\ End(c)
  /\ Aborts(c)
  /\ orphaned' = [orphaned EXCEPT ![c] = TRUE]
  /\ UNCHANGED <<forward, socket, gone, late>>

\* A cancellation is delivered. _on_connect swallows it: nothing is closed,
\* and the tasks of a relay do not learn of it.
Cancelled(c) ==
  /\ cancel[c] /\ pc[c] \in {"reading", "connecting", "refusing", "replying", "relaying"}
  /\ End(c)
  /\ Aborts(c)
  /\ orphaned' = [orphaned EXCEPT ![c] = (pc[c] = "relaying")]
  /\ UNCHANGED <<forward, socket, gone, late>>

-----------------------------------------------------------------------------
(***************************************************************************)
(* Forwarding to side s what the other side sends.                         *)
(***************************************************************************)
AtEnd(c, s) == gone[c][s] \/ socket[c][s] = "closed"

ForwardSome(c, s) ==
  /\ forward[c][s] = "read" /\ socket[c][Other(s)] \in {"open", "closing"}
  /\ forward' = [forward EXCEPT ![c][s] = "drain"]
  /\ UNCHANGED <<loopVars, pc, cancel, socket, gone, histVars>>

\* The receiver takes what it was sent. It may take its time.
Drained(c, s) ==
  /\ forward[c][s] = "drain" /\ socket[c][s] # "closed"
  /\ forward' = [forward EXCEPT ![c][s] = "read"]
  /\ UNCHANGED <<loopVars, pc, cancel, socket, gone, histVars>>

ForwardStops(c, s) ==
  \/ forward[c][s] = "cancelled"
  \/ forward[c][s] = "read"  /\ AtEnd(c, Other(s))
  \/ forward[c][s] = "drain" /\ AtEnd(c, s)

\* Slip: no `finally`.
ForwardEndsOpen(c, s) ==
  /\ ForwardStops(c, s)
  /\ forward' = [forward EXCEPT ![c][s] = "done"]
  /\ UNCHANGED <<loopVars, pc, cancel, socket, gone, histVars>>

\* End of file, a receiver that is gone, or a cancellation: the task closes
\* the side it writes to and is done.
ForwardEnds(c, s) ==
  /\ ForwardStops(c, s)
  /\ forward' = [forward EXCEPT ![c][s] = "done"]
  /\ Close(c, {s})
  /\ UNCHANGED <<loopVars, pc, cancel, gone, histVars>>

\* A peer closes its end, at any time.
PeerCloses(c, s) ==
  /\ socket[c][s] \in {"open", "closing"} /\ ~gone[c][s]
  /\ gone' = [gone EXCEPT ![c][s] = TRUE]
  /\ UNCHANGED <<loopVars, pc, cancel, forward, socket, histVars>>

\* A transport that is closing has sent what it holds, or lost its peer.
Flushed(c, s) ==
  /\ socket[c][s] = "closing"
  /\ socket' = [socket EXCEPT ![c][s] = "closed"]
  /\ UNCHANGED <<loopVars, pc, cancel, forward, gone, histVars>>

LostPeer(c, s) == gone[c][s] /\ Flushed(c, s)

\* Nothing is left of a connection; its number may be used again.
Forget(c) ==
  /\ pc[c] = "done"
  /\ \A s \in Sides : forward[c][s] \in {"none", "done"}
                      /\ socket[c][s] \in {"none", "closed"}
  /\ pc'       = [pc       EXCEPT ![c] = "none"]
  /\ forward'  = [forward  EXCEPT ![c] = Both("none")]
  /\ socket'   = [socket   EXCEPT ![c] = Both("none")]
  /\ gone'     = [gone     EXCEPT ![c] = Both(FALSE)]
  /\ aborted'  = [aborted  EXCEPT ![c] = FALSE]
  /\ orphaned' = [orphaned EXCEPT ![c] = FALSE]
  /\ late'     = [late     EXCEPT ![c] = FALSE]
  /\ UNCHANGED <<loopVars, cancel>>

-----------------------------------------------------------------------------
(***************************************************************************)
(* Starting and stopping, by the lifespan of app/main.py.                  *)
(***************************************************************************)
Start ==
  /\ server = "down"
  /\ server' = "listening"
  /\ UNCHANGED <<tasks, awaited, connVars, histVars>>

\* stop() cancels the handlers it knows of and waits for them, if there are
\* any; connections are accepted meanwhile.
Stop ==
  /\ server = "listening"
  /\ server' = IF tasks = {} THEN "stopped" ELSE "stopping"
  /\ cancel' = [c \in Conns |-> cancel[c] \/ c \in tasks]
  /\ awaited' = tasks
  /\ UNCHANGED <<tasks, pc, forward, socket, gone, histVars>>

\* They are done. The tasks that came since are forgotten, not cancelled, and
\* the listening socket is closed.
Stopped ==
  /\ server = "stopping" /\ awaited = {}
  /\ server' = "stopped"
  /\ tasks' = {}
  /\ UNCHANGED <<awaited, connVars, histVars>>

\* The process exits and everything in it is gone; a new worker starts.
Exit ==
  /\ server = "stopped"
  /\ server' = "down" /\ tasks' = {} /\ awaited' = {}
  /\ pc'       = [c \in Conns |-> "none"]
  /\ cancel'   = [c \in Conns |-> FALSE]
  /\ forward'  = [c \in Conns |-> Both("none")]
  /\ socket'   = [c \in Conns |-> Both("none")]
  /\ gone'     = [c \in Conns |-> Both(FALSE)]
  /\ aborted'  = [c \in Conns |-> FALSE]
  /\ orphaned' = [c \in Conns |-> FALSE]
  /\ late'     = [c \in Conns |-> FALSE]

-----------------------------------------------------------------------------
Handler(c) ==
  \/ Begin(c) \/ ReadNothing(c) \/ ReadRequest(c) \/ Refuse(c) \/ Refused(c)
  \/ ConnectFails(c) \/ Connected(c) \/ Replied(c) \/ RelayEnds(c)
  \/ HandlerError(c) \/ Cancelled(c)

Relay(c, s) == ForwardSome(c, s) \/ Drained(c, s) \/ ForwardEnds(c, s)

Next ==
  \/ \E c \in Conns : Accept(c) \/ Handler(c) \/ Forget(c)
  \/ \E c \in Conns, s \in Sides : Relay(c, s) \/ PeerCloses(c, s) \/ Flushed(c, s)
  \/ Start \/ Stop \/ Stopped \/ Exit

Spec == Init /\ [][Next]_vars

\* The event loop runs what is ready: a task whose await is over, a callback
\* of a socket. An error message is small enough for the transport to take it
\* at once. Peers owe nothing, and nobody has to stop the proxy.
Fairness ==
  /\ WF_vars(Stopped)
  /\ \A c \in Conns : WF_vars(RelayEnds(c)) /\ WF_vars(Cancelled(c)) /\ WF_vars(Refused(c))
  /\ \A c \in Conns, s \in Sides : WF_vars(ForwardEnds(c, s)) /\ WF_vars(LostPeer(c, s))

FairSpec == Spec /\ Fairness

-----------------------------------------------------------------------------
(***************************************************************************)
(* Properties                                                              *)
(***************************************************************************)
Handling == {c \in Conns : pc[c] \notin {"none", "accepted", "done"}}

Forwarding(c) == \E s \in Sides : forward[c][s] \in {"read", "drain", "cancelled"}

\* The variables hold what the proxy, its tasks and its sockets can be in.
TypeOK ==
  /\ server \in {"down", "listening", "stopping", "stopped"}
  /\ tasks \subseteq Conns /\ awaited \subseteq Conns
  /\ pc \in [Conns -> {"none", "accepted", "reading", "connecting", "refusing",
                      "replying", "relaying", "done"}]
  /\ cancel \in [Conns -> BOOLEAN]
  /\ forward \in [Conns -> [Sides -> {"none", "read", "drain", "cancelled", "done"}]]
  /\ socket \in [Conns -> [Sides -> {"none", "open", "closing", "closed"}]]
  /\ gone \in [Conns -> [Sides -> BOOLEAN]]
  /\ aborted \in [Conns -> BOOLEAN] /\ orphaned \in [Conns -> BOOLEAN]
  /\ late \in [Conns -> BOOLEAN]

\* tests/test_proxy.py:228: until stop() is done, the tasks the proxy counts
\* as active connections are exactly the handlers that run, however they end.
TasksAreHandlers == server \in {"listening", "stopping"} => tasks = Handling

\* A connection stays open with no task left that uses it only when its
\* handler ended in an exception or a cancellation; every other end, of a
\* refusal or of a tunnel, closes what was opened.
OpenSocketsHaveATask ==
  \A c \in Conns : pc[c] = "done" /\ ~Forwarding(c) /\ ~aborted[c]
    => \A s \in Sides : socket[c][s] # "open"

\* A forward outlives its handler only if it is about to end, or if stop()
\* cancelled the handler while it relayed.
OnlyStopOrphans ==
  \A c \in Conns : pc[c] = "done" /\ ~orphaned[c]
    => \A s \in Sides : forward[c][s] \in {"none", "cancelled", "done"}

\* Somebody at the other end neither takes what it is sent nor closes.
Stalled(c) == \E s \in Sides :
  /\ ~gone[c][s]
  /\ forward[c][s] = "drain" \/ socket[c][s] = "closing"

TornDown(c) == ~Forwarding(c) /\ \A s \in Sides : socket[c][s] # "open"

\* "When either side closes, both directions are torn down", with a handler
\* or without one, unless the side that is left stalls.
EitherSideEndsBoth ==
  \A c \in Conns : (Forwarding(c) /\ \E s \in Sides : gone[c][s])
                     ~> (TornDown(c) \/ Stalled(c))

\* stop() ends, unless a connection was made in the moment it was cancelled:
\* that tunnel runs on, and stop() waits until its peers close it.
StopEnds == server = "stopping"
              ~> (server # "stopping" \/ \E c \in awaited : late[c])

\* app/proxy/tcp_proxy.py:84: "Stop the TCP proxy server and clean up active
\* connections." Once stop() is done, no tunnel whose handler ended goes on.
StopCleansUp ==
  server = "stopped" =>
    \A c \in Conns, s \in Sides :
      pc[c] = "done" => forward[c][s] \notin {"read", "drain"}
=============================================================================
