--------------------------- MODULE TcpProxyProofs ---------------------------
(***************************************************************************)
(* Proofs about TcpProxy, for any number of connections.                   *)
(*                                                                         *)
(* Every invariant but the first is a statement about one connection at a  *)
(* time, so a step is dealt with by what it does to its own connection.    *)
(***************************************************************************)
EXTENDS TcpProxy, TLAPS

LEMMA TypeInit == Init => TypeOK
BY DEF Init, TypeOK, Both, Sides

LEMMA TypeStep == TypeOK /\ [Next]_vars => TypeOK'
<1> SUFFICES ASSUME TypeOK, [Next]_vars PROVE TypeOK'
  OBVIOUS
<1> USE DEF loopVars, connVars, histVars, Sides
<1>1. ASSUME NEW c \in Conns, Accept(c) PROVE TypeOK'
  BY <1>1 DEF Accept, Goto, TypeOK
<1>2. ASSUME NEW c \in Conns, Begin(c) PROVE TypeOK'
  BY <1>2 DEF Begin, At, Goto, TypeOK
<1>3. ASSUME NEW c \in Conns, ReadNothing(c) PROVE TypeOK'
  BY <1>3 DEF ReadNothing, At, End, Close, Closing, TypeOK
<1>4. ASSUME NEW c \in Conns, ReadRequest(c) PROVE TypeOK'
  BY <1>4 DEF ReadRequest, At, Goto, TypeOK
<1>5. ASSUME NEW c \in Conns, Refuse(c) PROVE TypeOK'
  BY <1>5 DEF Refuse, At, Goto, TypeOK
<1>6. ASSUME NEW c \in Conns, Refused(c) PROVE TypeOK'
  BY <1>6 DEF Refused, At, End, Close, Closing, TypeOK
<1>7. ASSUME NEW c \in Conns, ConnectFails(c) PROVE TypeOK'
  BY <1>7 DEF ConnectFails, TypeOK
<1>8. ASSUME NEW c \in Conns, Connected(c) PROVE TypeOK'
  BY <1>8 DEF Connected, TypeOK
<1>9. ASSUME NEW c \in Conns, Replied(c) PROVE TypeOK'
  BY <1>9 DEF Replied, At, Goto, Both, TypeOK
<1>10. ASSUME NEW c \in Conns, RelayEnds(c) PROVE TypeOK'
  BY <1>10 DEF RelayEnds, At, End, Close, Closing, TypeOK
<1>11. ASSUME NEW c \in Conns, HandlerError(c) PROVE TypeOK'
  BY <1>11 DEF HandlerError, End, Aborts, TypeOK
<1>12. ASSUME NEW c \in Conns, Cancelled(c) PROVE TypeOK'
  BY <1>12 DEF Cancelled, End, Aborts, TypeOK
<1>13. ASSUME NEW c \in Conns, Forget(c) PROVE TypeOK'
  BY <1>13 DEF Forget, Both, TypeOK
<1>14. ASSUME NEW c \in Conns, NEW s \in Sides, ForwardSome(c, s) PROVE TypeOK'
  BY <1>14 DEF ForwardSome, TypeOK
<1>15. ASSUME NEW c \in Conns, NEW s \in Sides, Drained(c, s) PROVE TypeOK'
  BY <1>15 DEF Drained, TypeOK
<1>16. ASSUME NEW c \in Conns, NEW s \in Sides, ForwardEnds(c, s) PROVE TypeOK'
  BY <1>16 DEF ForwardEnds, ForwardStops, Close, Closing, TypeOK
<1>17. ASSUME NEW c \in Conns, NEW s \in Sides, PeerCloses(c, s) PROVE TypeOK'
  BY <1>17 DEF PeerCloses, TypeOK
<1>18. ASSUME NEW c \in Conns, NEW s \in Sides, Flushed(c, s) PROVE TypeOK'
  BY <1>18 DEF Flushed, TypeOK
<1>19. ASSUME Start PROVE TypeOK'
  BY <1>19 DEF Start, TypeOK
<1>20. ASSUME Stop PROVE TypeOK'
  BY <1>20 DEF Stop, TypeOK
<1>21. ASSUME Stopped PROVE TypeOK'
  BY <1>21 DEF Stopped, TypeOK
<1>22. ASSUME Exit PROVE TypeOK'
  BY <1>22 DEF Exit, Both, TypeOK
<1>23. CASE UNCHANGED vars
  BY <1>23 DEF vars, TypeOK
<1> QED
  BY <1>1, <1>2, <1>3, <1>4, <1>5, <1>6, <1>7, <1>8, <1>9, <1>10, <1>11, <1>12,
     <1>13, <1>14, <1>15, <1>16, <1>17, <1>18, <1>19, <1>20, <1>21, <1>22, <1>23 DEF Next, Handler, Relay

\* The type invariant of the proxy.
THEOREM TypeCorrect == Spec => []TypeOK
BY TypeInit, TypeStep, PTL DEF Spec

-----------------------------------------------------------------------------
(***************************************************************************)
(* The tasks the proxy counts. A server that is not up has no handlers, so *)
(* that start() finds none.                                                *)
(***************************************************************************)
TaskInv ==
  /\ TasksAreHandlers
  /\ server = "down" => tasks = {} /\ \A c \in Conns : pc[c] = "none"

LEMMA TaskInit == Init => TaskInv
BY DEF Init, TaskInv, TasksAreHandlers

LEMMA TaskStep == TypeOK /\ TaskInv /\ [Next]_vars => TaskInv'
<1> SUFFICES ASSUME TypeOK, TaskInv, [Next]_vars PROVE TaskInv'
  OBVIOUS
<1> USE DEF loopVars, connVars, histVars
<1>1. ASSUME NEW c \in Conns, Accept(c) PROVE TaskInv'
  BY <1>1 DEF Accept, Goto, TypeOK, TaskInv, TasksAreHandlers, Handling
<1>2. ASSUME NEW c \in Conns, Begin(c) PROVE TaskInv'
  BY <1>2 DEF Begin, At, Goto, TypeOK, TaskInv, TasksAreHandlers, Handling
<1>3. ASSUME NEW c \in Conns, ReadNothing(c) PROVE TaskInv'
  BY <1>3 DEF ReadNothing, At, End, Close, Closing, TypeOK, TaskInv, TasksAreHandlers, Handling
<1>4. ASSUME NEW c \in Conns, ReadRequest(c) PROVE TaskInv'
  BY <1>4 DEF ReadRequest, At, Goto, TypeOK, TaskInv, TasksAreHandlers, Handling
<1>5. ASSUME NEW c \in Conns, Refuse(c) PROVE TaskInv'
  BY <1>5 DEF Refuse, At, Goto, TypeOK, TaskInv, TasksAreHandlers, Handling
<1>6. ASSUME NEW c \in Conns, Refused(c) PROVE TaskInv'
  BY <1>6 DEF Refused, At, End, Close, Closing, TypeOK, TaskInv, TasksAreHandlers, Handling
<1>7. ASSUME NEW c \in Conns, ConnectFails(c) PROVE TaskInv'
  BY <1>7 DEF ConnectFails, TypeOK, TaskInv, TasksAreHandlers, Handling
<1>8. ASSUME NEW c \in Conns, Connected(c) PROVE TaskInv'
  BY <1>8 DEF Connected, TypeOK, TaskInv, TasksAreHandlers, Handling
<1>9. ASSUME NEW c \in Conns, Replied(c) PROVE TaskInv'
  BY <1>9 DEF Replied, At, Goto, Both, TypeOK, TaskInv, TasksAreHandlers, Handling
<1>10. ASSUME NEW c \in Conns, RelayEnds(c) PROVE TaskInv'
  BY <1>10 DEF RelayEnds, At, End, Close, Closing, TypeOK, TaskInv, TasksAreHandlers, Handling
<1>11. ASSUME NEW c \in Conns, HandlerError(c) PROVE TaskInv'
  BY <1>11 DEF HandlerError, End, Aborts, TypeOK, TaskInv, TasksAreHandlers, Handling
<1>12. ASSUME NEW c \in Conns, Cancelled(c) PROVE TaskInv'
  BY <1>12 DEF Cancelled, End, Aborts, TypeOK, TaskInv, TasksAreHandlers, Handling
<1>13. ASSUME NEW c \in Conns, Forget(c) PROVE TaskInv'
  BY <1>13 DEF Forget, Both, TypeOK, TaskInv, TasksAreHandlers, Handling
<1>14. ASSUME NEW c \in Conns, NEW s \in Sides, ForwardSome(c, s) PROVE TaskInv'
  BY <1>14 DEF ForwardSome, TypeOK, TaskInv, TasksAreHandlers, Handling
<1>15. ASSUME NEW c \in Conns, NEW s \in Sides, Drained(c, s) PROVE TaskInv'
  BY <1>15 DEF Drained, TypeOK, TaskInv, TasksAreHandlers, Handling
<1>16. ASSUME NEW c \in Conns, NEW s \in Sides, ForwardEnds(c, s) PROVE TaskInv'
  BY <1>16 DEF ForwardEnds, ForwardStops, Close, Closing, TypeOK, TaskInv, TasksAreHandlers, Handling
<1>17. ASSUME NEW c \in Conns, NEW s \in Sides, PeerCloses(c, s) PROVE TaskInv'
  BY <1>17 DEF PeerCloses, TypeOK, TaskInv, TasksAreHandlers, Handling
<1>18. ASSUME NEW c \in Conns, NEW s \in Sides, Flushed(c, s) PROVE TaskInv'
  BY <1>18 DEF Flushed, TypeOK, TaskInv, TasksAreHandlers, Handling
<1>19. ASSUME Start PROVE TaskInv'
  BY <1>19 DEF Start, TypeOK, TaskInv, TasksAreHandlers, Handling
<1>20. ASSUME Stop PROVE TaskInv'
  BY <1>20 DEF Stop, TypeOK, TaskInv, TasksAreHandlers, Handling
<1>21. ASSUME Stopped PROVE TaskInv'
  BY <1>21 DEF Stopped, TypeOK, TaskInv, TasksAreHandlers, Handling
<1>22. ASSUME Exit PROVE TaskInv'
  BY <1>22 DEF Exit, Both, TypeOK, TaskInv, TasksAreHandlers, Handling
<1>23. CASE UNCHANGED vars
  BY <1>23 DEF vars, TypeOK, TaskInv, TasksAreHandlers, Handling
<1> QED
  BY <1>1, <1>2, <1>3, <1>4, <1>5, <1>6, <1>7, <1>8, <1>9, <1>10, <1>11, <1>12,
     <1>13, <1>14, <1>15, <1>16, <1>17, <1>18, <1>19, <1>20, <1>21, <1>22, <1>23 DEF Next, Handler, Relay

\* While the proxy is up, the tasks it counts are the handlers that run: none
\* is forgotten early, and none that ended, in whatever way, is kept.
THEOREM TasksCounted == Spec => []TasksAreHandlers
<1>1. Spec => []TypeOK
  BY TypeCorrect
<1>2. TaskInv => TasksAreHandlers
  BY DEF TaskInv
<1> QED
  BY <1>1, <1>2, TaskInit, TaskStep, PTL DEF Spec

-----------------------------------------------------------------------------
(***************************************************************************)
(* What stays open. The connection to the target is not there before the   *)
(* handler has made it, and a handler that ends by itself leaves nothing   *)
(* open, whatever its forwards still do.                                   *)
(***************************************************************************)
OpenInv ==
  \A c \in Conns :
    /\ pc[c] \in {"none", "accepted", "reading", "connecting", "refusing"}
         => socket[c]["remote"] # "open"
    /\ pc[c] = "done" /\ ~aborted[c] => \A s \in Sides : socket[c][s] # "open"

LEMMA OpenInit == Init => OpenInv
BY DEF Init, OpenInv, Both, Sides

LEMMA OpenStep == TypeOK /\ OpenInv /\ [Next]_vars => OpenInv'
<1> SUFFICES ASSUME TypeOK, OpenInv, [Next]_vars PROVE OpenInv'
  OBVIOUS
<1> USE DEF loopVars, connVars, histVars, Sides
<1>1. ASSUME NEW c \in Conns, Accept(c) PROVE OpenInv'
  BY <1>1 DEF Accept, Goto, TypeOK, OpenInv
<1>2. ASSUME NEW c \in Conns, Begin(c) PROVE OpenInv'
  BY <1>2 DEF Begin, At, Goto, TypeOK, OpenInv
<1>3. ASSUME NEW c \in Conns, ReadNothing(c) PROVE OpenInv'
  BY <1>3 DEF ReadNothing, At, End, Close, Closing, TypeOK, OpenInv
<1>4. ASSUME NEW c \in Conns, ReadRequest(c) PROVE OpenInv'
  BY <1>4 DEF ReadRequest, At, Goto, TypeOK, OpenInv
<1>5. ASSUME NEW c \in Conns, Refuse(c) PROVE OpenInv'
  BY <1>5 DEF Refuse, At, Goto, TypeOK, OpenInv
<1>6. ASSUME NEW c \in Conns, Refused(c) PROVE OpenInv'
  BY <1>6 DEF Refused, At, End, Close, Closing, TypeOK, OpenInv
<1>7. ASSUME NEW c \in Conns, ConnectFails(c) PROVE OpenInv'
  BY <1>7 DEF ConnectFails, TypeOK, OpenInv
<1>8. ASSUME NEW c \in Conns, Connected(c) PROVE OpenInv'
  BY <1>8 DEF Connected, TypeOK, OpenInv
<1>9. ASSUME NEW c \in Conns, Replied(c) PROVE OpenInv'
  BY <1>9 DEF Replied, At, Goto, Both, TypeOK, OpenInv
<1>10. ASSUME NEW c \in Conns, RelayEnds(c) PROVE OpenInv'
  BY <1>10 DEF RelayEnds, At, End, Close, Closing, TypeOK, OpenInv
<1>11. ASSUME NEW c \in Conns, HandlerError(c) PROVE OpenInv'
  BY <1>11 DEF HandlerError, End, Aborts, TypeOK, OpenInv
<1>12. ASSUME NEW c \in Conns, Cancelled(c) PROVE OpenInv'
  BY <1>12 DEF Cancelled, End, Aborts, TypeOK, OpenInv
<1>13. ASSUME NEW c \in Conns, Forget(c) PROVE OpenInv'
  BY <1>13 DEF Forget, Both, TypeOK, OpenInv
<1>14. ASSUME NEW c \in Conns, NEW s \in Sides, ForwardSome(c, s) PROVE OpenInv'
  BY <1>14 DEF ForwardSome, TypeOK, OpenInv
<1>15. ASSUME NEW c \in Conns, NEW s \in Sides, Drained(c, s) PROVE OpenInv'
  BY <1>15 DEF Drained, TypeOK, OpenInv
<1>16. ASSUME NEW c \in Conns, NEW s \in Sides, ForwardEnds(c, s) PROVE OpenInv'
  BY <1>16 DEF ForwardEnds, ForwardStops, Close, Closing, TypeOK, OpenInv
<1>17. ASSUME NEW c \in Conns, NEW s \in Sides, PeerCloses(c, s) PROVE OpenInv'
  BY <1>17 DEF PeerCloses, TypeOK, OpenInv
<1>18. ASSUME NEW c \in Conns, NEW s \in Sides, Flushed(c, s) PROVE OpenInv'
  BY <1>18 DEF Flushed, TypeOK, OpenInv
<1>19. ASSUME Start PROVE OpenInv'
  BY <1>19 DEF Start, TypeOK, OpenInv
<1>20. ASSUME Stop PROVE OpenInv'
  BY <1>20 DEF Stop, TypeOK, OpenInv
<1>21. ASSUME Stopped PROVE OpenInv'
  BY <1>21 DEF Stopped, TypeOK, OpenInv
<1>22. ASSUME Exit PROVE OpenInv'
  BY <1>22 DEF Exit, Both, TypeOK, OpenInv
<1>23. CASE UNCHANGED vars
  BY <1>23 DEF vars, TypeOK, OpenInv
<1> QED
  BY <1>1, <1>2, <1>3, <1>4, <1>5, <1>6, <1>7, <1>8, <1>9, <1>10, <1>11, <1>12,
     <1>13, <1>14, <1>15, <1>16, <1>17, <1>18, <1>19, <1>20, <1>21, <1>22, <1>23 DEF Next, Handler, Relay

\* A refusal or a tunnel that ends closes everything it opened.
THEOREM EndsCloseSockets == Spec => []OpenSocketsHaveATask
<1>1. Spec => []TypeOK
  BY TypeCorrect
<1>2. OpenInv => OpenSocketsHaveATask
  BY DEF OpenInv, OpenSocketsHaveATask
<1> QED
  BY <1>1, <1>2, OpenInit, OpenStep, PTL DEF Spec

-----------------------------------------------------------------------------
(***************************************************************************)
(* Forwards without a handler. There are none before the handler relays.   *)
(***************************************************************************)
OrphanInv ==
  /\ OnlyStopOrphans
  /\ \A c \in Conns : pc[c] \notin {"relaying", "done"}
       => \A s \in Sides : forward[c][s] = "none"

LEMMA OrphanInit == Init => OrphanInv
BY DEF Init, OrphanInv, OnlyStopOrphans, Both

LEMMA OrphanStep == TypeOK /\ OrphanInv /\ [Next]_vars => OrphanInv'
<1> SUFFICES ASSUME TypeOK, OrphanInv, [Next]_vars PROVE OrphanInv'
  OBVIOUS
<1> USE DEF loopVars, connVars, histVars
<1>1. ASSUME NEW c \in Conns, Accept(c) PROVE OrphanInv'
  BY <1>1 DEF Accept, Goto, TypeOK, OrphanInv, OnlyStopOrphans
<1>2. ASSUME NEW c \in Conns, Begin(c) PROVE OrphanInv'
  BY <1>2 DEF Begin, At, Goto, TypeOK, OrphanInv, OnlyStopOrphans
<1>3. ASSUME NEW c \in Conns, ReadNothing(c) PROVE OrphanInv'
  BY <1>3 DEF ReadNothing, At, End, Close, Closing, TypeOK, OrphanInv, OnlyStopOrphans
<1>4. ASSUME NEW c \in Conns, ReadRequest(c) PROVE OrphanInv'
  BY <1>4 DEF ReadRequest, At, Goto, TypeOK, OrphanInv, OnlyStopOrphans
<1>5. ASSUME NEW c \in Conns, Refuse(c) PROVE OrphanInv'
  BY <1>5 DEF Refuse, At, Goto, TypeOK, OrphanInv, OnlyStopOrphans
<1>6. ASSUME NEW c \in Conns, Refused(c) PROVE OrphanInv'
  BY <1>6 DEF Refused, At, End, Close, Closing, TypeOK, OrphanInv, OnlyStopOrphans
<1>7. ASSUME NEW c \in Conns, ConnectFails(c) PROVE OrphanInv'
  BY <1>7 DEF ConnectFails, TypeOK, OrphanInv, OnlyStopOrphans
<1>8. ASSUME NEW c \in Conns, Connected(c) PROVE OrphanInv'
  BY <1>8 DEF Connected, TypeOK, OrphanInv, OnlyStopOrphans
<1>9. ASSUME NEW c \in Conns, Replied(c) PROVE OrphanInv'
  BY <1>9 DEF Replied, At, Goto, Both, TypeOK, OrphanInv, OnlyStopOrphans
<1>10. ASSUME NEW c \in Conns, RelayEnds(c) PROVE OrphanInv'
  BY <1>10 DEF RelayEnds, At, End, Close, Closing, TypeOK, OrphanInv, OnlyStopOrphans
<1>11. ASSUME NEW c \in Conns, HandlerError(c) PROVE OrphanInv'
  BY <1>11 DEF HandlerError, End, Aborts, TypeOK, OrphanInv, OnlyStopOrphans
<1>12. ASSUME NEW c \in Conns, Cancelled(c) PROVE OrphanInv'
  BY <1>12 DEF Cancelled, End, Aborts, TypeOK, OrphanInv, OnlyStopOrphans
<1>13. ASSUME NEW c \in Conns, Forget(c) PROVE OrphanInv'
  BY <1>13 DEF Forget, Both, TypeOK, OrphanInv, OnlyStopOrphans
<1>14. ASSUME NEW c \in Conns, NEW s \in Sides, ForwardSome(c, s) PROVE OrphanInv'
  BY <1>14 DEF ForwardSome, TypeOK, OrphanInv, OnlyStopOrphans
<1>15. ASSUME NEW c \in Conns, NEW s \in Sides, Drained(c, s) PROVE OrphanInv'
  BY <1>15 DEF Drained, TypeOK, OrphanInv, OnlyStopOrphans
<1>16. ASSUME NEW c \in Conns, NEW s \in Sides, ForwardEnds(c, s) PROVE OrphanInv'
  BY <1>16 DEF ForwardEnds, ForwardStops, Close, Closing, TypeOK, OrphanInv, OnlyStopOrphans
<1>17. ASSUME NEW c \in Conns, NEW s \in Sides, PeerCloses(c, s) PROVE OrphanInv'
  BY <1>17 DEF PeerCloses, TypeOK, OrphanInv, OnlyStopOrphans
<1>18. ASSUME NEW c \in Conns, NEW s \in Sides, Flushed(c, s) PROVE OrphanInv'
  BY <1>18 DEF Flushed, TypeOK, OrphanInv, OnlyStopOrphans
<1>19. ASSUME Start PROVE OrphanInv'
  BY <1>19 DEF Start, TypeOK, OrphanInv, OnlyStopOrphans
<1>20. ASSUME Stop PROVE OrphanInv'
  BY <1>20 DEF Stop, TypeOK, OrphanInv, OnlyStopOrphans
<1>21. ASSUME Stopped PROVE OrphanInv'
  BY <1>21 DEF Stopped, TypeOK, OrphanInv, OnlyStopOrphans
<1>22. ASSUME Exit PROVE OrphanInv'
  BY <1>22 DEF Exit, Both, TypeOK, OrphanInv, OnlyStopOrphans
<1>23. CASE UNCHANGED vars
  BY <1>23 DEF vars, TypeOK, OrphanInv, OnlyStopOrphans
<1> QED
  BY <1>1, <1>2, <1>3, <1>4, <1>5, <1>6, <1>7, <1>8, <1>9, <1>10, <1>11, <1>12,
     <1>13, <1>14, <1>15, <1>16, <1>17, <1>18, <1>19, <1>20, <1>21, <1>22, <1>23 DEF Next, Handler, Relay

\* Only a cancellation during the relay leaves a forward running alone.
THEOREM OrphansAreCancelled == Spec => []OnlyStopOrphans
<1>1. Spec => []TypeOK
  BY TypeCorrect
<1>2. OrphanInv => OnlyStopOrphans
  BY DEF OrphanInv
<1> QED
  BY <1>1, <1>2, OrphanInit, OrphanStep, PTL DEF Spec

-----------------------------------------------------------------------------
(***************************************************************************)
(* What stop() waits for. A cancellation is lost only where a connection   *)
(* is made, and that handler is remembered as late, or where it was        *)
(* refused, and that handler has only its error message left to send.      *)
(***************************************************************************)
\* stop() waits only for handlers that run and are to learn of their
\* cancellation, and for those that lost it in wait_for: their connection was
\* made in that moment, or they are about to send the client its error.
StopIsHeard ==
  server = "stopping" =>
    \A c \in awaited : c \in tasks /\ (cancel[c] \/ late[c] \/ pc[c] = "refusing")

StopInv ==
  /\ StopIsHeard
  /\ \A c \in Conns : late[c] => pc[c] \in {"replying", "relaying", "done"}
  /\ awaited \subseteq Conns /\ (server \in {"down", "listening"} => awaited = {})

LEMMA StopInit == Init => StopInv
BY DEF Init, StopInv, StopIsHeard

LEMMA StopStep == TypeOK /\ TaskInv /\ StopInv /\ [Next]_vars => StopInv'
<1> SUFFICES ASSUME TypeOK, TaskInv, StopInv, [Next]_vars PROVE StopInv'
  OBVIOUS
<1> USE DEF loopVars, connVars, histVars
<1>1. ASSUME NEW c \in Conns, Accept(c) PROVE StopInv'
  BY <1>1 DEF Accept, Goto, TypeOK, TaskInv, TasksAreHandlers, Handling, StopInv, StopIsHeard
<1>2. ASSUME NEW c \in Conns, Begin(c) PROVE StopInv'
  BY <1>2 DEF Begin, At, Goto, TypeOK, TaskInv, TasksAreHandlers, Handling, StopInv, StopIsHeard
<1>3. ASSUME NEW c \in Conns, ReadNothing(c) PROVE StopInv'
  BY <1>3 DEF ReadNothing, At, End, Close, Closing, TypeOK, TaskInv, TasksAreHandlers, Handling, StopInv, StopIsHeard
<1>4. ASSUME NEW c \in Conns, ReadRequest(c) PROVE StopInv'
  BY <1>4 DEF ReadRequest, At, Goto, TypeOK, TaskInv, TasksAreHandlers, Handling, StopInv, StopIsHeard
<1>5. ASSUME NEW c \in Conns, Refuse(c) PROVE StopInv'
  BY <1>5 DEF Refuse, At, Goto, TypeOK, TaskInv, TasksAreHandlers, Handling, StopInv, StopIsHeard
<1>6. ASSUME NEW c \in Conns, Refused(c) PROVE StopInv'
  BY <1>6 DEF Refused, At, End, Close, Closing, TypeOK, TaskInv, TasksAreHandlers, Handling, StopInv, StopIsHeard
<1>7. ASSUME NEW c \in Conns, ConnectFails(c) PROVE StopInv'
  BY <1>7 DEF ConnectFails, TypeOK, TaskInv, TasksAreHandlers, Handling, StopInv, StopIsHeard
<1>8. ASSUME NEW c \in Conns, Connected(c) PROVE StopInv'
  BY <1>8 DEF Connected, TypeOK, TaskInv, TasksAreHandlers, Handling, StopInv, StopIsHeard
<1>9. ASSUME NEW c \in Conns, Replied(c) PROVE StopInv'
  BY <1>9 DEF Replied, At, Goto, Both, TypeOK, TaskInv, TasksAreHandlers, Handling, StopInv, StopIsHeard
<1>10. ASSUME NEW c \in Conns, RelayEnds(c) PROVE StopInv'
  BY <1>10 DEF RelayEnds, At, End, Close, Closing, TypeOK, TaskInv, TasksAreHandlers, Handling, StopInv, StopIsHeard
<1>11. ASSUME NEW c \in Conns, HandlerError(c) PROVE StopInv'
  BY <1>11 DEF HandlerError, End, Aborts, TypeOK, TaskInv, TasksAreHandlers, Handling, StopInv, StopIsHeard
<1>12. ASSUME NEW c \in Conns, Cancelled(c) PROVE StopInv'
  BY <1>12 DEF Cancelled, End, Aborts, TypeOK, TaskInv, TasksAreHandlers, Handling, StopInv, StopIsHeard
<1>13. ASSUME NEW c \in Conns, Forget(c) PROVE StopInv'
  BY <1>13 DEF Forget, Both, TypeOK, TaskInv, TasksAreHandlers, Handling, StopInv, StopIsHeard
<1>14. ASSUME NEW c \in Conns, NEW s \in Sides, ForwardSome(c, s) PROVE StopInv'
  BY <1>14 DEF ForwardSome, TypeOK, TaskInv, TasksAreHandlers, Handling, StopInv, StopIsHeard
<1>15. ASSUME NEW c \in Conns, NEW s \in Sides, Drained(c, s) PROVE StopInv'
  BY <1>15 DEF Drained, TypeOK, TaskInv, TasksAreHandlers, Handling, StopInv, StopIsHeard
<1>16. ASSUME NEW c \in Conns, NEW s \in Sides, ForwardEnds(c, s) PROVE StopInv'
  BY <1>16 DEF ForwardEnds, ForwardStops, Close, Closing, TypeOK, TaskInv, TasksAreHandlers, Handling, StopInv, StopIsHeard
<1>17. ASSUME NEW c \in Conns, NEW s \in Sides, PeerCloses(c, s) PROVE StopInv'
  BY <1>17 DEF PeerCloses, TypeOK, TaskInv, TasksAreHandlers, Handling, StopInv, StopIsHeard
<1>18. ASSUME NEW c \in Conns, NEW s \in Sides, Flushed(c, s) PROVE StopInv'
  BY <1>18 DEF Flushed, TypeOK, TaskInv, TasksAreHandlers, Handling, StopInv, StopIsHeard
<1>19. ASSUME Start PROVE StopInv'
  BY <1>19 DEF Start, TypeOK, TaskInv, TasksAreHandlers, Handling, StopInv, StopIsHeard
<1>20. ASSUME Stop PROVE StopInv'
  BY <1>20 DEF Stop, TypeOK, TaskInv, TasksAreHandlers, Handling, StopInv, StopIsHeard
<1>21. ASSUME Stopped PROVE StopInv'
  BY <1>21 DEF Stopped, TypeOK, TaskInv, TasksAreHandlers, Handling, StopInv, StopIsHeard
<1>22. ASSUME Exit PROVE StopInv'
  BY <1>22 DEF Exit, Both, TypeOK, TaskInv, TasksAreHandlers, Handling, StopInv, StopIsHeard
<1>23. CASE UNCHANGED vars
  BY <1>23 DEF vars, TypeOK, TaskInv, TasksAreHandlers, Handling, StopInv, StopIsHeard
<1> QED
  BY <1>1, <1>2, <1>3, <1>4, <1>5, <1>6, <1>7, <1>8, <1>9, <1>10, <1>11, <1>12,
     <1>13, <1>14, <1>15, <1>16, <1>17, <1>18, <1>19, <1>20, <1>21, <1>22, <1>23 DEF Next, Handler, Relay

\* stop() never waits for a handler that will not hear of it, with the one
\* exception of asyncio.wait_for: what StopEnds rests on.
THEOREM StopWaitsForTheCancelled == Spec => []StopIsHeard
<1>1. Spec => []TypeOK
  BY TypeCorrect
<1>2. Spec => []TaskInv
  BY <1>1, TaskInit, TaskStep, PTL DEF Spec
<1>3. StopInv => StopIsHeard
  BY DEF StopInv
<1> QED
  BY <1>1, <1>2, <1>3, StopInit, StopStep, PTL DEF Spec
=============================================================================
