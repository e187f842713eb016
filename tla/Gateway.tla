-------------------------------- MODULE Gateway --------------------------------
(******************************************************************************)
(* The WebSocket gateway, the global message queue and the adapters' side of  *)
(* the connection.                                                            *)
(*                                                                            *)
(* Processes: every adapter runs RetryableConnection._connect_to_core; the    *)
(* Core runs one GatewayServer._handle_connection per accepted socket and one *)
(* MessageQueue.process_loop, whose handler answers through send_to_adapter.  *)
(* The ends of a socket do not learn of a broken path at the same time: each  *)
(* has its own keepalive.  That is where handlers of an old and of a new      *)
(* socket of one adapter overlap.                                             *)
(******************************************************************************)
EXTENDS Naturals, Sequences, SequencesExt

CONSTANTS
  Adapter,      \* adapter processes
  Name,         \* adapter ids
  NameOf,       \* [Adapter -> Name]: the adapter_id each process sends
  Trusted,      \* adapters that hold the configured auth_token
  Socket,       \* WebSocket connections; one is used again once it is closed
  None,         \* no socket, no adapter, no message
  Message,      \* platform messages, numbers in the order they are written
  Sender,       \* [Message -> Adapter]
  ReplyType,    \* [Message -> {"message", "ack"}]: a chat or a command answer
  MaxFaults     \* bound: broken paths, failing dispatches and Core restarts

ASSUME ConstantsOK ==
  /\ NameOf \in [Adapter -> Name]
  /\ Trusted \subseteq Adapter
  /\ None \notin Socket \cup Adapter \cup Message
  /\ Message \subseteq Nat
  /\ Sender \in [Message -> Adapter]
  /\ ReplyType \in [Message -> {"message", "ack"}]
  /\ MaxFaults \in Nat

VARIABLES
  connections,  \* [Name -> Socket or None]: GatewayServer._connections
  handler,      \* [Socket -> where its _handle_connection is]
  owner,        \* [Socket -> the adapter that dialled it]
  near, far,    \* [Socket -> BOOLEAN]: is the adapter's, the Core's end open
  cut,          \* sockets whose path is broken
  up, down,     \* [Socket -> Seq]: frames to the Core, frames to the adapter
  pc, ws,       \* [Adapter -> where _connect_to_core is], and its _ws
  queue,        \* MessageQueue._queue
  eng, msg,     \* where the queue's handler is, and the message it handles
  fate, via,    \* history: [Message -> what became of it, the socket it took]
  faults

socketVars == <<handler, owner, near, far, cut, up, down>>
adapterVars == <<pc, ws>>
engineVars == <<queue, eng, msg>>
vars == <<connections, socketVars, adapterVars, engineVars, fate, via, faults>>

\* "hello" is the handshake, "welcome" its ACK; a message number is the message on
\* its way up and the answer to it on its way down, an error answer is negative.
Hello == "hello"
Welcome == "welcome"
Frame == [type : {Hello, Welcome, "message", "ack", "error"}, msg : Message \cup {None}]
HelloFrame == [type |-> Hello, msg |-> None]
WelcomeFrame == [type |-> Welcome, msg |-> None]

\* Messages the queue's handler has taken out of the queue.
Taken == {"working", "answered", "unconnected", "failed", "delivered", "ignored",
          "answerLost"}

Fate == {"unsent", "dropped", "sent", "queued", "lost"} \cup Taken

\* Neither end holds the socket any more.
Free(s) == handler[s] = "ended" /\ ~near[s]

MessagesIn(frames) == {frames[i].msg : i \in DOMAIN frames} \ {None}

\* The fate of the messages of frames that never arrive.
Lose(fates, lostUp, lostDown) ==
  [m \in Message |->
     IF m \in lostUp THEN "lost"
     ELSE IF m \in lostDown THEN "answerLost" ELSE fates[m]]

--------------------------------------------------------------------------------
(* The adapter: RetryableConnection.                                          *)

\* websockets.connect succeeds and the handshake is sent.
Dial(a, s) ==
  /\ pc[a] = "dial"
  /\ Free(s) /\ \A b \in Adapter \ {a} : ws[b] # s
  /\ pc' = [pc EXCEPT ![a] = "hello"]
  /\ ws' = [ws EXCEPT ![a] = s]
  /\ handler' = [handler EXCEPT ![s] = "handshake"]
  /\ owner' = [owner EXCEPT ![s] = a]
  /\ near' = [near EXCEPT ![s] = TRUE]
  /\ far' = [far EXCEPT ![s] = TRUE]
  /\ cut' = cut \ {s}
  /\ up' = [up EXCEPT ![s] = <<HelloFrame>>]
  /\ down' = [down EXCEPT ![s] = <<>>]
  /\ UNCHANGED <<connections, engineVars, fate, via, faults>>

\* The first frame answers the handshake: whatever it says, the adapter listens.
RecvAck(a) ==
  /\ pc[a] = "hello"
  /\ down[ws[a]] # <<>>
  /\ down' = [down EXCEPT ![ws[a]] = Tail(@)]
  /\ pc' = [pc EXCEPT ![a] = "listen"]
  /\ UNCHANGED <<connections, handler, owner, near, far, cut, up, ws, engineVars,
                 fate, via, faults>>

\* Mutation: the loop ends when it is not welcomed.
HelloFailsForGood(a) ==
  /\ pc[a] = "hello"
  /\ ~near[ws[a]]
  /\ down[ws[a]] = <<>>
  /\ pc' = [pc EXCEPT ![a] = "stopped"]
  /\ ws' = [ws EXCEPT ![a] = None]
  /\ UNCHANGED <<connections, socketVars, engineVars, fate, via, faults>>

\* recv raises before the handshake is answered: forget the socket, wait, retry.
HelloFails(a) ==
  /\ pc[a] = "hello"
  /\ ~near[ws[a]]
  /\ down[ws[a]] = <<>>
  /\ pc' = [pc EXCEPT ![a] = "backoff"]
  /\ ws' = [ws EXCEPT ![a] = None]
  /\ UNCHANGED <<connections, socketVars, engineVars, fate, via, faults>>

\* The types _listen_core passes on to _dispatch_core_message.
Dispatched == {"message", "heartbeat_message", "error"}

\* Mutation: one frame is read per connection.
ListenOnce(a) ==
  /\ pc[a] = "listen"
  /\ down[ws[a]] # <<>>
  /\ LET f == Head(down[ws[a]])
     IN  fate' = IF f.msg = None THEN fate
                 ELSE [fate EXCEPT ![f.msg] =
                         IF f.type \in Dispatched THEN "delivered" ELSE "ignored"]
  /\ down' = [down EXCEPT ![ws[a]] = Tail(@)]
  /\ pc' = [pc EXCEPT ![a] = "dial"]
  /\ UNCHANGED <<connections, handler, owner, near, far, cut, up, ws,
                 engineVars, via, faults>>

\* One frame of _listen_core.
Listen(a) ==
  /\ pc[a] = "listen"
  /\ down[ws[a]] # <<>>
  /\ LET f == Head(down[ws[a]])
     IN  fate' = IF f.msg = None THEN fate
                 ELSE [fate EXCEPT ![f.msg] =
                         IF f.type \in Dispatched THEN "delivered" ELSE "ignored"]
  /\ down' = [down EXCEPT ![ws[a]] = Tail(@)]
  /\ UNCHANGED <<connections, handler, owner, near, far, cut, up, adapterVars,
                 engineVars, via, faults>>

\* _dispatch_core_message raises: the loop forgets a socket that is still open.
DispatchRaises(a) ==
  /\ pc[a] = "listen"
  /\ down[ws[a]] # <<>>
  /\ faults < MaxFaults
  /\ faults' = faults + 1
  /\ Head(down[ws[a]]).type \in Dispatched
  /\ fate' = Lose(fate, {}, MessagesIn(down[ws[a]]))
  /\ down' = [down EXCEPT ![ws[a]] = <<>>]
  /\ pc' = [pc EXCEPT ![a] = "backoff"]
  /\ ws' = [ws EXCEPT ![a] = None]
  /\ UNCHANGED <<connections, handler, owner, near, far, cut, up, engineVars, via>>

\* The iteration of _listen_core ends: dial again at once, with _ws still set.
ListenEnds(a) ==
  /\ pc[a] = "listen"
  /\ ~near[ws[a]]
  /\ down[ws[a]] = <<>>
  /\ pc' = [pc EXCEPT ![a] = "dial"]
  /\ UNCHANGED <<connections, socketVars, ws, engineVars, fate, via, faults>>

\* asyncio.sleep(backoff) is over.
BackoffEnds(a) ==
  /\ pc[a] = "backoff"
  /\ pc' = [pc EXCEPT ![a] = "dial"]
  /\ UNCHANGED <<connections, socketVars, ws, engineVars, fate, via, faults>>

\* _forward_to_core: the user's message is sent, or dropped when there is no open
\* socket.
Forward(m) ==
  LET a == Sender[m]
      s == ws[a]
      open == s # None /\ near[s]
  IN  /\ fate[m] = "unsent"
      /\ \A n \in Message : n < m /\ Sender[n] = a => fate[n] # "unsent"
      /\ IF open
           THEN /\ via' = [via EXCEPT ![m] = s]
                /\ IF s \in cut \/ ~far[s]
                     THEN fate' = [fate EXCEPT ![m] = "lost"] /\ UNCHANGED up
                     ELSE /\ fate' = [fate EXCEPT ![m] = "sent"]
                          /\ up' = [up EXCEPT ![s] =
                                      Append(@, [type |-> "message", msg |-> m])]
           ELSE /\ fate' = [fate EXCEPT ![m] = "dropped"]
                /\ UNCHANGED <<up, via>>
      /\ UNCHANGED <<connections, handler, owner, near, far, cut, down, adapterVars,
                     engineVars, faults>>

--------------------------------------------------------------------------------
(* The Core's handler of one socket: GatewayServer._handle_connection.        *)

ClaimedName(s) == NameOf[owner[s]]

\* Mutation: the finally clause is missing.
NeverUnregister(s) == UNCHANGED connections

\* The finally clause, by adapter id alone.
Unregister(s) ==
  connections' = [connections EXCEPT ![ClaimedName(s)] = None]

\* The handler returns: its end of the socket is closed, what it had not read is
\* lost.
Close(s) ==
  /\ handler' = [handler EXCEPT ![s] = "ended"]
  /\ far' = [far EXCEPT ![s] = FALSE]
  /\ fate' = Lose(fate, MessagesIn(up[s]), {})
  /\ up' = [up EXCEPT ![s] = <<>>]

\* The handshake names a trusted adapter: register the socket, send the ACK.
Accept(s) ==
  /\ handler[s] = "handshake"
  /\ up[s] # <<>>
  /\ owner[s] \in Trusted
  /\ far[s]
  /\ connections' = [connections EXCEPT ![ClaimedName(s)] = s]
  /\ handler' = [handler EXCEPT ![s] = "serving"]
  /\ up' = [up EXCEPT ![s] = Tail(@)]
  /\ down' = [down EXCEPT ![s] = IF s \in cut THEN @ ELSE Append(@, WelcomeFrame)]
  /\ UNCHANGED <<owner, near, far, cut, adapterVars, engineVars, fate, via, faults>>

\* The socket is registered, the ACK raises, and the finally clause runs.
AcceptRaises(s) ==
  /\ handler[s] = "handshake"
  /\ up[s] # <<>>
  /\ owner[s] \in Trusted
  /\ ~far[s]
  /\ Unregister(s)
  /\ Close(s)
  /\ UNCHANGED <<owner, near, cut, down, adapterVars, engineVars, via, faults>>

\* The token is wrong: websocket.close(1008).
Reject(s) ==
  /\ handler[s] = "handshake"
  /\ up[s] # <<>>
  /\ owner[s] \notin Trusted
  /\ handler' = [handler EXCEPT ![s] = "rejecting"]
  /\ far' = [far EXCEPT ![s] = FALSE]
  /\ UNCHANGED <<connections, owner, near, cut, up, down, adapterVars, engineVars,
                 fate, via, faults>>

\* The close handshake is over; the finally clause runs for a handler that never
\* registered anything.
RejectEnds(s) ==
  /\ handler[s] = "rejecting"
  /\ Unregister(s)
  /\ Close(s)
  /\ UNCHANGED <<owner, near, cut, down, adapterVars, engineVars, via, faults>>

\* No handshake arrives, or the socket closes first; adapter_id is still None.
HandshakeFails(s) ==
  /\ handler[s] = "handshake"
  /\ up[s] = <<>>
  /\ Close(s)
  /\ UNCHANGED <<connections, owner, near, cut, down, adapterVars, engineVars, via,
                 faults>>

\* One frame of the receive loop.
Receive(s) ==
  /\ handler[s] = "serving"
  /\ up[s] # <<>>
  /\ LET m == Head(up[s]).msg
     IN  /\ queue' = Append(queue, m)
         /\ fate' = [fate EXCEPT ![m] = "queued"]
  /\ up' = [up EXCEPT ![s] = Tail(@)]
  /\ UNCHANGED <<connections, handler, owner, near, far, cut, down, adapterVars,
                 eng, msg, via, faults>>

\* The receive loop ends: closed by the adapter, or given up by the keepalive.
ServingEnds(s) ==
  /\ handler[s] = "serving"
  /\ up[s] = <<>>
  /\ ~far[s] \/ (~near[s] /\ s \notin cut)
  /\ Unregister(s)
  /\ Close(s)
  /\ UNCHANGED <<owner, near, cut, down, adapterVars, engineVars, via, faults>>

--------------------------------------------------------------------------------
(* The queue and its handler: MessageQueue.process_loop, handle_message.      *)

\* Mutation: the newest message is taken first.
TakeNewest ==
  /\ eng = "idle"
  /\ queue # <<>>
  /\ msg' = Last(queue)
  /\ queue' = Front(queue)
  /\ eng' = "reply"
  /\ fate' = [fate EXCEPT ![msg'] = "working"]
  /\ UNCHANGED <<connections, socketVars, adapterVars, via, faults>>

Take ==
  /\ eng = "idle"
  /\ queue # <<>>
  /\ msg' = Head(queue)
  /\ queue' = Tail(queue)
  /\ eng' = "reply"
  /\ fate' = [fate EXCEPT ![msg'] = "working"]
  /\ UNCHANGED <<connections, socketVars, adapterVars, via, faults>>

\* send_to_adapter writes f on the registered socket, if it can.
Target == connections[NameOf[Sender[msg]]]

Write(type) ==
  LET s == Target
  IN  IF s \in cut
        THEN /\ fate' = [fate EXCEPT ![msg] = "answerLost"]
             /\ UNCHANGED down
        ELSE /\ fate' = [fate EXCEPT ![msg] = "answered"]
             /\ down' = [down EXCEPT ![s] = Append(@, [type |-> type, msg |-> msg])]

Finish == eng' = "idle" /\ msg' = None

\* The answer is written, or nobody is registered under the name.
Send(type) ==
  /\ \/ /\ Target = None
        /\ fate' = [fate EXCEPT ![msg] = "unconnected"]
        /\ UNCHANGED down
     \/ /\ Target # None
        /\ far[Target]
        /\ Write(type)
  /\ Finish
  /\ UNCHANGED <<connections, handler, owner, near, far, cut, up, adapterVars, queue,
                 via, faults>>

Reply == eng = "reply" /\ Send(ReplyType[msg])

\* Mutation: a message whose answer could not be sent is tried again later.
ReplyPutsBack ==
  /\ eng = "reply"
  /\ Target # None
  /\ ~far[Target]
  /\ Finish
  /\ queue' = Append(queue, msg)
  /\ fate' = [fate EXCEPT ![msg] = "queued"]
  /\ UNCHANGED <<connections, socketVars, adapterVars, via, faults>>

\* The registered socket is closed: send raises, handle_message catches.
ReplyRaises ==
  /\ eng = "reply"
  /\ Target # None
  /\ ~far[Target]
  /\ eng' = "error"
  /\ UNCHANGED <<connections, socketVars, adapterVars, queue, msg, fate, via, faults>>

\* The error answer goes to whatever socket is registered by now.
ErrorReply == eng = "error" /\ Send("error")

\* Mutation: the exception leaves process_loop.
ErrorReplyKillsLoop ==
  /\ eng = "error"
  /\ Target # None
  /\ ~far[Target]
  /\ eng' = "dead"
  /\ msg' = None
  /\ fate' = [fate EXCEPT ![msg] = "failed"]
  /\ UNCHANGED <<connections, socketVars, adapterVars, queue, via, faults>>

\* It raises too, and is only logged.
ErrorReplyRaises ==
  /\ eng = "error"
  /\ Target # None
  /\ ~far[Target]
  /\ Finish
  /\ fate' = [fate EXCEPT ![msg] = "failed"]
  /\ UNCHANGED <<connections, socketVars, adapterVars, queue, via, faults>>

--------------------------------------------------------------------------------
(* The network and the process.                                               *)

\* The path breaks: of the frames on their way some prefix has arrived.
Cut(s) ==
  /\ near[s] /\ far[s]
  /\ s \notin cut
  /\ faults < MaxFaults
  /\ faults' = faults + 1
  /\ cut' = cut \cup {s}
  /\ \E i \in 0..Len(up[s]), j \in 0..Len(down[s]) :
       /\ up' = [up EXCEPT ![s] = SubSeq(@, 1, i)]
       /\ down' = [down EXCEPT ![s] = SubSeq(@, 1, j)]
       /\ fate' = Lose(fate, MessagesIn(SubSeq(up[s], i + 1, Len(up[s]))),
                             MessagesIn(SubSeq(down[s], j + 1, Len(down[s]))))
  /\ UNCHANGED <<connections, handler, owner, near, far, adapterVars, engineVars, via>>

\* The adapter's end learns that the Core's is closed, or that the path is broken.
NearCloses(s) ==
  /\ near[s]
  /\ s \in cut \/ ~far[s]
  /\ near' = [near EXCEPT ![s] = FALSE]
  /\ UNCHANGED <<connections, handler, owner, far, cut, up, down, adapterVars,
                 engineVars, fate, via, faults>>

\* The Core's keepalive gives up a broken path.
FarCloses(s) ==
  /\ far[s]
  /\ s \in cut
  /\ far' = [far EXCEPT ![s] = FALSE]
  /\ UNCHANGED <<connections, handler, owner, near, cut, up, down, adapterVars,
                 engineVars, fate, via, faults>>

\* The Core is stopped and started: the queue and the handlers are gone.
CoreRestart ==
  /\ faults < MaxFaults
  /\ faults' = faults + 1
  /\ connections' = [n \in Name |-> None]
  /\ handler' = [s \in Socket |-> "ended"]
  /\ far' = [s \in Socket |-> FALSE]
  /\ up' = [s \in Socket |-> <<>>]
  /\ queue' = <<>>
  /\ Finish
  /\ fate' = Lose(fate, {m \in Message : fate[m] \in {"sent", "queued", "working"}}, {})
  /\ UNCHANGED <<owner, near, cut, down, adapterVars, via>>

--------------------------------------------------------------------------------

Init ==
  /\ connections = [n \in Name |-> None]
  /\ handler = [s \in Socket |-> "ended"]
  /\ owner = [s \in Socket |-> None]
  /\ near = [s \in Socket |-> FALSE] /\ far = [s \in Socket |-> FALSE]
  /\ cut = {}
  /\ up = [s \in Socket |-> <<>>] /\ down = [s \in Socket |-> <<>>]
  /\ pc = [a \in Adapter |-> "dial"] /\ ws = [a \in Adapter |-> None]
  /\ queue = <<>> /\ eng = "idle" /\ msg = None
  /\ fate = [m \in Message |-> "unsent"] /\ via = [m \in Message |-> None]
  /\ faults = 0

Connecting(a) ==
  \/ \E s \in Socket : Dial(a, s)
  \/ RecvAck(a)
  \/ HelloFails(a)
  \/ Listen(a)
  \/ ListenEnds(a)
  \/ BackoffEnds(a)

Handling(s) ==
  \/ Accept(s)
  \/ AcceptRaises(s)
  \/ Reject(s)
  \/ RejectEnds(s)
  \/ HandshakeFails(s)
  \/ Receive(s)
  \/ ServingEnds(s)

Engine == Take \/ Reply \/ ReplyRaises \/ ErrorReply \/ ErrorReplyRaises

Network(s) == Cut(s) \/ NearCloses(s) \/ FarCloses(s)

Next ==
  \/ \E a \in Adapter : Connecting(a) \/ DispatchRaises(a)
  \/ \E m \in Message : Forward(m)
  \/ \E s \in Socket : Handling(s) \/ Network(s)
  \/ Engine
  \/ CoreRestart

Spec == Init /\ [][Next]_vars

\* Every task of every process is resumed; both keepalives detect a broken path.
Fairness ==
  /\ \A a \in Adapter : WF_vars(Connecting(a))
  /\ \A s \in Socket : /\ WF_vars(Handling(s))
                       /\ WF_vars(NearCloses(s))
                       /\ WF_vars(FarCloses(s))
  /\ WF_vars(Engine)

FairSpec == Spec /\ Fairness

--------------------------------------------------------------------------------
(* Properties.                                                                *)

TypeOK ==
  /\ connections \in [Name -> Socket \cup {None}]
  /\ handler \in [Socket -> {"ended", "handshake", "rejecting", "serving"}]
  /\ owner \in [Socket -> Adapter \cup {None}]
  /\ \A s \in Socket : handler[s] # "ended" => owner[s] # None
  /\ near \in [Socket -> BOOLEAN] /\ far \in [Socket -> BOOLEAN]
  /\ cut \subseteq Socket
  /\ up \in [Socket -> Seq(Frame)] /\ down \in [Socket -> Seq(Frame)]
  /\ pc \in [Adapter -> {"dial", "hello", "listen", "backoff"}]
  /\ ws \in [Adapter -> Socket \cup {None}]
  /\ \A a \in Adapter : pc[a] \in {"hello", "listen"} => ws[a] # None
  /\ queue \in Seq(Message)
  /\ eng \in {"idle", "reply", "error"}
  /\ msg \in Message \cup {None} /\ (eng # "idle" => msg # None)
  /\ fate \in [Message -> Fate] /\ via \in [Message -> Socket \cup {None}]
  /\ faults \in 0..MaxFaults

\* send_to_adapter never picks the socket of a handler that has ended, of another
\* adapter, or of one whose token was refused, however connects, closes and
\* refusals of several sockets overlap.
RegisteredIsServed ==
  \A n \in Name :
    LET s == connections[n]
    IN  s # None => /\ handler[s] = "serving"
                    /\ ClaimedName(s) = n
                    /\ owner[s] \in Trusted

\* Messages that took the same connection are answered in the order in which the
\* adapter wrote them, whatever broke in between: one that was overtaken was lost.
InOrder ==
  \A m, n \in Message :
    /\ m < n /\ Sender[m] = Sender[n]
    /\ via[m] # None /\ via[m] = via[n]
    /\ fate[n] \in Taken
    => fate[m] \in Taken \cup {"lost"}

\* An answer travels only to an adapter that was trusted and gave the name of the one the
\* message came from, whoever has registered and left under that name in between.
AnswersComeHome ==
  \A s \in Socket : \A i \in DOMAIN down[s] :
    LET m == down[s][i].msg
    IN  m # None => owner[s] \in Trusted /\ ClaimedName(s) = NameOf[Sender[m]]

\* What became of a message, as a user sees it.
StageOf(f) ==
  CASE f = "unsent" -> "unwritten"
    [] f \in {"sent", "queued"} -> "underway"
    [] f = "working" -> "handled"
    [] f = "answered" -> "answered"
    [] f = "delivered" -> "shown"
    [] OTHER -> "gone"

Channel == INSTANCE Delivery
  WITH stage <- [m \in Message |-> StageOf(fate[m])], route <- via, Connection <- Socket

\* Sockets, handlers, queue and restarts together keep what Delivery promises of a message.
DeliverySpec == Channel!Spec

\* A message that reached the queue is taken from it and given up or answered, even
\* if answers to others raise (test_handler_error_does_not_stop_loop).
QueueDrains ==
  \A m \in Message : fate[m] = "queued" ~> fate[m] \notin {"queued", "working"}

\* Once faults are over, a trusted adapter ends up listening, whatever state its
\* connection was in (RetryableConnection._connect_to_core).
Reconnects ==
  \A a \in Trusted : <>[](pc[a] = "listen")

\* While no path breaks and the Core stays up, a message a trusted adapter sent is
\* answered on the socket the adapter listens to.
AnsweredUnlessFault ==
  \A m \in Message :
    fate[m] = "sent" /\ Sender[m] \in Trusted
      ~> fate[m] \in {"delivered", "ignored"} \/ faults > 0

\* A connected adapter can be reached: once faults are over and it listens, it is
\* registered under its name.
ListeningIsReachable ==
  \A a \in Trusted : <>[](pc[a] = "listen" => connections[NameOf[a]] # None)

\* No answer that reaches the adapter is thrown away by it.
AnswersAreShown ==
  \A m \in Message : fate[m] # "ignored"
================================================================================
