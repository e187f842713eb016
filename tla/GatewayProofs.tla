----------------------------- MODULE GatewayProofs -----------------------------
(******************************************************************************)
(* Proofs about Gateway, for all sets of adapters, names, sockets and         *)
(* messages and any number of faults.                                         *)
(******************************************************************************)
EXTENDS Gateway, TLAPS

USE DEF socketVars, adapterVars, engineVars

\* Frames that carry a message may follow the handshake and nothing else; a handler that
\* serves has read the handshake.  Without it the type of the queue is not inductive.
FramesOK ==
  \A s \in Socket : \A i \in DOMAIN up[s] :
    handler[s] = "serving" \/ i > 1 => up[s][i].msg \in Message

IInv == TypeOK /\ FramesOK /\ RegisteredIsServed

--------------------------------------------------------------------------------
(* Sequences of frames.                                                       *)

\* The message of a frame, if it has one.
LEMMA FrameAt ==
  ASSUME NEW q \in Seq(Frame), NEW i \in DOMAIN q
  PROVE  q[i] \in Frame /\ q[i].msg \in Message \cup {None}
<1>1. q[i] \in Frame
  OBVIOUS
<1> QED
  BY <1>1 DEF Frame

\* What is left after the first frame.
LEMMA TailOfFrames ==
  ASSUME NEW q \in Seq(Frame), q # <<>>
  PROVE  /\ Head(q) \in Frame /\ Tail(q) \in Seq(Frame)
         /\ \A i \in DOMAIN Tail(q) : i + 1 \in DOMAIN q /\ Tail(q)[i] = q[i + 1] /\ i + 1 > 1
  OBVIOUS

\* A frame more.
LEMMA AppendToFrames ==
  ASSUME NEW q \in Seq(Frame), NEW f \in Frame
  PROVE  /\ Append(q, f) \in Seq(Frame)
         /\ \A i \in DOMAIN Append(q, f) :
              Append(q, f)[i] = f \/ (i \in DOMAIN q /\ Append(q, f)[i] = q[i])
  OBVIOUS

\* The frames that arrived before a path broke.
LEMMA PrefixOfFrames ==
  ASSUME NEW q \in Seq(Frame), NEW n \in 0..Len(q)
  PROVE  /\ SubSeq(q, 1, n) \in Seq(Frame)
         /\ \A i \in DOMAIN SubSeq(q, 1, n) : i \in DOMAIN q /\ SubSeq(q, 1, n)[i] = q[i]
  OBVIOUS

\* Losing messages leaves every message with a fate.
LEMMA LoseType ==
  ASSUME NEW f \in [Message -> Fate], NEW A, NEW B
  PROVE  Lose(f, A, B) \in [Message -> Fate]
  BY DEF Lose, Fate, Taken

--------------------------------------------------------------------------------

LEMMA InitIInv == Init => IInv
<1> SUFFICES ASSUME Init PROVE IInv
  OBVIOUS
<1> USE ConstantsOK DEF ConstantsOK
<1>1. TypeOK
  BY DEF Init, TypeOK, Fate
<1>2. FramesOK /\ RegisteredIsServed
  BY DEF Init, FramesOK, RegisteredIsServed
<1> QED
  BY <1>1, <1>2 DEF IInv

\* The adapter's loop: only Dial touches a handler, and one that is not registered.
LEMMA AdapterStep ==
  ASSUME IInv, NEW a \in Adapter, Connecting(a) \/ DispatchRaises(a)
  PROVE  IInv'
<1> USE ConstantsOK DEF ConstantsOK, IInv, TypeOK
<1>1. ASSUME NEW s \in Socket, Dial(a, s) PROVE IInv'
  <2>1. TypeOK'
    <3>1. <<HelloFrame>> \in Seq(Frame) /\ <<>> \in Seq(Frame)
      BY DEF HelloFrame, Hello, Frame
    <3>2. up' \in [Socket -> Seq(Frame)] /\ down' \in [Socket -> Seq(Frame)]
      BY <1>1, <3>1 DEF Dial
    <3> QED
      BY <1>1, <3>2 DEF Dial
  <2>2. FramesOK'
    BY <1>1 DEF Dial, Free, FramesOK
  <2>3. RegisteredIsServed'
    BY <1>1 DEF Dial, Free, RegisteredIsServed, ClaimedName
  <2> QED
    BY <2>1, <2>2, <2>3
<1>2. ASSUME /\ UNCHANGED <<connections, handler, owner, up>>
             /\ TypeOK'
      PROVE  IInv'
  BY <1>2 DEF FramesOK, RegisteredIsServed, ClaimedName
<1>3. CASE RecvAck(a)
  <2>1. ws[a] \in Socket /\ Tail(down[ws[a]]) \in Seq(Frame)
    BY <1>3, TailOfFrames DEF RecvAck
  <2>2. TypeOK'
    BY <1>3, <2>1 DEF RecvAck
  <2> QED
    BY <1>2, <1>3, <2>2 DEF RecvAck
<1>4. CASE HelloFails(a) \/ ListenEnds(a) \/ BackoffEnds(a)
  <2>1. TypeOK'
    <3>1. CASE HelloFails(a)
      BY <3>1 DEF HelloFails
    <3>2. CASE ListenEnds(a)
      BY <3>2 DEF ListenEnds
    <3>3. CASE BackoffEnds(a)
      BY <3>3 DEF BackoffEnds
    <3> QED
      BY <1>4, <3>1, <3>2, <3>3
  <2> QED
    BY <1>2, <1>4, <2>1 DEF HelloFails, ListenEnds, BackoffEnds
<1>5. CASE Listen(a)
  <2>1. /\ ws[a] \in Socket
        /\ Head(down[ws[a]]) \in Frame /\ Tail(down[ws[a]]) \in Seq(Frame)
    BY <1>5, TailOfFrames DEF Listen
  <2>2. fate' \in [Message -> Fate]
    BY <1>5, <2>1 DEF Listen, Frame, Fate, Taken
  <2>3. TypeOK'
    BY <1>5, <2>1, <2>2 DEF Listen
  <2> QED
    BY <1>2, <1>5, <2>3 DEF Listen
<1>6. CASE DispatchRaises(a)
  <2>1. fate' \in [Message -> Fate]
    BY <1>6, LoseType DEF DispatchRaises
  <2>2. TypeOK'
    BY <1>6, <2>1 DEF DispatchRaises
  <2> QED
    BY <1>2, <1>6, <2>2 DEF DispatchRaises
<1> QED
  BY <1>1, <1>3, <1>4, <1>5, <1>6 DEF Connecting

\* A message that is written follows the handshake.
LEMMA ForwardStep ==
  ASSUME IInv, NEW m \in Message, Forward(m)
  PROVE  IInv'
<1> USE ConstantsOK DEF ConstantsOK, IInv, TypeOK
<1> DEFINE s == ws[Sender[m]]
           f == [type |-> "message", msg |-> m]
<1>1. f \in Frame
  BY DEF Frame
<1> /\ s \in Socket \cup {None}
    /\ fate' \in [Message -> Fate] /\ via' \in [Message -> Socket \cup {None}]
  <2>1. s \in Socket \cup {None}
    OBVIOUS
  <2>2. CASE s # None /\ near[s]
    BY <2>1, <2>2 DEF Forward, Fate
  <2>3. CASE ~(s # None /\ near[s])
    BY <2>1, <2>3 DEF Forward, Fate
  <2> QED
    BY <2>1, <2>2, <2>3
<1>2. CASE UNCHANGED up
  <2>1. TypeOK'
    BY <1>2 DEF Forward
  <2> QED
    BY <1>2, <2>1 DEF Forward, FramesOK, RegisteredIsServed, ClaimedName
<1>3. CASE s \in Socket /\ up' = [up EXCEPT ![s] = Append(@, f)]
  <2>1. TypeOK'
    <3>1. up' \in [Socket -> Seq(Frame)]
      BY <1>1, <1>3, AppendToFrames
    <3> QED
      BY <3>1 DEF Forward
  <2>2. FramesOK'
    BY <1>1, <1>3, AppendToFrames DEF Forward, FramesOK
  <2>3. RegisteredIsServed'
    BY DEF Forward, RegisteredIsServed, ClaimedName
  <2> QED
    BY <2>1, <2>2, <2>3
<1> QED
  BY <1>2, <1>3 DEF Forward

--------------------------------------------------------------------------------
(* The handlers of the Core.                                                  *)

\* A handler that ends takes its own registration with it, if it has one, and every
\* other name keeps a handler that serves it.
LEMMA UnregisterAndClose ==
  ASSUME IInv, NEW s \in Socket, handler[s] # "ended", Unregister(s), Close(s),
         UNCHANGED <<owner, near, cut, down, adapterVars, engineVars, via, faults>>
  PROVE  IInv'
<1> USE ConstantsOK DEF ConstantsOK, IInv, TypeOK
<1>1. fate' \in [Message -> Fate]
  BY LoseType DEF Close
<1>2. TypeOK'
  <2>1. connections' \in [Name -> Socket \cup {None}]
    BY DEF Unregister
  <2>2. up' \in [Socket -> Seq(Frame)]
    <3>1. <<>> \in Seq(Frame)
      OBVIOUS
    <3> QED
      BY <3>1 DEF Close
  <2>3. handler' \in [Socket -> {"ended", "handshake", "rejecting", "serving"}]
    BY DEF Close
  <2> QED
    BY <1>1, <2>1, <2>2, <2>3 DEF Close
<1>3. FramesOK'
  BY DEF Close, FramesOK
<1>4. RegisteredIsServed'
  BY DEF Close, Unregister, RegisteredIsServed, ClaimedName
<1> QED
  BY <1>2, <1>3, <1>4

LEMMA HandlerStep ==
  ASSUME IInv, NEW s \in Socket, Handling(s)
  PROVE  IInv'
<1> USE ConstantsOK DEF ConstantsOK, IInv, TypeOK
<1>1. CASE Accept(s)
  <2>1. WelcomeFrame \in Frame
    BY DEF WelcomeFrame, Welcome, Frame
  <2>2. ClaimedName(s) \in Name
    BY <1>1 DEF Accept, ClaimedName
  <2>3. TypeOK'
    BY <1>1, <2>1, <2>2, TailOfFrames, AppendToFrames DEF Accept
  <2>4. FramesOK'
    BY <1>1, TailOfFrames DEF Accept, FramesOK
  <2>5. RegisteredIsServed'
    BY <1>1 DEF Accept, RegisteredIsServed, ClaimedName
  <2> QED
    BY <2>3, <2>4, <2>5
<1>2. CASE AcceptRaises(s)
  BY <1>2, UnregisterAndClose DEF AcceptRaises
<1>3. CASE RejectEnds(s)
  BY <1>3, UnregisterAndClose DEF RejectEnds
<1>4. CASE ServingEnds(s)
  BY <1>4, UnregisterAndClose DEF ServingEnds
<1>5. CASE Reject(s)
  <2>1. TypeOK' /\ FramesOK'
    BY <1>5 DEF Reject, FramesOK
  <2>2. RegisteredIsServed'
    BY <1>5 DEF Reject, RegisteredIsServed, ClaimedName
  <2> QED
    BY <2>1, <2>2
<1>6. CASE HandshakeFails(s)
  <2>1. fate' \in [Message -> Fate]
    BY <1>6, LoseType DEF HandshakeFails, Close
  <2>2. TypeOK' /\ FramesOK'
    BY <1>6, <2>1 DEF HandshakeFails, Close, FramesOK
  <2>3. RegisteredIsServed'
    BY <1>6 DEF HandshakeFails, Close, RegisteredIsServed, ClaimedName
  <2> QED
    BY <2>2, <2>3
<1>7. CASE Receive(s)
  <2>1. Head(up[s]).msg \in Message
    BY <1>7 DEF Receive, FramesOK
  <2>2. TypeOK'
    BY <1>7, <2>1, TailOfFrames DEF Receive, Fate
  <2>3. FramesOK'
    BY <1>7, TailOfFrames DEF Receive, FramesOK
  <2>4. RegisteredIsServed'
    BY <1>7 DEF Receive, RegisteredIsServed, ClaimedName
  <2> QED
    BY <2>2, <2>3, <2>4
<1> QED
  BY <1>1, <1>2, <1>3, <1>4, <1>5, <1>6, <1>7 DEF Handling

--------------------------------------------------------------------------------
(* The queue, the network and the process.                                    *)

LEMMA EngineStep == IInv /\ Engine => IInv'
<1> SUFFICES ASSUME IInv, Engine PROVE IInv'
  OBVIOUS
<1> USE ConstantsOK DEF ConstantsOK, IInv, TypeOK
<1>1. ASSUME UNCHANGED <<connections, handler, owner, up>>, TypeOK' PROVE IInv'
  BY <1>1 DEF FramesOK, RegisteredIsServed, ClaimedName
<1>2. ASSUME NEW type \in {"message", "ack", "error"}, msg # None, Send(type)
      PROVE  IInv'
  <2>1. [type |-> type, msg |-> msg] \in Frame
    BY <1>2 DEF Frame
  <2>2. fate' \in [Message -> Fate] /\ down' \in [Socket -> Seq(Frame)]
    <3>1. CASE Target = None
      BY <1>2, <3>1 DEF Send, Fate, Taken
    <3>2. CASE Target # None
      <4>1. Target \in Socket
        BY <1>2, <3>2 DEF Target
      <4>2. CASE Target \in cut
        BY <1>2, <3>2, <4>2 DEF Send, Write, Fate, Taken
      <4>3. CASE Target \notin cut
        <5>1. /\ fate' = [fate EXCEPT ![msg] = "answered"]
              /\ down' = [down EXCEPT ![Target] = Append(@, [type |-> type, msg |-> msg])]
          BY <1>2, <3>2, <4>3 DEF Send, Write
        <5>2. Append(down[Target], [type |-> type, msg |-> msg]) \in Seq(Frame)
          BY <2>1, <4>1, AppendToFrames
        <5> QED
          BY <5>1, <5>2 DEF Fate, Taken
      <4> QED
        BY <4>2, <4>3
    <3> QED
      BY <3>1, <3>2
  <2>3. TypeOK'
    BY <1>2, <2>2 DEF Send, Finish
  <2> QED
    BY <1>1, <1>2, <2>3 DEF Send
<1>3. CASE Take
  <2>1. TypeOK'
    BY <1>3 DEF Take, Fate, Taken
  <2> QED
    BY <1>1, <1>3, <2>1 DEF Take
<1>4. CASE Reply
  <2>1. msg \in Message /\ msg # None /\ ReplyType[msg] \in {"message", "ack", "error"}
    BY <1>4 DEF Reply
  <2> QED
    BY <1>2, <1>4, <2>1 DEF Reply
<1>5. CASE ErrorReply
  BY <1>2, <1>5 DEF ErrorReply
<1>6. CASE ReplyRaises \/ ErrorReplyRaises
  <2>1. TypeOK'
    BY <1>6 DEF ReplyRaises, ErrorReplyRaises, Finish, Fate, Taken
  <2> QED
    BY <1>1, <1>6, <2>1 DEF ReplyRaises, ErrorReplyRaises
<1> QED
  BY <1>3, <1>4, <1>5, <1>6 DEF Engine

\* A broken path leaves prefixes of the frames that were on their way.
LEMMA NetworkStep ==
  ASSUME IInv, NEW s \in Socket, Network(s)
  PROVE  IInv'
<1> USE ConstantsOK DEF ConstantsOK, IInv, TypeOK
<1>1. CASE Cut(s)
  <2>1. PICK i \in 0..Len(up[s]), j \in 0..Len(down[s]) :
          /\ up' = [up EXCEPT ![s] = SubSeq(@, 1, i)]
          /\ down' = [down EXCEPT ![s] = SubSeq(@, 1, j)]
          /\ fate' = Lose(fate, MessagesIn(SubSeq(up[s], i + 1, Len(up[s]))),
                                MessagesIn(SubSeq(down[s], j + 1, Len(down[s]))))
    BY <1>1 DEF Cut
  <2>2. fate' \in [Message -> Fate]
    BY <2>1, LoseType
  <2>3. TypeOK'
    BY <1>1, <2>1, <2>2, PrefixOfFrames DEF Cut
  <2>4. FramesOK'
    BY <1>1, <2>1, PrefixOfFrames DEF Cut, FramesOK
  <2>5. RegisteredIsServed'
    BY <1>1 DEF Cut, RegisteredIsServed, ClaimedName
  <2> QED
    BY <2>3, <2>4, <2>5
<1>2. CASE NearCloses(s) \/ FarCloses(s)
  <2>1. TypeOK'
    <3>1. CASE NearCloses(s)
      BY <3>1 DEF NearCloses
    <3>2. CASE FarCloses(s)
      BY <3>2 DEF FarCloses
    <3> QED
      BY <1>2, <3>1, <3>2
  <2>2. FramesOK'
    BY <1>2 DEF NearCloses, FarCloses, FramesOK
  <2>3. RegisteredIsServed'
    BY <1>2 DEF NearCloses, FarCloses, RegisteredIsServed, ClaimedName
  <2> QED
    BY <2>1, <2>2, <2>3
<1> QED
  BY <1>1, <1>2 DEF Network

LEMMA RestartStep == IInv /\ CoreRestart => IInv'
<1> SUFFICES ASSUME IInv, CoreRestart PROVE IInv'
  OBVIOUS
<1> USE ConstantsOK DEF ConstantsOK, IInv, TypeOK
<1>1. fate' \in [Message -> Fate]
  BY LoseType DEF CoreRestart
<1>2. TypeOK'
  BY <1>1 DEF CoreRestart, Finish
<1>3. FramesOK' /\ RegisteredIsServed'
  BY DEF CoreRestart, FramesOK, RegisteredIsServed
<1> QED
  BY <1>2, <1>3

--------------------------------------------------------------------------------

\* Every state is well typed, and the queue only ever holds messages.
THEOREM InductiveInvariant == Spec => []IInv
<1>1. IInv /\ [Next]_vars => IInv'
  <2> SUFFICES ASSUME IInv, [Next]_vars PROVE IInv'
    OBVIOUS
  <2>1. CASE UNCHANGED vars
    BY <2>1 DEF IInv, TypeOK, FramesOK, RegisteredIsServed, ClaimedName, vars
  <2>2. CASE Next
    BY <2>2, AdapterStep, ForwardStep, HandlerStep, EngineStep, NetworkStep, RestartStep
       DEF Next
  <2> QED
    BY <2>1, <2>2
<1> QED
  BY <1>1, InitIInv, PTL DEF Spec

\* Types: every variable of the gateway keeps its range.
THEOREM TypeCorrect == Spec => []TypeOK
BY InductiveInvariant, PTL DEF IInv

\* Whatever connects, closes and refusals overlap, a registered socket is served by a
\* handler that runs, under the name its trusted adapter gave.
THEOREM RegisteredServed == Spec => []RegisteredIsServed
BY InductiveInvariant, PTL DEF IInv

--------------------------------------------------------------------------------
(* Order.                                                                     *)

\* What a socket carries to the Core has been sent over it, in the order of its sender,
\* behind the handshake as long as that is not read; nothing is left of it when its handler
\* has ended.
UpOrder ==
  \A s \in Socket :
    /\ handler[s] = "ended" => up[s] = <<>> /\ ~far[s]
    /\ handler[s] = "handshake" =>
         /\ s \in cut \/ up[s] # <<>>
         /\ up[s] # <<>> => up[s][1].msg = None
    /\ \A i \in DOMAIN up[s] :
         up[s][i].msg # None => fate[up[s][i].msg] = "sent" /\ via[up[s][i].msg] = s
    /\ \A i, j \in DOMAIN up[s] :
         i < j /\ up[s][i].msg # None /\ up[s][j].msg # None
           /\ Sender[up[s][i].msg] = Sender[up[s][j].msg]
         => up[s][i].msg < up[s][j].msg

\* What has been sent is on its way.
SentIsUp ==
  \A m \in Message : fate[m] = "sent" =>
    /\ via[m] \in Socket
    /\ \E i \in DOMAIN up[via[m]] : up[via[m]][i].msg = m

\* The queue holds the queued messages, once, those of a connection in their order.
QueueOrder ==
  /\ \A i \in DOMAIN queue : fate[queue[i]] = "queued"
  /\ \A i, j \in DOMAIN queue : i < j =>
       /\ queue[i] # queue[j]
       /\ Sender[queue[i]] = Sender[queue[j]] /\ via[queue[i]] = via[queue[j]]
            => queue[i] < queue[j]
  /\ \A m \in Message : fate[m] = "queued" => \E i \in DOMAIN queue : queue[i] = m

\* Only what was taken is answered.
AnsweredIsTaken ==
  /\ eng # "idle" => fate[msg] = "working"
  /\ \A s \in Socket : \A i \in DOMAIN down[s] :
       down[s][i].msg # None => fate[down[s][i].msg] \in Taken \ {"working"}

\* An adapter sends in order, and what reached the queue was not overtaken on its way to it.
ForwardOrder ==
  /\ \A m \in Message : via[m] # None <=> fate[m] \notin {"unsent", "dropped"}
  /\ \A m, n \in Message : m < n /\ Sender[m] = Sender[n] /\ fate[n] # "unsent"
       => fate[m] # "unsent"
  /\ \A m, n \in Message :
       m < n /\ Sender[m] = Sender[n] /\ via[m] # None /\ via[m] = via[n]
         /\ fate[n] \in Taken \cup {"queued"}
       => fate[m] \in Taken \cup {"queued", "lost"}

OrderInv == UpOrder /\ SentIsUp /\ QueueOrder /\ AnsweredIsTaken /\ ForwardOrder /\ InOrder

\* A step that only answers, or only loses, keeps the order.
LEMMA FateStep ==
  ASSUME TypeOK, ForwardOrder, InOrder, via' = via,
         \A m \in Message :
           \/ fate'[m] = fate[m]
           \/ fate[m] \in Taken /\ fate'[m] \in Taken
           \/ fate[m] \in Taken \cup {"sent", "queued"} /\ fate'[m] = "lost"
  PROVE  ForwardOrder' /\ InOrder'
<1>1. ForwardOrder'
  BY DEF ForwardOrder, Taken, TypeOK
<1>2. InOrder'
  BY DEF InOrder, Taken, TypeOK
<1> QED
  BY <1>1, <1>2

\* A step that leaves the queue and what is in it alone.
LEMMA QueueStep ==
  ASSUME TypeOK, QueueOrder, queue' = queue,
         \A m \in Message : /\ fate[m] = "queued" <=> fate'[m] = "queued"
                            /\ fate[m] = "queued" => via'[m] = via[m]
  PROVE  QueueOrder'
<1>1. \A i \in DOMAIN queue : queue[i] \in Message
  BY DEF TypeOK
<1>2. \A i \in DOMAIN queue : fate'[queue[i]] = "queued" /\ via'[queue[i]] = via[queue[i]]
  BY <1>1 DEF QueueOrder
<1>3. \A m \in Message : fate'[m] = "queued" => \E i \in DOMAIN queue : queue[i] = m
  BY DEF QueueOrder
<1> QED
  BY <1>2, <1>3 DEF QueueOrder

\* A step that moves nothing towards the engine.
LEMMA QuietStep ==
  ASSUME IInv, OrderInv, UNCHANGED <<up, queue, via>>,
         \A s \in Socket : /\ far'[s] => far[s]
                           /\ handler'[s] \in {"ended", "handshake"} => handler'[s] = handler[s]
                           /\ s \in cut => s \in cut',
         \A m \in Message : fate'[m] = fate[m] \/ (fate[m] \in Taken /\ fate'[m] \in Taken),
         AnsweredIsTaken'
  PROVE  OrderInv'
<1>1. \A m \in Message : /\ fate[m] = "sent" <=> fate'[m] = "sent"
                         /\ fate[m] = "queued" <=> fate'[m] = "queued"
  BY DEF Taken
<1>2. ForwardOrder' /\ InOrder'
  BY FateStep DEF IInv, OrderInv
<1>3. UpOrder'
  <2> SUFFICES ASSUME NEW s \in Socket
               PROVE  /\ handler'[s] = "ended" => up[s] = <<>> /\ ~far'[s]
                      /\ handler'[s] = "handshake" =>
                           /\ s \in cut' \/ up[s] # <<>>
                           /\ up[s] # <<>> => up[s][1].msg = None
                      /\ \A i \in DOMAIN up[s] : up[s][i].msg # None =>
                           fate'[up[s][i].msg] = "sent" /\ via[up[s][i].msg] = s
                      /\ \A i, j \in DOMAIN up[s] :
                           i < j /\ up[s][i].msg # None /\ up[s][j].msg # None
                             /\ Sender[up[s][i].msg] = Sender[up[s][j].msg]
                           => up[s][i].msg < up[s][j].msg
    BY DEF UpOrder
  <2>1. UpOrder
    BY DEF OrderInv
  <2>2. \A i \in DOMAIN up[s] : up[s][i].msg \in Message \cup {None}
    BY FrameAt DEF IInv, TypeOK
  <2> QED
    BY <1>1, <2>1, <2>2 DEF UpOrder
<1>4. SentIsUp'
  <2> SUFFICES ASSUME NEW m \in Message, fate'[m] = "sent"
               PROVE  /\ via[m] \in Socket
                      /\ \E i \in DOMAIN up[via[m]] : up[via[m]][i].msg = m
    BY DEF SentIsUp
  <2>1. fate[m] = "sent"
    BY <1>1
  <2>2. SentIsUp
    BY DEF OrderInv
  <2> QED
    BY <2>1, <2>2 DEF SentIsUp
<1>5. QueueOrder'
  BY <1>1, QueueStep DEF IInv, OrderInv
<1> QED
  BY <1>2, <1>3, <1>4, <1>5 DEF OrderInv

\* A socket is used again when nothing is left of what it carried.
LEMMA DialOrder ==
  ASSUME IInv, OrderInv, NEW a \in Adapter, NEW s \in Socket, Dial(a, s)
  PROVE  OrderInv'
<1>1. /\ handler[s] = "ended" /\ up[s] = <<>>
      /\ UNCHANGED <<queue, eng, msg, fate, via>>
  BY DEF Dial, Free, OrderInv, UpOrder
<1>2. /\ handler' = [handler EXCEPT ![s] = "handshake"]
      /\ far' = [far EXCEPT ![s] = TRUE] /\ cut' = cut \ {s}
      /\ up' = [up EXCEPT ![s] = <<HelloFrame>>] /\ down' = [down EXCEPT ![s] = <<>>]
  BY DEF Dial
<1> USE DEF IInv, TypeOK, OrderInv
<1>3. UpOrder'
  BY <1>1, <1>2 DEF UpOrder, HelloFrame
<1>4. SentIsUp'
  BY <1>1, <1>2 DEF SentIsUp
<1>5. QueueOrder' /\ ForwardOrder' /\ InOrder'
  BY <1>1 DEF QueueOrder, ForwardOrder, InOrder
<1>6. AnsweredIsTaken'
  BY <1>1, <1>2 DEF AnsweredIsTaken
<1> QED
  BY <1>3, <1>4, <1>5, <1>6

\* Reading and forgetting answers moves nothing.
LEMMA ListeningOrder ==
  ASSUME IInv, OrderInv, NEW a \in Adapter,
         \/ RecvAck(a) \/ HelloFails(a) \/ Listen(a) \/ ListenEnds(a) \/ BackoffEnds(a)
         \/ DispatchRaises(a)
  PROVE  OrderInv'
<1> USE DEF IInv, TypeOK
<1>1. CASE HelloFails(a) \/ ListenEnds(a) \/ BackoffEnds(a)
  <2>1. UNCHANGED <<handler, far, cut, up, down, queue, eng, msg, fate, via>>
    BY <1>1 DEF HelloFails, ListenEnds, BackoffEnds
  <2>2. AnsweredIsTaken'
    BY <2>1 DEF OrderInv, AnsweredIsTaken
  <2> QED
    BY <2>1, <2>2, QuietStep
<1>2. CASE RecvAck(a)
  <2>1. /\ ws[a] \in Socket /\ down[ws[a]] # <<>>
        /\ down' = [down EXCEPT ![ws[a]] = Tail(@)]
        /\ UNCHANGED <<handler, far, cut, up, queue, eng, msg, fate, via>>
    BY <1>2 DEF RecvAck
  <2>2. AnsweredIsTaken'
    BY <2>1, TailOfFrames DEF OrderInv, AnsweredIsTaken
  <2> QED
    BY <2>1, <2>2, QuietStep
<1>3. CASE Listen(a)
  <2> DEFINE f == Head(down[ws[a]])
  <2>1. /\ ws[a] \in Socket /\ down[ws[a]] # <<>>
        /\ down' = [down EXCEPT ![ws[a]] = Tail(@)]
        /\ UNCHANGED <<handler, far, cut, up, queue, eng, msg, via>>
    BY <1>3 DEF Listen
  <2>2. f \in Frame /\ (f.msg # None => fate[f.msg] \in Taken \ {"working"})
    BY <2>1, TailOfFrames DEF OrderInv, AnsweredIsTaken
  <2>3. f.msg \in Message \cup {None}
    BY <2>2 DEF Frame
  <2>4. \/ f.msg = None /\ fate' = fate
        \/ f.msg # None /\ \E r \in {"delivered", "ignored"} : fate' = [fate EXCEPT ![f.msg] = r]
    BY <1>3 DEF Listen
  <2>5. \A m \in Message :
          \/ fate'[m] = fate[m]
          \/ fate[m] \in Taken \ {"working"} /\ fate'[m] \in Taken \ {"working"}
    BY <2>2, <2>3, <2>4 DEF Taken
  <2>6. AnsweredIsTaken'
    <3>1. eng' # "idle" => fate'[msg'] = "working"
      BY <2>1, <2>5 DEF OrderInv, AnsweredIsTaken, Taken
    <3>2. \A t \in Socket : \A i \in DOMAIN down'[t] :
            \E j \in DOMAIN down[t] : down'[t][i] = down[t][j]
      BY <2>1, TailOfFrames
    <3>3. \A t \in Socket : \A j \in DOMAIN down[t] :
            down[t][j].msg # None => fate'[down[t][j].msg] \in Taken \ {"working"}
      BY <2>5, FrameAt DEF OrderInv, AnsweredIsTaken
    <3> QED
      BY <3>1, <3>2, <3>3 DEF AnsweredIsTaken
  <2> QED
    BY <2>1, <2>5, <2>6, QuietStep
<1>4. CASE DispatchRaises(a)
  <2>1. /\ ws[a] \in Socket
        /\ down' = [down EXCEPT ![ws[a]] = <<>>]
        /\ fate' = Lose(fate, {}, MessagesIn(down[ws[a]]))
        /\ UNCHANGED <<handler, far, cut, up, queue, eng, msg, via>>
    BY <1>4 DEF DispatchRaises
  <2>2. \A m \in MessagesIn(down[ws[a]]) : fate[m] \in Taken \ {"working"}
    BY <2>1 DEF MessagesIn, OrderInv, AnsweredIsTaken
  <2>3. \A m \in Message :
          \/ fate'[m] = fate[m]
          \/ fate[m] \in Taken \ {"working"} /\ fate'[m] \in Taken \ {"working"}
    BY <2>1, <2>2 DEF Lose, Taken
  <2>4. AnsweredIsTaken'
    <3>1. eng' # "idle" => fate'[msg'] = "working"
      BY <2>1, <2>3 DEF OrderInv, AnsweredIsTaken, Taken
    <3>2. \A t \in Socket : \A j \in DOMAIN down[t] :
            down[t][j].msg # None => fate'[down[t][j].msg] \in Taken \ {"working"}
      BY <2>3, FrameAt DEF OrderInv, AnsweredIsTaken
    <3> QED
      BY <2>1, <3>1, <3>2 DEF AnsweredIsTaken
  <2> QED
    BY <2>1, <2>3, <2>4, QuietStep
<1> QED
  BY <1>1, <1>2, <1>3, <1>4

\* A message is written behind those of its sender that are on their way.
LEMMA WriteOrder ==
  ASSUME IInv, OrderInv, NEW m \in Message, Forward(m)
  PROVE  OrderInv'
<1> DEFINE s == ws[Sender[m]]
           f == [type |-> "message", msg |-> m]
<1>0. /\ Message \subseteq Nat /\ None \notin Message /\ None \notin Socket
      /\ Sender \in [Message -> Adapter]
      /\ fate \in [Message -> Fate] /\ via \in [Message -> Socket \cup {None}]
      /\ ws \in [Adapter -> Socket \cup {None}]
      /\ up \in [Socket -> Seq(Frame)] /\ down \in [Socket -> Seq(Frame)]
      /\ msg \in Message \cup {None} /\ (eng # "idle" => msg # None)
  BY ConstantsOK DEF ConstantsOK, IInv, TypeOK
<1>1. /\ fate[m] = "unsent" /\ via[m] = None
      /\ \A n \in Message : n < m /\ Sender[n] = Sender[m] => fate[n] # "unsent"
      /\ \A n \in Message : m < n /\ Sender[n] = Sender[m] => fate[n] = "unsent"
      /\ UNCHANGED <<handler, far, cut, down, queue, eng, msg>>
  BY <1>0 DEF Forward, OrderInv, ForwardOrder
<1>2. \/ via' = via /\ fate' = [fate EXCEPT ![m] = "dropped"] /\ up' = up
      \/ /\ s \in Socket /\ via' = [via EXCEPT ![m] = s]
         /\ \/ fate' = [fate EXCEPT ![m] = "lost"] /\ up' = up
            \/ /\ fate' = [fate EXCEPT ![m] = "sent"] /\ s \notin cut /\ far[s]
               /\ up' = [up EXCEPT ![s] = Append(@, f)]
  BY <1>0 DEF Forward
<1>3. \A n \in Message \ {m} : fate'[n] = fate[n] /\ via'[n] = via[n]
  BY <1>0, <1>2
<1>4. fate'[m] \in {"dropped", "lost", "sent"} /\ (fate'[m] = "dropped" <=> via'[m] = None)
  BY <1>0, <1>1, <1>2
<1>5. ForwardOrder' /\ InOrder'
  <2>1. \A n \in Message : via'[n] # None <=> fate'[n] \notin {"unsent", "dropped"}
    BY <1>3, <1>4 DEF OrderInv, ForwardOrder
  <2>2. \A k, n \in Message : k < n /\ Sender[k] = Sender[n] /\ fate'[n] # "unsent"
          => fate'[k] # "unsent"
    BY <1>1, <1>3, <1>4 DEF OrderInv, ForwardOrder
  <2>3. \A n \in Message : fate'[n] \in Taken \cup {"queued"}
          => n # m /\ fate'[n] = fate[n] /\ fate[n] # "unsent"
    BY <1>3, <1>4 DEF Taken
  <2>4. \A k, n \in Message :
          k < n /\ Sender[k] = Sender[n] /\ fate'[n] \in Taken \cup {"queued"} => k # m
    BY <1>1, <2>3
  <2>5. ForwardOrder'
    BY <1>3, <2>1, <2>2, <2>3, <2>4 DEF OrderInv, ForwardOrder
  <2>6. InOrder'
    BY <1>3, <2>3, <2>4 DEF OrderInv, InOrder
  <2> QED
    BY <2>5, <2>6
<1>6. QueueOrder'
  BY <1>1, <1>3, <1>4, QueueStep DEF OrderInv, IInv
<1>7. AnsweredIsTaken'
  <2>1. eng # "idle" => msg # m /\ msg \in Message /\ fate[msg] = "working"
    BY <1>0, <1>1 DEF OrderInv, AnsweredIsTaken
  <2>2. \A t \in Socket : \A i \in DOMAIN down[t] : down[t][i].msg # None =>
          /\ down[t][i].msg \in Message \ {m}
          /\ fate[down[t][i].msg] \in Taken \ {"working"}
    BY <1>0, <1>1, FrameAt DEF OrderInv, AnsweredIsTaken, Taken
  <2> QED
    BY <1>1, <1>3, <2>1, <2>2 DEF AnsweredIsTaken
<1>8. \A t \in Socket : \A i \in DOMAIN up[t] : up[t][i].msg # None =>
        /\ up[t][i].msg \in Message \ {m}
        /\ fate'[up[t][i].msg] = "sent" /\ via'[up[t][i].msg] = t
        /\ Sender[up[t][i].msg] = Sender[m] => up[t][i].msg < m
  <2> SUFFICES ASSUME NEW t \in Socket, NEW i \in DOMAIN up[t], up[t][i].msg # None
               PROVE  /\ up[t][i].msg \in Message \ {m}
                      /\ fate'[up[t][i].msg] = "sent" /\ via'[up[t][i].msg] = t
                      /\ Sender[up[t][i].msg] = Sender[m] => up[t][i].msg < m
    OBVIOUS
  <2>1. up[t][i].msg \in Message
    BY <1>0, FrameAt
  <2>2. fate[up[t][i].msg] = "sent" /\ via[up[t][i].msg] = t
    BY DEF OrderInv, UpOrder
  <2>3. up[t][i].msg # m
    BY <1>1, <2>2
  <2>4. Sender[up[t][i].msg] = Sender[m] => ~(m < up[t][i].msg)
    BY <1>1, <2>1, <2>2
  <2> QED
    BY <1>0, <1>3, <2>1, <2>2, <2>3, <2>4
<1>9. CASE up' = up /\ fate'[m] # "sent"
  <2>1. UpOrder'
    BY <1>1, <1>8, <1>9 DEF OrderInv, UpOrder
  <2>2. SentIsUp'
    <3>1. \A n \in Message : fate'[n] = "sent" => n # m /\ fate[n] = "sent" /\ via'[n] = via[n]
      BY <1>3, <1>9
    <3> QED
      BY <1>9, <3>1 DEF OrderInv, SentIsUp
  <2> QED
    BY <1>5, <1>6, <1>7, <2>1, <2>2 DEF OrderInv
<1>10. CASE /\ s \in Socket /\ s \notin cut /\ far[s]
            /\ fate'[m] = "sent" /\ via'[m] = s
            /\ up' = [up EXCEPT ![s] = Append(@, f)]
  <2>0. f \in Frame /\ up[s] \in Seq(Frame)
    BY <1>0, <1>10 DEF Frame
  <2>1. /\ Len(up'[s]) = Len(up[s]) + 1 /\ up'[s][Len(up[s]) + 1] = f
        /\ DOMAIN up'[s] = 1..(Len(up[s]) + 1)
        /\ \A i \in DOMAIN up[s] : i \in DOMAIN up'[s] /\ up'[s][i] = up[s][i]
    BY <1>0, <1>10, <2>0
  <2>2. DOMAIN up[s] = 1..Len(up[s]) /\ Len(up[s]) \in Nat
    BY <2>0
  <2>3. \A t \in Socket \ {s} : up'[t] = up[t]
    BY <1>0, <1>10
  <2>4. UpOrder'
    <3> SUFFICES ASSUME NEW t \in Socket
                 PROVE  /\ handler[t] = "ended" => up'[t] = <<>> /\ ~far[t]
                        /\ handler[t] = "handshake" =>
                             /\ t \in cut \/ up'[t] # <<>>
                             /\ up'[t] # <<>> => up'[t][1].msg = None
                        /\ \A i \in DOMAIN up'[t] : up'[t][i].msg # None =>
                             fate'[up'[t][i].msg] = "sent" /\ via'[up'[t][i].msg] = t
                        /\ \A i, j \in DOMAIN up'[t] :
                             i < j /\ up'[t][i].msg # None /\ up'[t][j].msg # None
                               /\ Sender[up'[t][i].msg] = Sender[up'[t][j].msg]
                             => up'[t][i].msg < up'[t][j].msg
      BY <1>1 DEF UpOrder
    <3>1. CASE t # s
      <4>1. up'[t] = up[t]
        BY <2>3, <3>1
      <4> QED
        BY <1>8, <4>1 DEF OrderInv, UpOrder
    <3>2. CASE t = s
      <4>1. handler[s] # "ended" /\ (handler[s] = "handshake" => up[s] # <<>> /\ up[s][1].msg = None)
        BY <1>10 DEF OrderInv, UpOrder
      <4>2. handler[s] = "handshake" => up'[s] # <<>> /\ up'[s][1].msg = None
        BY <2>1, <2>2, <4>1, <1>10
      <4>3. \A i \in DOMAIN up'[s] : i \in DOMAIN up[s] \/ i = Len(up[s]) + 1
        BY <2>1, <2>2
      <4>4. \A i \in DOMAIN up'[s] : up'[s][i].msg # None =>
               fate'[up'[s][i].msg] = "sent" /\ via'[up'[s][i].msg] = s
        BY <1>8, <1>10, <2>1, <4>3
      <4>5. ASSUME NEW i \in DOMAIN up'[s], NEW j \in DOMAIN up'[s],
                   i < j, up'[s][i].msg # None, up'[s][j].msg # None,
                   Sender[up'[s][i].msg] = Sender[up'[s][j].msg]
            PROVE  up'[s][i].msg < up'[s][j].msg
        <5>1. i \in DOMAIN up[s] /\ up'[s][i] = up[s][i]
          BY <2>1, <2>2, <4>5
        <5>2. CASE j \in DOMAIN up[s]
          <6>1. up'[s][j] = up[s][j]
            BY <2>1, <5>2
          <6> QED
            BY <1>10, <4>5, <5>1, <5>2, <6>1 DEF OrderInv, UpOrder
        <5>3. CASE j = Len(up[s]) + 1
          <6>1. up'[s][j].msg = m
            BY <2>1, <5>3
          <6> QED
            BY <1>8, <1>10, <4>5, <5>1, <6>1
        <5> QED
          BY <4>3, <5>2, <5>3
      <4> QED
        BY <3>2, <4>1, <4>2, <4>4, <4>5
    <3> QED
      BY <3>1, <3>2
  <2>5. SentIsUp'
    <3> SUFFICES ASSUME NEW n \in Message, fate'[n] = "sent"
                 PROVE  via'[n] \in Socket /\ \E i \in DOMAIN up'[via'[n]] : up'[via'[n]][i].msg = n
      BY DEF SentIsUp
    <3>1. CASE n = m
      <4>1. Len(up[s]) + 1 \in DOMAIN up'[s] /\ up'[s][Len(up[s]) + 1].msg = m
        BY <2>1, <2>2
      <4> QED
        BY <1>10, <3>1, <4>1
    <3>2. CASE n # m
      <4>1. /\ via'[n] = via[n] /\ via[n] \in Socket
            /\ \E i \in DOMAIN up[via[n]] : up[via[n]][i].msg = n
        BY <1>3, <3>2 DEF OrderInv, SentIsUp
      <4>2. PICK i \in DOMAIN up[via[n]] : up[via[n]][i].msg = n
        BY <4>1
      <4>3. i \in DOMAIN up'[via[n]] /\ up'[via[n]][i] = up[via[n]][i]
        BY <2>1, <2>3, <4>1, <4>2
      <4> QED
        BY <4>1, <4>2, <4>3
    <3> QED
      BY <3>1, <3>2
  <2> QED
    BY <1>5, <1>6, <1>7, <2>4, <2>5 DEF OrderInv
<1>11. CASE via' = via /\ fate' = [fate EXCEPT ![m] = "dropped"] /\ up' = up
  BY <1>0, <1>9, <1>11
<1>12. CASE fate' = [fate EXCEPT ![m] = "lost"] /\ up' = up
  BY <1>0, <1>9, <1>12
<1>13. CASE /\ s \in Socket /\ via' = [via EXCEPT ![m] = s]
            /\ fate' = [fate EXCEPT ![m] = "sent"] /\ s \notin cut /\ far[s]
            /\ up' = [up EXCEPT ![s] = Append(@, f)]
  <2>1. fate'[m] = "sent" /\ via'[m] = s
    BY <1>0, <1>13
  <2> QED
    BY <1>10, <1>13, <2>1
<1> QED
  BY <1>2, <1>11, <1>12, <1>13

\* What was not read when a handler ends is lost.
LEMMA CloseOrder ==
  ASSUME IInv, OrderInv, NEW s \in Socket, Close(s), UNCHANGED <<cut, down, queue, eng, msg, via>>
  PROVE  OrderInv'
<1>0. /\ None \notin Message
      /\ handler \in [Socket -> {"ended", "handshake", "rejecting", "serving"}]
      /\ far \in [Socket -> BOOLEAN] /\ fate \in [Message -> Fate]
      /\ up \in [Socket -> Seq(Frame)] /\ down \in [Socket -> Seq(Frame)]
      /\ msg \in Message \cup {None} /\ (eng # "idle" => msg # None)
  BY ConstantsOK DEF ConstantsOK, IInv, TypeOK
<1>1. /\ handler'[s] = "ended" /\ ~far'[s] /\ up'[s] = <<>>
      /\ \A t \in Socket \ {s} :
           up'[t] = up[t] /\ handler'[t] = handler[t] /\ far'[t] = far[t]
  BY <1>0 DEF Close
<1>2. \A m \in Message : fate'[m] = IF m \in MessagesIn(up[s]) THEN "lost" ELSE fate[m]
  BY DEF Close, Lose
<1>3. \A m \in MessagesIn(up[s]) : fate[m] = "sent" /\ via[m] = s
  BY DEF MessagesIn, OrderInv, UpOrder
<1>4. \A m \in Message : \/ fate'[m] = fate[m]
                         \/ fate[m] = "sent" /\ via[m] = s /\ fate'[m] = "lost"
  BY <1>2, <1>3
<1>5. ForwardOrder' /\ InOrder'
  BY <1>4, FateStep DEF OrderInv, IInv
<1>6. QueueOrder'
  BY <1>4, QueueStep DEF OrderInv, IInv
<1>7. AnsweredIsTaken'
  <2>1. eng # "idle" => msg \in Message /\ fate'[msg] = "working"
    BY <1>0, <1>4 DEF OrderInv, AnsweredIsTaken
  <2>2. \A t \in Socket : \A i \in DOMAIN down[t] : down[t][i].msg # None =>
          fate'[down[t][i].msg] \in Taken \ {"working"}
    <3> SUFFICES ASSUME NEW t \in Socket, NEW i \in DOMAIN down[t], down[t][i].msg # None
                 PROVE  fate'[down[t][i].msg] \in Taken \ {"working"}
      OBVIOUS
    <3>1. down[t][i].msg \in Message
      BY <1>0, FrameAt
    <3>2. fate[down[t][i].msg] \in Taken \ {"working"}
      BY DEF OrderInv, AnsweredIsTaken
    <3>3. fate'[down[t][i].msg] = fate[down[t][i].msg]
      BY <1>4, <3>1, <3>2 DEF Taken
    <3> QED
      BY <3>2, <3>3
  <2> QED
    BY <2>1, <2>2 DEF AnsweredIsTaken
<1>8. UpOrder'
  <2> SUFFICES ASSUME NEW t \in Socket, t # s
               PROVE  \A i \in DOMAIN up[t] : up[t][i].msg # None =>
                        fate'[up[t][i].msg] = "sent" /\ via[up[t][i].msg] = t
    BY <1>1 DEF OrderInv, UpOrder
  <2>1. \A i \in DOMAIN up[t] : up[t][i].msg \in Message \cup {None}
    BY <1>0, FrameAt
  <2> QED
    BY <1>4, <2>1 DEF OrderInv, UpOrder
<1>9. SentIsUp'
  <2> SUFFICES ASSUME NEW m \in Message, fate'[m] = "sent"
               PROVE  via[m] \in Socket /\ \E i \in DOMAIN up'[via[m]] : up'[via[m]][i].msg = m
    BY DEF SentIsUp
  <2>1. fate[m] = "sent" /\ m \notin MessagesIn(up[s])
    BY <1>2
  <2>2. via[m] \in Socket /\ \E i \in DOMAIN up[via[m]] : up[via[m]][i].msg = m
    BY <2>1 DEF OrderInv, SentIsUp
  <2>3. via[m] # s
    BY <1>0, <2>1, <2>2 DEF MessagesIn
  <2> QED
    BY <1>1, <2>2, <2>3
<1> QED
  BY <1>5, <1>6, <1>7, <1>8, <1>9 DEF OrderInv

\* The first frame of a socket is read.
LEMMA ReadOrder ==
  ASSUME IInv, OrderInv, NEW s \in Socket, up[s] # <<>>,
         up' = [up EXCEPT ![s] = Tail(@)], UNCHANGED <<far, cut, via>>,
         \A t \in Socket \ {s} : handler'[t] = handler[t], handler'[s] = "serving",
         handler[s] # "ended",
         \A m \in Message : IF m = up[s][1].msg THEN fate'[m] # "sent" ELSE fate'[m] = fate[m]
  PROVE  UpOrder' /\ SentIsUp'
<1>0. /\ None \notin Message /\ Message \subseteq Nat
      /\ up \in [Socket -> Seq(Frame)]
  BY ConstantsOK DEF ConstantsOK, IInv, TypeOK
<1>1. up[s] \in Seq(Frame) /\ DOMAIN up[s] = 1..Len(up[s]) /\ Len(up[s]) \in Nat
  BY <1>0
<1>2. /\ DOMAIN up'[s] = 1..(Len(up[s]) - 1)
      /\ \A i \in DOMAIN up'[s] : i + 1 \in DOMAIN up[s] /\ up'[s][i] = up[s][i + 1]
  BY <1>0, <1>1
<1>3. \A t \in Socket \ {s} : up'[t] = up[t]
  BY <1>0
<1>4. \A t \in Socket : \A i \in DOMAIN up[t] : up[t][i].msg \in Message \cup {None}
  BY <1>0, FrameAt
<1>5. \A i \in DOMAIN up[s] : i > 1 /\ up[s][i].msg # None => up[s][i].msg # up[s][1].msg
  <2> SUFFICES ASSUME NEW i \in DOMAIN up[s], i > 1, up[s][i].msg # None,
                      up[s][i].msg = up[s][1].msg
               PROVE  FALSE
    OBVIOUS
  <2>1. 1 \in DOMAIN up[s] /\ 1 < i
    BY <1>1
  <2>2. up[s][1].msg < up[s][i].msg
    BY <2>1 DEF OrderInv, UpOrder
  <2>3. up[s][i].msg \in Nat
    BY <1>0, <1>4
  <2> QED
    BY <2>2, <2>3
<1>6. UpOrder'
  <2> SUFFICES ASSUME NEW t \in Socket
               PROVE  /\ handler'[t] = "ended" => up'[t] = <<>> /\ ~far[t]
                      /\ handler'[t] = "handshake" =>
                           /\ t \in cut \/ up'[t] # <<>>
                           /\ up'[t] # <<>> => up'[t][1].msg = None
                      /\ \A i \in DOMAIN up'[t] : up'[t][i].msg # None =>
                           fate'[up'[t][i].msg] = "sent" /\ via[up'[t][i].msg] = t
                      /\ \A i, j \in DOMAIN up'[t] :
                           i < j /\ up'[t][i].msg # None /\ up'[t][j].msg # None
                             /\ Sender[up'[t][i].msg] = Sender[up'[t][j].msg]
                           => up'[t][i].msg < up'[t][j].msg
    BY DEF UpOrder
  <2>1. CASE t # s
    <3>1. up'[t] = up[t] /\ handler'[t] = handler[t]
      BY <1>3, <2>1
    <3>2. 1 \in DOMAIN up[s]
      BY <1>1
    <3>3. up[s][1].msg # None => via[up[s][1].msg] = s
      BY <3>2 DEF OrderInv, UpOrder
    <3>4. \A i \in DOMAIN up[t] : up[t][i].msg # None =>
            /\ fate[up[t][i].msg] = "sent" /\ via[up[t][i].msg] = t
            /\ up[t][i].msg # up[s][1].msg
      BY <2>1, <3>3 DEF OrderInv, UpOrder
    <3>5. \A i \in DOMAIN up[t] : up[t][i].msg # None => fate'[up[t][i].msg] = "sent"
      BY <1>4, <3>4
    <3>6. /\ handler[t] = "ended" => up[t] = <<>> /\ ~far[t]
          /\ handler[t] = "handshake" =>
               /\ t \in cut \/ up[t] # <<>>
               /\ up[t] # <<>> => up[t][1].msg = None
          /\ \A i, j \in DOMAIN up[t] :
               i < j /\ up[t][i].msg # None /\ up[t][j].msg # None
                 /\ Sender[up[t][i].msg] = Sender[up[t][j].msg]
               => up[t][i].msg < up[t][j].msg
      BY DEF OrderInv, UpOrder
    <3>7. /\ handler'[t] = "ended" => up'[t] = <<>> /\ ~far[t]
          /\ handler'[t] = "handshake" =>
               /\ t \in cut \/ up'[t] # <<>>
               /\ up'[t] # <<>> => up'[t][1].msg = None
      BY <3>1, <3>6
    <3>8. \A i \in DOMAIN up'[t] : up'[t][i].msg # None =>
             fate'[up'[t][i].msg] = "sent" /\ via[up'[t][i].msg] = t
      BY <3>1, <3>4, <3>5
    <3>9. ASSUME NEW i \in DOMAIN up'[t], NEW j \in DOMAIN up'[t], i < j,
                 up'[t][i].msg # None, up'[t][j].msg # None,
                 Sender[up'[t][i].msg] = Sender[up'[t][j].msg]
          PROVE  up'[t][i].msg < up'[t][j].msg
      <4>1. /\ i \in DOMAIN up[t] /\ up'[t][i] = up[t][i]
            /\ j \in DOMAIN up[t] /\ up'[t][j] = up[t][j]
        BY <3>1
      <4> QED
        BY <3>6, <3>9, <4>1
    <3> QED
      BY <3>7, <3>8, <3>9
  <2>2. CASE t = s
    <3>1. ASSUME NEW i \in DOMAIN up'[s], up'[s][i].msg # None
          PROVE  fate'[up'[s][i].msg] = "sent" /\ via[up'[s][i].msg] = s
      <4>1. i + 1 \in DOMAIN up[s] /\ up'[s][i] = up[s][i + 1] /\ i + 1 > 1
        BY <1>1, <1>2
      <4>2. fate[up[s][i + 1].msg] = "sent" /\ via[up[s][i + 1].msg] = s
        BY <3>1, <4>1 DEF OrderInv, UpOrder
      <4>3. up[s][i + 1].msg \in Message /\ up[s][i + 1].msg # up[s][1].msg
        BY <1>4, <1>5, <3>1, <4>1
      <4> QED
        BY <4>1, <4>2, <4>3
    <3>2. ASSUME NEW i \in DOMAIN up'[s], NEW j \in DOMAIN up'[s], i < j,
                 up'[s][i].msg # None, up'[s][j].msg # None,
                 Sender[up'[s][i].msg] = Sender[up'[s][j].msg]
          PROVE  up'[s][i].msg < up'[s][j].msg
      <4>1. /\ i + 1 \in DOMAIN up[s] /\ up'[s][i] = up[s][i + 1]
            /\ j + 1 \in DOMAIN up[s] /\ up'[s][j] = up[s][j + 1]
            /\ i + 1 < j + 1
        BY <1>1, <1>2, <3>2
      <4> QED
        BY <3>2, <4>1 DEF OrderInv, UpOrder
    <3>3. handler'[t] \notin {"ended", "handshake"}
      BY <2>2
    <3>4. /\ \A i \in DOMAIN up'[t] : up'[t][i].msg # None =>
               fate'[up'[t][i].msg] = "sent" /\ via[up'[t][i].msg] = t
          /\ \A i, j \in DOMAIN up'[t] :
               i < j /\ up'[t][i].msg # None /\ up'[t][j].msg # None
                 /\ Sender[up'[t][i].msg] = Sender[up'[t][j].msg]
               => up'[t][i].msg < up'[t][j].msg
      BY <2>2, <3>1, <3>2
    <3> QED
      BY <3>3, <3>4
  <2> QED
    BY <2>1, <2>2
<1>7. SentIsUp'
  <2> SUFFICES ASSUME NEW m \in Message, fate'[m] = "sent"
               PROVE  via[m] \in Socket /\ \E i \in DOMAIN up'[via[m]] : up'[via[m]][i].msg = m
    BY DEF SentIsUp
  <2>1. m # up[s][1].msg /\ fate[m] = "sent"
    OBVIOUS
  <2>2. via[m] \in Socket /\ \E i \in DOMAIN up[via[m]] : up[via[m]][i].msg = m
    BY <2>1 DEF OrderInv, SentIsUp
  <2>3. PICK i \in DOMAIN up[via[m]] : up[via[m]][i].msg = m
    BY <2>2
  <2>4. CASE via[m] # s
    BY <1>3, <2>2, <2>3, <2>4
  <2>5. CASE via[m] = s
    <3>1. i # 1 /\ i \in 1..Len(up[s])
      BY <1>1, <2>1, <2>3, <2>5
    <3>2. i - 1 \in DOMAIN up'[s] /\ up'[s][i - 1] = up[s][i]
      BY <1>1, <1>2, <3>1
    <3> QED
      BY <2>2, <2>3, <2>5, <3>2
  <2> QED
    BY <2>4, <2>5
<1> QED
  BY <1>6, <1>7

\* The Core reads the handshake, or a message, which joins the queue behind those that
\* were sent before it on the same connection.
LEMMA ReceiveOrder ==
  ASSUME IInv, OrderInv, NEW s \in Socket, Receive(s)
  PROVE  OrderInv'
<1> DEFINE m == up[s][1].msg
<1>0. /\ None \notin Message /\ Message \subseteq Nat
      /\ fate \in [Message -> Fate] /\ via \in [Message -> Socket \cup {None}]
      /\ queue \in Seq(Message)
      /\ up \in [Socket -> Seq(Frame)] /\ down \in [Socket -> Seq(Frame)]
      /\ msg \in Message \cup {None} /\ (eng # "idle" => msg # None)
  BY ConstantsOK DEF ConstantsOK, IInv, TypeOK
<1>1. /\ handler[s] = "serving" /\ up[s] # <<>> /\ 1 \in DOMAIN up[s] /\ m = Head(up[s]).msg
      /\ queue' = Append(queue, m) /\ fate' = [fate EXCEPT ![m] = "queued"]
      /\ up' = [up EXCEPT ![s] = Tail(@)]
      /\ UNCHANGED <<handler, far, cut, down, eng, msg, via>>
  BY <1>0 DEF Receive
<1>2. m \in Message
  BY <1>1 DEF IInv, FramesOK
<1>3. fate[m] = "sent" /\ via[m] = s
  BY <1>0, <1>1, <1>2 DEF OrderInv, UpOrder
<1>4. fate'[m] = "queued" /\ \A n \in Message \ {m} : fate'[n] = fate[n]
  BY <1>0, <1>1, <1>2
<1>5. UpOrder' /\ SentIsUp'
  BY <1>1, <1>4, ReadOrder
<1>6. \A n \in Message : n < m /\ Sender[n] = Sender[m] /\ via[n] = s => fate[n] # "sent"
  <2> SUFFICES ASSUME NEW n \in Message, n < m, Sender[n] = Sender[m], via[n] = s,
                      fate[n] = "sent"
               PROVE  FALSE
    OBVIOUS
  <2>1. PICK i \in DOMAIN up[s] : up[s][i].msg = n
    BY DEF OrderInv, SentIsUp
  <2>2. i # 1
    BY <1>0, <1>2, <2>1
  <2>3. 1 < i
    BY <1>0, <2>1, <2>2
  <2>4. m < n
    <3>1. /\ 1 < i /\ up[s][1].msg # None /\ up[s][i].msg # None
          /\ Sender[up[s][1].msg] = Sender[up[s][i].msg]
      BY <1>0, <1>2, <2>1, <2>3
    <3>2. up[s][1].msg < up[s][i].msg
      BY <1>1, <3>1 DEF OrderInv, UpOrder
    <3> QED
      BY <2>1, <3>2
  <2> QED
    BY <1>0, <1>2, <2>4
<1>7. ForwardOrder'
  <2>1. \A k, n \in Message :
          k < n /\ Sender[k] = Sender[n] /\ via[k] # None /\ via[k] = via[n]
            /\ fate'[n] \in Taken \cup {"queued"}
          => fate'[k] \in Taken \cup {"queued", "lost"}
    <3> SUFFICES ASSUME NEW k \in Message, NEW n \in Message,
                        k < n, Sender[k] = Sender[n], via[k] # None, via[k] = via[n],
                        fate'[n] \in Taken \cup {"queued"}, k # m
                 PROVE  fate[k] \in Taken \cup {"queued", "lost"}
      BY <1>4
    <3>1. CASE n = m
      <4>1. fate[k] \notin {"unsent", "dropped", "sent"}
        BY <1>2, <1>3, <1>6, <3>1 DEF OrderInv, ForwardOrder
      <4> QED
        BY <1>0, <4>1 DEF Fate
    <3>2. CASE n # m
      BY <1>4, <3>2 DEF OrderInv, ForwardOrder
    <3> QED
      BY <3>1, <3>2
  <2>2. \A n \in Message : via[n] # None <=> fate'[n] \notin {"unsent", "dropped"}
    BY <1>3, <1>4 DEF OrderInv, ForwardOrder
  <2>3. \A k, n \in Message : k < n /\ Sender[k] = Sender[n] /\ fate'[n] # "unsent"
          => fate'[k] # "unsent"
    BY <1>2, <1>3, <1>4 DEF OrderInv, ForwardOrder
  <2> QED
    BY <1>1, <2>1, <2>2, <2>3 DEF ForwardOrder
<1>8. InOrder'
  <2> SUFFICES ASSUME NEW k \in Message, NEW n \in Message,
                      k < n, Sender[k] = Sender[n], via[k] # None, via[k] = via[n],
                      fate'[n] \in Taken
               PROVE  fate'[k] \in Taken \cup {"lost"}
    BY <1>1 DEF InOrder
  <2>1. n # m /\ fate[n] \in Taken
    BY <1>4 DEF Taken
  <2>2. fate[k] \in Taken \cup {"lost"}
    BY <2>1 DEF OrderInv, InOrder
  <2>3. k # m
    BY <1>3, <2>2 DEF Taken
  <2> QED
    BY <1>4, <2>2, <2>3
<1>9. QueueOrder'
  <2>1. /\ DOMAIN queue' = 1..(Len(queue) + 1) /\ DOMAIN queue = 1..Len(queue)
        /\ Len(queue) \in Nat
        /\ queue'[Len(queue) + 1] = m
        /\ \A i \in DOMAIN queue : queue'[i] = queue[i] /\ queue[i] \in Message
    BY <1>0, <1>1, <1>2
  <2>2. \A i \in DOMAIN queue : fate[queue[i]] = "queued" /\ queue[i] # m
    BY <1>3 DEF OrderInv, QueueOrder
  <2>3. \A i \in DOMAIN queue :
          Sender[queue[i]] = Sender[m] /\ via[queue[i]] = via[m] => queue[i] < m
    <3> SUFFICES ASSUME NEW i \in DOMAIN queue,
                        Sender[queue[i]] = Sender[m], via[queue[i]] = via[m]
                 PROVE  ~(m < queue[i])
      <4>1. m \in Nat /\ \A i \in DOMAIN queue : queue[i] \in Nat /\ queue[i] # m
        BY <1>0, <1>2, <2>1, <2>2
      <4> QED
        BY <4>1
    <3>1. via[m] # None
      BY <1>2, <1>3 DEF OrderInv, ForwardOrder
    <3>2. fate[m] \notin Taken \cup {"queued", "lost"}
      BY <1>3 DEF Taken
    <3> QED
      BY <1>2, <2>1, <2>2, <3>1, <3>2 DEF OrderInv, ForwardOrder
  <2>4. \A i \in DOMAIN queue' : fate'[queue'[i]] = "queued"
    BY <1>4, <2>1, <2>2
  <2>5. ASSUME NEW i \in DOMAIN queue', NEW j \in DOMAIN queue', i < j
        PROVE  /\ queue'[i] # queue'[j]
               /\ Sender[queue'[i]] = Sender[queue'[j]] /\ via[queue'[i]] = via[queue'[j]]
                    => queue'[i] < queue'[j]
    <3>1. i \in DOMAIN queue /\ queue'[i] = queue[i]
      BY <2>1, <2>5
    <3>2. CASE j \in DOMAIN queue
      <4>1. queue'[j] = queue[j]
        BY <2>1, <3>2
      <4> QED
        BY <2>5, <3>1, <3>2, <4>1 DEF OrderInv, QueueOrder
    <3>3. CASE j = Len(queue) + 1
      <4>1. queue'[j] = m
        BY <2>1, <3>3
      <4> QED
        BY <2>2, <2>3, <3>1, <4>1
    <3> QED
      BY <2>1, <3>2, <3>3
  <2>6. ASSUME NEW n \in Message, fate'[n] = "queued"
        PROVE  \E i \in DOMAIN queue' : queue'[i] = n
    <3>1. CASE n = m
      BY <2>1, <3>1
    <3>2. CASE n # m
      <4>1. PICK i \in DOMAIN queue : queue[i] = n
        BY <1>4, <2>6, <3>2 DEF OrderInv, QueueOrder
      <4> QED
        BY <2>1, <4>1
    <3> QED
      BY <3>1, <3>2
  <2> QED
    BY <1>1, <2>4, <2>5, <2>6 DEF QueueOrder
<1>10. AnsweredIsTaken'
  <2>1. eng # "idle" => msg # m /\ msg \in Message /\ fate[msg] = "working"
    BY <1>0, <1>3 DEF OrderInv, AnsweredIsTaken
  <2>2. \A t \in Socket : \A i \in DOMAIN down[t] : down[t][i].msg # None =>
          /\ down[t][i].msg \in Message \ {m}
          /\ fate[down[t][i].msg] \in Taken \ {"working"}
    BY <1>0, <1>3, FrameAt DEF OrderInv, AnsweredIsTaken, Taken
  <2> QED
    BY <1>1, <1>4, <2>1, <2>2 DEF AnsweredIsTaken
<1> QED
  BY <1>5, <1>7, <1>8, <1>9, <1>10 DEF OrderInv

\* A handler starts to serve, refuses, or ends.
LEMMA HandlerOrder ==
  ASSUME IInv, OrderInv, NEW s \in Socket, Handling(s)
  PROVE  OrderInv'
<1>0. /\ handler \in [Socket -> {"ended", "handshake", "rejecting", "serving"}]
      /\ far \in [Socket -> BOOLEAN] /\ None \notin Message
      /\ up \in [Socket -> Seq(Frame)] /\ down \in [Socket -> Seq(Frame)]
  BY ConstantsOK DEF ConstantsOK, IInv, TypeOK
<1>1. CASE Accept(s)
  <2>1. /\ handler[s] = "handshake" /\ up[s] # <<>>
        /\ handler' = [handler EXCEPT ![s] = "serving"]
        /\ up' = [up EXCEPT ![s] = Tail(@)]
        /\ down' = [down EXCEPT ![s] = IF s \in cut THEN @ ELSE Append(@, WelcomeFrame)]
        /\ UNCHANGED <<far, cut, queue, eng, msg, fate, via>>
    BY <1>1 DEF Accept
  <2>2. up[s][1].msg = None
    BY <2>1 DEF OrderInv, UpOrder
  <2>3. UpOrder' /\ SentIsUp'
    BY <1>0, <2>1, <2>2, ReadOrder
  <2>4. QueueOrder' /\ ForwardOrder' /\ InOrder'
    BY <2>1 DEF OrderInv, QueueOrder, ForwardOrder, InOrder
  <2>5. \A t \in Socket : \A i \in DOMAIN down'[t] :
          \/ down'[t][i] = WelcomeFrame
          \/ i \in DOMAIN down[t] /\ down'[t][i] = down[t][i]
    BY <1>0, <2>1, AppendToFrames DEF WelcomeFrame, Welcome, Frame
  <2>6. AnsweredIsTaken'
    BY <2>1, <2>5 DEF OrderInv, AnsweredIsTaken, WelcomeFrame
  <2> QED
    BY <2>3, <2>4, <2>6 DEF OrderInv
<1>2. CASE Reject(s)
  <2>1. /\ UNCHANGED <<up, down, queue, eng, msg, fate, via, cut>>
        /\ \A t \in Socket : /\ far'[t] => far[t]
                             /\ handler'[t] = "rejecting" \/ handler'[t] = handler[t]
    BY <1>0, <1>2 DEF Reject
  <2>2. AnsweredIsTaken'
    BY <2>1 DEF OrderInv, AnsweredIsTaken
  <2> QED
    BY <2>1, <2>2, QuietStep
<1>3. CASE AcceptRaises(s) \/ RejectEnds(s) \/ HandshakeFails(s) \/ ServingEnds(s)
  BY <1>3, CloseOrder DEF AcceptRaises, RejectEnds, HandshakeFails, ServingEnds
<1>4. CASE Receive(s)
  BY <1>4, ReceiveOrder
<1> QED
  BY <1>1, <1>2, <1>3, <1>4 DEF Handling

\* The oldest message is taken: those before it on its connection were taken or lost.
LEMMA TakeOrder ==
  ASSUME IInv, OrderInv, Take
  PROVE  OrderInv'
<1> DEFINE m == queue[1]
<1>0. /\ None \notin Message /\ Message \subseteq Nat
      /\ fate \in [Message -> Fate] /\ via \in [Message -> Socket \cup {None}]
      /\ queue \in Seq(Message)
      /\ up \in [Socket -> Seq(Frame)] /\ down \in [Socket -> Seq(Frame)]
  BY ConstantsOK DEF ConstantsOK, IInv, TypeOK
<1>1. /\ 1 \in DOMAIN queue /\ m \in Message /\ msg' = m /\ queue' = Tail(queue)
      /\ fate' = [fate EXCEPT ![m] = "working"]
      /\ UNCHANGED <<handler, far, cut, up, down, via>>
  BY <1>0 DEF Take
<1>2. fate[m] = "queued"
  BY <1>1 DEF OrderInv, QueueOrder
<1>3. fate'[m] = "working" /\ \A n \in Message \ {m} : fate'[n] = fate[n]
  BY <1>0, <1>1
<1>4. \A t \in Socket : \A i \in DOMAIN up[t] : up[t][i].msg \in Message \cup {None}
  BY <1>0, FrameAt
<1>5. UpOrder'
  <2>1. \A t \in Socket : \A i \in DOMAIN up[t] : up[t][i].msg # None =>
          fate'[up[t][i].msg] = "sent" /\ via[up[t][i].msg] = t
    BY <1>2, <1>3, <1>4 DEF OrderInv, UpOrder
  <2> QED
    BY <1>1, <2>1 DEF OrderInv, UpOrder
<1>6. SentIsUp'
  BY <1>1, <1>3 DEF OrderInv, SentIsUp
<1>7. /\ DOMAIN queue = 1..Len(queue) /\ DOMAIN queue' = 1..(Len(queue) - 1)
      /\ Len(queue) \in Nat
      /\ \A i \in DOMAIN queue' : i + 1 \in DOMAIN queue /\ queue'[i] = queue[i + 1]
      /\ \A i \in DOMAIN queue : queue[i] \in Message
  BY <1>0, <1>1
<1>8. \A i \in DOMAIN queue : i # 1 =>
        /\ queue[i] # m
        /\ Sender[queue[i]] = Sender[m] /\ via[queue[i]] = via[m] => m < queue[i]
  <2> SUFFICES ASSUME NEW i \in DOMAIN queue, i # 1
               PROVE  /\ queue[i] # m
                      /\ Sender[queue[i]] = Sender[m] /\ via[queue[i]] = via[m]
                           => m < queue[i]
    OBVIOUS
  <2>1. 1 < i
    BY <1>7
  <2> QED
    BY <1>1, <2>1 DEF OrderInv, QueueOrder
<1>9. QueueOrder'
  <2>1. ASSUME NEW i \in DOMAIN queue'
        PROVE  fate'[queue'[i]] = "queued"
    <3>1. i + 1 \in DOMAIN queue /\ queue'[i] = queue[i + 1] /\ i + 1 # 1
      BY <1>7
    <3> QED
      BY <1>3, <1>7, <1>8, <3>1 DEF OrderInv, QueueOrder
  <2>2. ASSUME NEW i \in DOMAIN queue', NEW j \in DOMAIN queue', i < j
        PROVE  /\ queue'[i] # queue'[j]
               /\ Sender[queue'[i]] = Sender[queue'[j]] /\ via[queue'[i]] = via[queue'[j]]
                    => queue'[i] < queue'[j]
    <3>1. /\ i + 1 \in DOMAIN queue /\ queue'[i] = queue[i + 1]
          /\ j + 1 \in DOMAIN queue /\ queue'[j] = queue[j + 1]
          /\ i + 1 < j + 1
      BY <1>7, <2>2
    <3> QED
      BY <3>1 DEF OrderInv, QueueOrder
  <2>3. ASSUME NEW n \in Message, fate'[n] = "queued"
        PROVE  \E i \in DOMAIN queue' : queue'[i] = n
    <3>1. n # m /\ fate[n] = "queued"
      BY <1>3, <2>3
    <3>2. PICK j \in DOMAIN queue : queue[j] = n
      BY <3>1 DEF OrderInv, QueueOrder
    <3>3. j - 1 \in DOMAIN queue' /\ queue'[j - 1] = queue[j]
      BY <1>7, <3>1, <3>2
    <3> QED
      BY <3>2, <3>3
  <2> QED
    BY <1>1, <2>1, <2>2, <2>3 DEF QueueOrder
<1>10. AnsweredIsTaken'
  <2>1. \A t \in Socket : \A i \in DOMAIN down[t] : down[t][i].msg # None =>
          /\ down[t][i].msg \in Message \ {m}
          /\ fate[down[t][i].msg] \in Taken \ {"working"}
    BY <1>0, <1>2, FrameAt DEF OrderInv, AnsweredIsTaken, Taken
  <2> QED
    BY <1>1, <1>3, <2>1 DEF AnsweredIsTaken
<1>11. ForwardOrder'
  <2>1. \A n \in Message : /\ fate'[n] \in Taken \cup {"queued"}
                               <=> fate[n] \in Taken \cup {"queued"}
                           /\ fate'[n] \in {"unsent", "dropped", "lost"} => fate'[n] = fate[n]
                           /\ fate[n] \in {"unsent", "dropped", "lost"} => fate'[n] = fate[n]
    BY <1>2, <1>3 DEF Taken
  <2> QED
    BY <1>1, <2>1 DEF OrderInv, ForwardOrder
<1>12. InOrder'
  <2> SUFFICES ASSUME NEW k \in Message, NEW n \in Message,
                      k < n, Sender[k] = Sender[n], via[k] # None, via[k] = via[n],
                      fate'[n] \in Taken
               PROVE  fate'[k] \in Taken \cup {"lost"}
    BY <1>1 DEF InOrder
  <2>1. CASE n # m
    <3>1. fate[k] \in Taken \cup {"lost"}
      BY <1>3, <2>1 DEF OrderInv, InOrder
    <3> QED
      BY <1>2, <1>3, <3>1 DEF Taken
  <2>2. CASE n = m
    <3>1. fate[k] \in Taken \cup {"queued", "lost"}
      BY <1>2, <2>2 DEF OrderInv, ForwardOrder
    <3>2. ASSUME fate[k] = "queued" PROVE FALSE
      <4>1. PICK j \in DOMAIN queue : queue[j] = k
        BY <3>2 DEF OrderInv, QueueOrder
      <4>2. k # m
        BY <1>0, <2>2
      <4>3. m < k
        BY <1>8, <2>2, <4>1, <4>2
      <4> QED
        BY <1>0, <1>1, <2>2, <4>3
    <3> QED
      BY <1>3, <2>2, <3>1, <3>2 DEF Taken
  <2> QED
    BY <2>1, <2>2
<1> QED
  BY <1>5, <1>6, <1>9, <1>10, <1>11, <1>12 DEF OrderInv

\* An answer settles the message in hand and nothing else.
LEMMA AnswerOrder ==
  ASSUME IInv, OrderInv, Reply \/ ReplyRaises \/ ErrorReply \/ ErrorReplyRaises
  PROVE  OrderInv'
<1>0. /\ None \notin Message
      /\ fate \in [Message -> Fate]
      /\ down \in [Socket -> Seq(Frame)]
      /\ connections \in [Name -> Socket \cup {None}]
      /\ NameOf \in [Adapter -> Name] /\ Sender \in [Message -> Adapter]
      /\ ReplyType \in [Message -> {"message", "ack"}]
  BY ConstantsOK DEF ConstantsOK, IInv, TypeOK
<1>1. msg \in Message /\ fate[msg] = "working"
  BY DEF Reply, ReplyRaises, ErrorReply, ErrorReplyRaises, OrderInv, AnsweredIsTaken, IInv, TypeOK
<1>2. UNCHANGED <<handler, far, cut, up, queue, via>>
  BY DEF Reply, ReplyRaises, ErrorReply, ErrorReplyRaises, Send
<1>3. \A t \in Socket : \A i \in DOMAIN down[t] : down[t][i].msg # None =>
        /\ down[t][i].msg \in Message \ {msg}
        /\ fate[down[t][i].msg] \in Taken \ {"working"}
  BY <1>0, <1>1, FrameAt DEF OrderInv, AnsweredIsTaken, Taken
<1>4. CASE ReplyRaises
  <2>1. UNCHANGED <<down, msg, fate>>
    BY <1>4 DEF ReplyRaises
  <2>2. AnsweredIsTaken'
    BY <1>1, <1>3, <2>1 DEF AnsweredIsTaken
  <2> QED
    BY <1>2, <2>1, <2>2, QuietStep
<1>5. CASE ErrorReplyRaises
  <2>1. eng' = "idle" /\ down' = down /\ fate' = [fate EXCEPT ![msg] = "failed"]
    BY <1>5 DEF ErrorReplyRaises, Finish
  <2>2. fate'[msg] = "failed" /\ \A n \in Message \ {msg} : fate'[n] = fate[n]
    BY <1>0, <1>1, <2>1
  <2>3. AnsweredIsTaken'
    BY <1>3, <2>1, <2>2 DEF AnsweredIsTaken
  <2> QED
    BY <1>1, <1>2, <2>2, <2>3, QuietStep DEF Taken
<1>6. ASSUME NEW type \in {"message", "ack", "error"}, Send(type) PROVE OrderInv'
  <2> DEFINE f == [type |-> type, msg |-> msg]
  <2>1. /\ eng' = "idle"
        /\ \/ /\ down' = down
              /\ \E r \in {"unconnected", "answerLost"} : fate' = [fate EXCEPT ![msg] = r]
           \/ /\ down' = [down EXCEPT ![Target] = Append(@, f)]
              /\ Target \in Socket
              /\ fate' = [fate EXCEPT ![msg] = "answered"]
    BY <1>0, <1>1, <1>6 DEF Send, Write, Finish, Target
  <2>2. /\ fate'[msg] \in Taken \ {"working"}
        /\ \A n \in Message \ {msg} : fate'[n] = fate[n]
    BY <1>0, <1>1, <2>1 DEF Taken
  <2>3. \A t \in Socket : \A i \in DOMAIN down'[t] :
          down'[t][i] = f \/ (i \in DOMAIN down[t] /\ down'[t][i] = down[t][i])
    <3>1. f \in Frame
      BY <1>1 DEF Frame
    <3>2. CASE down' = down
      BY <3>2
    <3>3. CASE Target \in Socket /\ down' = [down EXCEPT ![Target] = Append(@, f)]
      <4>1. \A t \in Socket : down[t] \in Seq(Frame)
        BY <1>0
      <4>2. \A t \in Socket : down'[t] = down[t] \/ down'[t] = Append(down[t], f)
        BY <1>0, <3>3
      <4> QED
        BY <3>1, <4>1, <4>2, AppendToFrames
    <3> QED
      BY <2>1, <3>2, <3>3
  <2>4. AnsweredIsTaken'
    BY <1>3, <2>1, <2>2, <2>3 DEF AnsweredIsTaken
  <2> QED
    BY <1>1, <1>2, <2>2, <2>4, QuietStep DEF Taken
<1> QED
  BY <1>0, <1>1, <1>4, <1>5, <1>6 DEF Reply, ErrorReply

\* The messages behind the prefix that arrived.
LEMMA SuffixMessages ==
  ASSUME NEW q \in Seq(Frame), NEW n \in 0..Len(q), NEW m,
         m \in MessagesIn(SubSeq(q, n + 1, Len(q)))
  PROVE  \E i \in DOMAIN q : i > n /\ q[i].msg = m /\ m # None
<1> DEFINE r == SubSeq(q, n + 1, Len(q))
<1>1. PICK i \in DOMAIN r : r[i].msg = m /\ m # None
  BY DEF MessagesIn
<1>2. i + n \in DOMAIN q /\ i + n > n /\ r[i] = q[i + n]
  OBVIOUS
<1> QED
  BY <1>1, <1>2

LEMMA MessagesOfSuffix ==
  ASSUME NEW q \in Seq(Frame), NEW n \in 0..Len(q), NEW i \in DOMAIN q, i > n, q[i].msg # None
  PROVE  q[i].msg \in MessagesIn(SubSeq(q, n + 1, Len(q)))
<1> DEFINE r == SubSeq(q, n + 1, Len(q))
<1>1. i - n \in DOMAIN r /\ r[i - n] = q[i]
  OBVIOUS
<1> QED
  BY <1>1 DEF MessagesIn

\* A broken path loses the frames behind some prefix of each direction.
LEMMA CutOrder ==
  ASSUME IInv, OrderInv, NEW s \in Socket, Cut(s)
  PROVE  OrderInv'
<1>0. /\ None \notin Message /\ Message \subseteq Nat
      /\ fate \in [Message -> Fate]
      /\ up \in [Socket -> Seq(Frame)] /\ down \in [Socket -> Seq(Frame)]
      /\ msg \in Message \cup {None} /\ (eng # "idle" => msg # None)
  BY ConstantsOK DEF ConstantsOK, IInv, TypeOK
<1>a. handler' = handler /\ far' = far /\ via' = via
  BY DEF Cut
<1>1. /\ UNCHANGED <<handler, far, queue, eng, msg, via>>
      /\ cut' = cut \cup {s}
      /\ \E i \in 0..Len(up[s]), j \in 0..Len(down[s]) :
           /\ up' = [up EXCEPT ![s] = SubSeq(@, 1, i)]
           /\ down' = [down EXCEPT ![s] = SubSeq(@, 1, j)]
           /\ fate' = Lose(fate, MessagesIn(SubSeq(up[s], i + 1, Len(up[s]))),
                                 MessagesIn(SubSeq(down[s], j + 1, Len(down[s]))))
  BY DEF Cut
<1>2. PICK p \in 0..Len(up[s]), q \in 0..Len(down[s]) :
        /\ up' = [up EXCEPT ![s] = SubSeq(@, 1, p)]
        /\ down' = [down EXCEPT ![s] = SubSeq(@, 1, q)]
        /\ fate' = Lose(fate, MessagesIn(SubSeq(up[s], p + 1, Len(up[s]))),
                              MessagesIn(SubSeq(down[s], q + 1, Len(down[s]))))
  BY <1>1
<1> DEFINE lostUp == MessagesIn(SubSeq(up[s], p + 1, Len(up[s])))
           lostDown == MessagesIn(SubSeq(down[s], q + 1, Len(down[s])))
<1>3. up[s] \in Seq(Frame) /\ down[s] \in Seq(Frame)
  BY <1>0
<1>4. \A m \in Message :
        fate'[m] = IF m \in lostUp THEN "lost"
                   ELSE IF m \in lostDown THEN "answerLost" ELSE fate[m]
  BY <1>2 DEF Lose
<1>5. \A m \in lostUp : /\ fate[m] = "sent" /\ via[m] = s
                        /\ \E i \in DOMAIN up[s] : i > p /\ up[s][i].msg = m
  BY <1>3, SuffixMessages DEF OrderInv, UpOrder
<1>6. \A m \in lostDown : fate[m] \in Taken \ {"working"}
  <2> SUFFICES ASSUME NEW m \in lostDown PROVE fate[m] \in Taken \ {"working"}
    OBVIOUS
  <2>1. PICK i \in DOMAIN down[s] : i > q /\ down[s][i].msg = m /\ m # None
    BY <1>3, SuffixMessages
  <2> QED
    BY <2>1 DEF OrderInv, AnsweredIsTaken
<1> HIDE DEF lostUp, lostDown
<1>7. \A m \in Message :
        \/ fate'[m] = fate[m]
        \/ fate[m] = "sent" /\ fate'[m] = "lost" /\ m \in lostUp
        \/ fate[m] \in Taken \ {"working"} /\ fate'[m] \in Taken \ {"working"}
  BY <1>4, <1>5, <1>6 DEF Taken
<1>8. ForwardOrder' /\ InOrder'
  BY <1>1, <1>7, FateStep DEF OrderInv, IInv
<1>9. QueueOrder'
  BY <1>1, <1>7, QueueStep DEF OrderInv, IInv, Taken
<1>10. /\ \A t \in Socket \ {s} : up'[t] = up[t] /\ down'[t] = down[t]
       /\ DOMAIN up[s] = 1..Len(up[s]) /\ Len(up[s]) \in Nat
       /\ DOMAIN up'[s] = 1..p /\ DOMAIN up'[s] \subseteq DOMAIN up[s]
       /\ \A i \in DOMAIN up'[s] : up'[s][i] = up[s][i]
       /\ \A i \in DOMAIN down'[s] : i \in DOMAIN down[s] /\ down'[s][i] = down[s][i]
  BY <1>0, <1>2, <1>3
<1>11. \A t \in Socket : \A i \in DOMAIN up[t] : up[t][i].msg \in Message \cup {None}
  BY <1>0, FrameAt
<1>12. AnsweredIsTaken'
  <2>1. eng # "idle" => msg \in Message /\ fate'[msg] = "working"
    BY <1>0, <1>7 DEF OrderInv, AnsweredIsTaken, Taken
  <2>2. \A t \in Socket : \A i \in DOMAIN down[t] : down[t][i].msg # None =>
          /\ down[t][i].msg \in Message
          /\ fate[down[t][i].msg] \in Taken \ {"working"}
    BY <1>0, FrameAt DEF OrderInv, AnsweredIsTaken
  <2>3. \A t \in Socket : \A i \in DOMAIN down[t] : down[t][i].msg # None =>
          fate'[down[t][i].msg] \in Taken \ {"working"}
    BY <1>7, <2>2 DEF Taken
  <2> QED
    BY <1>1, <1>10, <2>1, <2>3 DEF AnsweredIsTaken
<1>13. \A i \in DOMAIN up'[s] : up[s][i].msg # None => up[s][i].msg \notin lostUp
  <2> SUFFICES ASSUME NEW i \in DOMAIN up'[s], up[s][i].msg # None, up[s][i].msg \in lostUp
               PROVE  FALSE
    OBVIOUS
  <2>1. PICK k \in DOMAIN up[s] : k > p /\ up[s][k].msg = up[s][i].msg
    BY <1>5
  <2>2. i \in DOMAIN up[s] /\ i < k
    BY <1>10, <2>1
  <2>3. up[s][i].msg < up[s][k].msg
    BY <2>1, <2>2 DEF OrderInv, UpOrder
  <2>4. up[s][i].msg \in Nat
    BY <1>0, <1>11, <2>2
  <2> QED
    BY <2>1, <2>3, <2>4
<1>14. UpOrder'
  <2> SUFFICES ASSUME NEW t \in Socket
               PROVE  /\ handler[t] = "ended" => up'[t] = <<>> /\ ~far[t]
                      /\ handler[t] = "handshake" =>
                           /\ t \in cut' \/ up'[t] # <<>>
                           /\ up'[t] # <<>> => up'[t][1].msg = None
                      /\ \A i \in DOMAIN up'[t] : up'[t][i].msg # None =>
                           fate'[up'[t][i].msg] = "sent" /\ via[up'[t][i].msg] = t
                      /\ \A i, j \in DOMAIN up'[t] :
                           i < j /\ up'[t][i].msg # None /\ up'[t][j].msg # None
                             /\ Sender[up'[t][i].msg] = Sender[up'[t][j].msg]
                           => up'[t][i].msg < up'[t][j].msg
    BY <1>a DEF UpOrder
  <2>1. \A i \in DOMAIN up'[t] : i \in DOMAIN up[t] /\ up'[t][i] = up[t][i]
    BY <1>10
  <2>2. handler[t] = "ended" => up'[t] = <<>> /\ ~far[t]
    <3>1. handler[t] = "ended" => up[t] = <<>> /\ ~far[t]
      BY DEF OrderInv, UpOrder
    <3>2. handler[s] # "ended"
      BY DEF Cut, OrderInv, UpOrder
    <3> QED
      BY <1>10, <3>1, <3>2
  <2>3. handler[t] = "handshake" => t \in cut' \/ up'[t] # <<>>
    BY <1>1, <1>10 DEF OrderInv, UpOrder
  <2>4. handler[t] = "handshake" /\ up'[t] # <<>> => up'[t][1].msg = None
    <3>1. up'[t] # <<>> => 1 \in DOMAIN up'[t] /\ up[t] # <<>>
      <4>1. up'[t] \in Seq(Frame) /\ up[t] \in Seq(Frame)
        BY <1>0, <1>2, <1>3, PrefixOfFrames
      <4> QED
        BY <2>1, <4>1
    <3> QED
      BY <2>1, <3>1 DEF OrderInv, UpOrder
  <2>5. ASSUME NEW i \in DOMAIN up'[t], up'[t][i].msg # None
        PROVE  fate'[up'[t][i].msg] = "sent" /\ via[up'[t][i].msg] = t
    <3>1. /\ i \in DOMAIN up[t] /\ up'[t][i] = up[t][i] /\ up[t][i].msg \in Message
          /\ fate[up[t][i].msg] = "sent" /\ via[up[t][i].msg] = t
      BY <1>11, <2>1, <2>5 DEF OrderInv, UpOrder
    <3>2. up[t][i].msg \notin lostUp
      BY <1>5, <1>13, <2>5, <3>1
    <3> QED
      BY <1>7, <3>1, <3>2 DEF Taken
  <2>6. ASSUME NEW i \in DOMAIN up'[t], NEW j \in DOMAIN up'[t], i < j,
               up'[t][i].msg # None, up'[t][j].msg # None,
               Sender[up'[t][i].msg] = Sender[up'[t][j].msg]
        PROVE  up'[t][i].msg < up'[t][j].msg
    BY <2>1, <2>6 DEF OrderInv, UpOrder
  <2> QED
    BY <2>2, <2>3, <2>4, <2>5, <2>6
<1>15. SentIsUp'
  <2> SUFFICES ASSUME NEW m \in Message, fate'[m] = "sent"
               PROVE  via[m] \in Socket /\ \E i \in DOMAIN up'[via[m]] : up'[via[m]][i].msg = m
    BY <1>1 DEF SentIsUp
  <2>1. fate[m] = "sent" /\ m \notin lostUp
    BY <1>4
  <2>2. via[m] \in Socket /\ \E i \in DOMAIN up[via[m]] : up[via[m]][i].msg = m
    BY <2>1 DEF OrderInv, SentIsUp
  <2>3. PICK i \in DOMAIN up[via[m]] : up[via[m]][i].msg = m
    BY <2>2
  <2>4. CASE via[m] # s
    BY <1>10, <2>2, <2>3, <2>4
  <2>5. CASE via[m] = s
    <3>1. ~(i > p)
      <4>1. i \in DOMAIN up[s] /\ up[s][i].msg = m /\ m # None /\ p \in 0..Len(up[s])
        BY <1>0, <2>3, <2>5
      <4>2. i > p => m \in lostUp
        BY <1>3, <4>1, MessagesOfSuffix DEF lostUp
      <4> QED
        BY <2>1, <4>2
    <3>2. i \in DOMAIN up'[s]
      BY <1>10, <2>3, <2>5, <3>1
    <3> QED
      BY <1>10, <2>2, <2>3, <2>5, <3>2
  <2> QED
    BY <2>4, <2>5
<1> QED
  BY <1>8, <1>9, <1>12, <1>14, <1>15 DEF OrderInv

\* Ends that close move nothing.
LEMMA EndOrder ==
  ASSUME IInv, OrderInv, NEW s \in Socket, NearCloses(s) \/ FarCloses(s)
  PROVE  OrderInv'
<1>1. /\ UNCHANGED <<handler, cut, up, down, queue, eng, msg, fate, via>>
      /\ \A t \in Socket : far'[t] => far[t]
  BY DEF NearCloses, FarCloses, IInv, TypeOK
<1>2. AnsweredIsTaken'
  BY <1>1 DEF OrderInv, AnsweredIsTaken
<1> QED
  BY <1>1, <1>2, QuietStep

\* A restart loses what was under way, all of it.
LEMMA RestartOrder ==
  ASSUME IInv, OrderInv, CoreRestart
  PROVE  OrderInv'
<1>0. /\ None \notin Message
      /\ fate \in [Message -> Fate] /\ down \in [Socket -> Seq(Frame)]
  BY ConstantsOK DEF ConstantsOK, IInv, TypeOK
<1>1. /\ UNCHANGED <<down, via>> /\ queue' = <<>> /\ eng' = "idle"
      /\ \A s \in Socket : handler'[s] = "ended" /\ ~far'[s] /\ up'[s] = <<>>
      /\ \A m \in Message :
           fate'[m] = IF fate[m] \in {"sent", "queued", "working"} THEN "lost" ELSE fate[m]
  BY DEF CoreRestart, Finish, Lose
<1>2. ForwardOrder' /\ InOrder'
  <2>1. \A m \in Message :
          \/ fate'[m] = fate[m]
          \/ fate[m] \in Taken \cup {"sent", "queued"} /\ fate'[m] = "lost"
    BY <1>1 DEF Taken
  <2> QED
    BY <1>1, <2>1, FateStep DEF OrderInv, IInv
<1>3. UpOrder' /\ SentIsUp' /\ QueueOrder'
  BY <1>1 DEF UpOrder, SentIsUp, QueueOrder
<1>4. AnsweredIsTaken'
  <2>1. \A t \in Socket : \A i \in DOMAIN down[t] : down[t][i].msg # None =>
          /\ down[t][i].msg \in Message
          /\ fate[down[t][i].msg] \in Taken \ {"working"}
    BY <1>0, FrameAt DEF OrderInv, AnsweredIsTaken
  <2>2. \A t \in Socket : \A i \in DOMAIN down[t] : down[t][i].msg # None =>
          fate'[down[t][i].msg] \in Taken \ {"working"}
    BY <1>1, <2>1 DEF Taken
  <2> QED
    BY <1>1, <2>2 DEF AnsweredIsTaken
<1> QED
  BY <1>2, <1>3, <1>4 DEF OrderInv

LEMMA InitOrder == Init => OrderInv
<1> SUFFICES ASSUME Init PROVE OrderInv
  OBVIOUS
<1>1. UpOrder /\ SentIsUp /\ QueueOrder /\ AnsweredIsTaken
  BY DEF Init, UpOrder, SentIsUp, QueueOrder, AnsweredIsTaken
<1>2. ForwardOrder /\ InOrder
  BY DEF Init, ForwardOrder, InOrder, Taken
<1> QED
  BY <1>1, <1>2 DEF OrderInv

LEMMA OrderStep == IInv /\ OrderInv /\ [Next]_vars => OrderInv'
<1> SUFFICES ASSUME IInv, OrderInv, [Next]_vars PROVE OrderInv'
  OBVIOUS
<1>1. CASE UNCHANGED vars
  BY <1>1 DEF vars, OrderInv, UpOrder, SentIsUp, QueueOrder, AnsweredIsTaken, ForwardOrder,
              InOrder
<1>2. ASSUME NEW a \in Adapter, Connecting(a) \/ DispatchRaises(a) PROVE OrderInv'
  BY <1>2, DialOrder, ListeningOrder DEF Connecting
<1>3. ASSUME NEW m \in Message, Forward(m) PROVE OrderInv'
  BY <1>3, WriteOrder
<1>4. ASSUME NEW s \in Socket, Handling(s) \/ Network(s) PROVE OrderInv'
  BY <1>4, HandlerOrder, CutOrder, EndOrder DEF Network
<1>5. CASE Engine
  BY <1>5, TakeOrder, AnswerOrder DEF Engine
<1>6. CASE CoreRestart
  BY <1>6, RestartOrder
<1> QED
  BY <1>1, <1>2, <1>3, <1>4, <1>5, <1>6 DEF Next

\* Of two messages of an adapter on one connection, the second is only taken when the first
\* was taken before it or is lost: nothing overtakes on the socket or in the queue, through
\* any number of broken paths, failing dispatches and restarts.
THEOREM OrderKept == Spec => []InOrder
<1>1. Init => IInv /\ OrderInv
  BY InitIInv, InitOrder
<1>2. IInv /\ IInv' /\ OrderInv /\ [Next]_vars => OrderInv'
  BY OrderStep
<1>3. OrderInv => InOrder
  BY DEF OrderInv
<1> QED
  BY <1>1, <1>2, <1>3, InductiveInvariant, PTL DEF Spec

--------------------------------------------------------------------------------
(* Answers.                                                                   *)

\* An answer that has not been read is on one socket, once; the message in hand is the one
\* that is worked on.
AnswerOnce ==
  /\ \A s \in Socket : \A i \in DOMAIN down[s] :
       LET m == down[s][i].msg
       IN  m # None =>
             /\ fate[m] = "answered"
             /\ \A t \in Socket : \A j \in DOMAIN down[t] :
                  down[t][j].msg = m => t = s /\ j = i
  /\ \A m \in Message : fate[m] = "working" => eng # "idle" /\ msg = m

\* No socket has more answers than before, nor in another order.
NoMoreAnswers ==
  \A t \in Socket :
    /\ down'[t] \in Seq(Frame)
    /\ \E k \in Nat : \A i \in DOMAIN down'[t] : down'[t][i].msg # None =>
         i + k \in DOMAIN down[t] /\ down'[t][i] = down[t][i + k]

LEMMA SameAnswers ==
  ASSUME TypeOK, down' = down
  PROVE  NoMoreAnswers
<1>1. \A t \in Socket : down[t] \in Seq(Frame)
  BY DEF TypeOK
<1>2. \A t \in Socket : \A i \in DOMAIN down[t] :
        i + 0 \in DOMAIN down[t] /\ down[t][i] = down[t][i + 0]
  BY <1>1
<1>3. 0 \in Nat
  OBVIOUS
<1> QED
  BY <1>1, <1>2, <1>3 DEF NoMoreAnswers

\* The same, with one socket that has lost its first answer, its last ones, or all.
LEMMA OneReads ==
  ASSUME TypeOK, NEW s \in Socket, NEW q \in Seq(Frame), down' = [down EXCEPT ![s] = q],
         NEW k \in Nat,
         \A i \in DOMAIN q : q[i].msg # None =>
           i + k \in DOMAIN down[s] /\ q[i] = down[s][i + k]
  PROVE  NoMoreAnswers
<1>1. /\ \A t \in Socket : down[t] \in Seq(Frame)
      /\ down'[s] = q /\ \A t \in Socket \ {s} : down'[t] = down[t]
  BY DEF TypeOK
<1>2. ASSUME NEW t \in Socket \ {s}
      PROVE  /\ down'[t] \in Seq(Frame)
             /\ \E l \in Nat : \A i \in DOMAIN down'[t] : down'[t][i].msg # None =>
                  i + l \in DOMAIN down[t] /\ down'[t][i] = down[t][i + l]
  <2>1. \A i \in DOMAIN down[t] : i + 0 \in DOMAIN down[t] /\ down[t][i] = down[t][i + 0]
    BY <1>1
  <2>2. 0 \in Nat
    OBVIOUS
  <2> QED
    BY <1>1, <2>1, <2>2
<1>3. down'[s] \in Seq(Frame)
      /\ \E l \in Nat : \A i \in DOMAIN down'[s] : down'[s][i].msg # None =>
           i + l \in DOMAIN down[s] /\ down'[s][i] = down[s][i + l]
  BY <1>1
<1>4. ASSUME NEW t \in Socket
      PROVE  /\ down'[t] \in Seq(Frame)
             /\ \E l \in Nat : \A i \in DOMAIN down'[t] : down'[t][i].msg # None =>
                  i + l \in DOMAIN down[t] /\ down'[t][i] = down[t][i + l]
  <2>1. CASE t = s
    BY <1>3, <2>1
  <2>2. CASE t # s
    BY <1>2, <2>2
  <2> QED
    BY <2>1, <2>2
<1> QED
  BY <1>4 DEF NoMoreAnswers

LEMMA FewerAnswers ==
  ASSUME TypeOK, AnswerOnce, NoMoreAnswers,
         \A t \in Socket : \A i \in DOMAIN down'[t] :
           down'[t][i].msg # None => fate'[down'[t][i].msg] = "answered",
         \A m \in Message : fate'[m] = "working" => eng' # "idle" /\ msg' = m
  PROVE  AnswerOnce'
<1> SUFFICES ASSUME NEW s \in Socket, NEW i \in DOMAIN down'[s], down'[s][i].msg # None,
                    NEW t \in Socket, NEW j \in DOMAIN down'[t],
                    down'[t][j].msg = down'[s][i].msg
             PROVE  t = s /\ j = i
  BY DEF AnswerOnce
<1>1. PICK k \in Nat : \A n \in DOMAIN down'[s] : down'[s][n].msg # None =>
                         n + k \in DOMAIN down[s] /\ down'[s][n] = down[s][n + k]
  BY DEF NoMoreAnswers
<1>2. PICK l \in Nat : \A n \in DOMAIN down'[t] : down'[t][n].msg # None =>
                         n + l \in DOMAIN down[t] /\ down'[t][n] = down[t][n + l]
  BY DEF NoMoreAnswers
<1>3. i + k \in DOMAIN down[s] /\ j + l \in DOMAIN down[t]
      /\ down[s][i + k].msg # None /\ down[t][j + l].msg = down[s][i + k].msg
  BY <1>1, <1>2
<1>4. t = s /\ j + l = i + k
  BY <1>3 DEF AnswerOnce
<1>5. i \in Nat /\ j \in Nat
  BY DEF NoMoreAnswers
<1>6. i + l \in DOMAIN down[s] /\ down[s][i + l] = down'[s][i]
  BY <1>2, <1>4
<1>7. i + l = i + k
  BY <1>3, <1>4, <1>6, <1>1 DEF AnswerOnce
<1> QED
  BY <1>4, <1>5, <1>7

LEMMA FewerComeHome ==
  ASSUME TypeOK, AnswersComeHome, NoMoreAnswers,
         \A t \in Socket : down'[t] = <<>> \/ owner'[t] = owner[t]
  PROVE  AnswersComeHome'
<1> SUFFICES ASSUME NEW t \in Socket, NEW i \in DOMAIN down'[t], down'[t][i].msg # None
             PROVE  /\ owner'[t] \in Trusted
                    /\ NameOf[owner'[t]] = NameOf[Sender[down'[t][i].msg]]
  BY DEF AnswersComeHome, ClaimedName
<1>1. owner'[t] = owner[t]
  OBVIOUS
<1>2. PICK k \in Nat : \A n \in DOMAIN down'[t] : down'[t][n].msg # None =>
                         n + k \in DOMAIN down[t] /\ down'[t][n] = down[t][n + k]
  BY DEF NoMoreAnswers
<1> QED
  BY <1>1, <1>2 DEF AnswersComeHome, ClaimedName

AnswerInv == AnswerOnce /\ AnswersComeHome

\* The adapters: an answer that is read leaves the socket, and no other knows of it.
LEMMA AdapterAnswers ==
  ASSUME IInv, IInv', AnswerInv, NEW a \in Adapter, Connecting(a) \/ DispatchRaises(a)
  PROVE  AnswerInv'
<1>0. /\ None \notin Message
      /\ fate \in [Message -> Fate]
      /\ down \in [Socket -> Seq(Frame)] /\ ws \in [Adapter -> Socket \cup {None}]
      /\ owner \in [Socket -> Adapter \cup {None}]
  BY ConstantsOK DEF ConstantsOK, IInv, TypeOK
<1>1. /\ \A s \in Socket : \A i \in DOMAIN down[s] : down[s][i].msg # None =>
           down[s][i].msg \in Message /\ fate[down[s][i].msg] = "answered"
      /\ \A m \in Message : fate[m] = "working" => eng # "idle" /\ msg = m
  BY <1>0, FrameAt DEF AnswerInv, AnswerOnce
<1>2. ASSUME NoMoreAnswers, \A t \in Socket : down'[t] = <<>> \/ owner'[t] = owner[t],
             \A t \in Socket : \A i \in DOMAIN down'[t] :
               down'[t][i].msg # None => fate'[down'[t][i].msg] = "answered",
             \A m \in Message : fate'[m] = "working" => eng' # "idle" /\ msg' = m
      PROVE  AnswerInv'
  BY <1>2, FewerAnswers, FewerComeHome DEF AnswerInv, IInv
<1>3. ASSUME NoMoreAnswers, \A t \in Socket : down'[t] = <<>> \/ owner'[t] = owner[t],
             UNCHANGED <<fate, eng, msg>>
      PROVE  AnswerInv'
  <2>1. \A t \in Socket : \A i \in DOMAIN down'[t] :
          down'[t][i].msg # None => fate'[down'[t][i].msg] = "answered"
    BY <1>1, <1>3 DEF NoMoreAnswers
  <2> QED
    BY <1>1, <1>2, <1>3, <2>1
<1>4. ASSUME NEW s \in Socket, Dial(a, s) PROVE AnswerInv'
  <2>1. down' = [down EXCEPT ![s] = <<>>] /\ UNCHANGED <<fate, eng, msg>>
    BY <1>4 DEF Dial
  <2>2. owner' = [owner EXCEPT ![s] = a]
    BY <1>4 DEF Dial
  <2>3. NoMoreAnswers
    <3>1. <<>> \in Seq(Frame) /\ DOMAIN <<>> = {} /\ 0 \in Nat
      OBVIOUS
    <3> QED
      BY <2>1, <3>1, OneReads DEF IInv
  <2>4. \A t \in Socket : down'[t] = <<>> \/ owner'[t] = owner[t]
    BY <1>0, <2>1, <2>2
  <2> QED
    BY <1>3, <2>1, <2>3, <2>4
<1>5. CASE HelloFails(a) \/ ListenEnds(a) \/ BackoffEnds(a)
  <2>1. UNCHANGED <<down, owner, fate, eng, msg>>
    BY <1>5 DEF HelloFails, ListenEnds, BackoffEnds
  <2> QED
    BY <1>3, <2>1, SameAnswers DEF IInv
<1>6. ASSUME ws[a] \in Socket, down[ws[a]] # <<>>, down' = [down EXCEPT ![ws[a]] = Tail(@)]
      PROVE  /\ NoMoreAnswers
             /\ \A t \in Socket \ {ws[a]} : down'[t] = down[t]
             /\ \A i \in DOMAIN down'[ws[a]] :
                  i + 1 \in DOMAIN down[ws[a]] /\ i + 1 > 1
                  /\ down'[ws[a]][i] = down[ws[a]][i + 1]
  <2>1. /\ Tail(down[ws[a]]) \in Seq(Frame)
        /\ \A i \in DOMAIN Tail(down[ws[a]]) :
             i + 1 \in DOMAIN down[ws[a]] /\ Tail(down[ws[a]])[i] = down[ws[a]][i + 1] /\ i + 1 > 1
    BY <1>0, <1>6, TailOfFrames
  <2>2. 1 \in Nat
    OBVIOUS
  <2>3. NoMoreAnswers
    BY <1>6, <2>1, <2>2, OneReads DEF IInv
  <2> QED
    BY <1>0, <1>6, <2>1, <2>3
<1>7. CASE RecvAck(a)
  <2>1. /\ ws[a] \in Socket /\ down[ws[a]] # <<>>
        /\ down' = [down EXCEPT ![ws[a]] = Tail(@)]
        /\ UNCHANGED <<owner, fate, eng, msg>>
    BY <1>7 DEF RecvAck, IInv, TypeOK
  <2> QED
    BY <1>3, <1>6, <2>1
<1>8. CASE Listen(a)
  <2> DEFINE h == down[ws[a]][1].msg
  <2>1. /\ ws[a] \in Socket /\ down[ws[a]] # <<>>
        /\ down' = [down EXCEPT ![ws[a]] = Tail(@)]
        /\ UNCHANGED <<owner, eng, msg>>
    BY <1>8 DEF Listen, IInv, TypeOK
  <2>2. 1 \in DOMAIN down[ws[a]] /\ Head(down[ws[a]]) = down[ws[a]][1]
    BY <1>0, <2>1
  <2>3. h \in Message \cup {None} /\ (h # None => fate[h] = "answered")
    BY <1>0, <1>1, <2>1, <2>2
  <2>4. /\ \A m \in Message \ {h} : fate'[m] = fate[m]
        /\ h # None => fate'[h] \in {"delivered", "ignored"}
    BY <1>0, <1>8, <2>2, <2>3 DEF Listen
  <2>5. ASSUME NEW t \in Socket, NEW i \in DOMAIN down'[t], down'[t][i].msg # None
        PROVE  down'[t][i].msg \in Message \ {h} /\ fate[down'[t][i].msg] = "answered"
    <3>1. CASE t = ws[a]
      <4>1. i + 1 \in DOMAIN down[t] /\ i + 1 # 1 /\ down'[t][i] = down[t][i + 1]
        BY <1>6, <2>1, <3>1
      <4>2. down[t][i + 1].msg # h
        BY <2>1, <2>2, <2>5, <3>1, <4>1 DEF AnswerInv, AnswerOnce
      <4> QED
        BY <1>1, <2>5, <4>1, <4>2
    <3>2. CASE t # ws[a]
      <4>1. down'[t] = down[t]
        BY <1>6, <2>1, <3>2
      <4>2. down[t][i].msg # h
        BY <2>1, <2>2, <2>5, <3>2, <4>1 DEF AnswerInv, AnswerOnce
      <4> QED
        BY <1>1, <2>5, <4>1, <4>2
    <3> QED
      BY <3>1, <3>2
  <2>6. \A m \in Message : fate'[m] = "working" => fate[m] = "working"
    BY <1>0, <2>3, <2>4
  <2> QED
    BY <1>1, <1>2, <1>6, <2>1, <2>4, <2>5, <2>6
<1>9. CASE DispatchRaises(a)
  <2> DEFINE lost == MessagesIn(down[ws[a]])
  <2>1. /\ ws[a] \in Socket
        /\ down' = [down EXCEPT ![ws[a]] = <<>>]
        /\ UNCHANGED <<owner, eng, msg>>
        /\ \A m \in Message : fate'[m] = IF m \in lost THEN "answerLost" ELSE fate[m]
    BY <1>9 DEF DispatchRaises, Lose, IInv, TypeOK
  <2>2. NoMoreAnswers
    <3>1. <<>> \in Seq(Frame) /\ DOMAIN <<>> = {} /\ 0 \in Nat
      OBVIOUS
    <3> QED
      BY <2>1, <3>1, OneReads DEF IInv
  <2>3. ASSUME NEW t \in Socket, NEW i \in DOMAIN down'[t], down'[t][i].msg # None
        PROVE  fate'[down'[t][i].msg] = "answered"
    <3>1. t # ws[a] /\ down'[t] = down[t]
      BY <1>0, <2>1, <2>3
    <3>2. down[t][i].msg \notin lost
      BY <2>1, <2>3, <3>1 DEF MessagesIn, AnswerInv, AnswerOnce
    <3> QED
      BY <1>1, <2>1, <2>3, <3>1, <3>2
  <2>4. \A m \in Message : fate'[m] = "working" => fate[m] = "working"
    BY <2>1
  <2> QED
    BY <1>1, <1>2, <2>1, <2>2, <2>3, <2>4
<1> QED
  BY <1>4, <1>5, <1>7, <1>8, <1>9 DEF Connecting

\* A handler that welcomes its adapter writes no answer; nothing else of it concerns one.
LEMMA HandlerAnswers ==
  ASSUME IInv, IInv', OrderInv, AnswerInv, NEW s \in Socket, Handling(s)
  PROVE  AnswerInv'
<1>0. /\ None \notin Message
      /\ fate \in [Message -> Fate]
      /\ up \in [Socket -> Seq(Frame)] /\ down \in [Socket -> Seq(Frame)]
  BY ConstantsOK DEF ConstantsOK, IInv, TypeOK
<1>1. \A t \in Socket : \A i \in DOMAIN down[t] : down[t][i].msg # None =>
        down[t][i].msg \in Message /\ fate[down[t][i].msg] = "answered"
  BY <1>0, FrameAt DEF AnswerInv, AnswerOnce
<1>2. UNCHANGED <<owner, eng, msg>>
  BY DEF Handling, Accept, AcceptRaises, Reject, RejectEnds, HandshakeFails, Receive, ServingEnds
<1>3. ASSUME NoMoreAnswers,
             \A m \in Message : \/ fate'[m] = fate[m]
                                \/ fate[m] = "sent" /\ fate'[m] \in {"lost", "queued"}
      PROVE  AnswerInv'
  <2>1. \A t \in Socket : \A i \in DOMAIN down'[t] :
          down'[t][i].msg # None => fate'[down'[t][i].msg] = "answered"
    <3> SUFFICES ASSUME NEW t \in Socket, NEW i \in DOMAIN down'[t], down'[t][i].msg # None
                 PROVE  fate'[down'[t][i].msg] = "answered"
      OBVIOUS
    <3>1. down'[t][i].msg \in Message /\ fate[down'[t][i].msg] = "answered"
      BY <1>1, <1>3 DEF NoMoreAnswers
    <3> QED
      BY <1>3, <3>1
  <2>2. \A m \in Message : fate'[m] = "working" => eng' # "idle" /\ msg' = m
    <3>1. \A m \in Message : fate'[m] = "working" => fate[m] = "working"
      BY <1>3
    <3> QED
      BY <1>2, <3>1 DEF AnswerInv, AnswerOnce
  <2> QED
    BY <1>2, <1>3, <2>1, <2>2, FewerAnswers, FewerComeHome DEF AnswerInv, IInv
<1>4. \A m \in MessagesIn(up[s]) : fate[m] = "sent"
  BY DEF MessagesIn, OrderInv, UpOrder
<1>5. CASE Accept(s)
  <2>1. /\ fate' = fate
        /\ down' = down \/ down' = [down EXCEPT ![s] = Append(@, WelcomeFrame)]
    BY <1>0, <1>5 DEF Accept
  <2>2. CASE down' = down
    BY <1>3, <2>1, <2>2, SameAnswers DEF IInv
  <2>3. CASE down' = [down EXCEPT ![s] = Append(@, WelcomeFrame)]
    <3>1. WelcomeFrame \in Frame /\ WelcomeFrame.msg = None /\ down[s] \in Seq(Frame)
      BY <1>0 DEF WelcomeFrame, Welcome, Frame
    <3>2. /\ Append(down[s], WelcomeFrame) \in Seq(Frame)
          /\ \A i \in DOMAIN Append(down[s], WelcomeFrame) :
               \/ Append(down[s], WelcomeFrame)[i] = WelcomeFrame
               \/ i \in DOMAIN down[s] /\ Append(down[s], WelcomeFrame)[i] = down[s][i]
      BY <3>1, AppendToFrames
    <3>3. \A i \in DOMAIN Append(down[s], WelcomeFrame) :
            Append(down[s], WelcomeFrame)[i].msg # None =>
              /\ i + 0 \in DOMAIN down[s]
              /\ Append(down[s], WelcomeFrame)[i] = down[s][i + 0]
      <4>1. \A i \in DOMAIN down[s] : i + 0 = i
        BY <3>1
      <4> QED
        BY <3>1, <3>2, <4>1
    <3>4. 0 \in Nat
      OBVIOUS
    <3>5. NoMoreAnswers
      BY <2>3, <3>2, <3>3, <3>4, OneReads DEF IInv
    <3> QED
      BY <1>3, <2>1, <3>5
  <2> QED
    BY <2>1, <2>2, <2>3
<1>6. CASE AcceptRaises(s) \/ RejectEnds(s) \/ HandshakeFails(s) \/ ServingEnds(s)
  <2>1. down' = down /\ Close(s)
    BY <1>6 DEF AcceptRaises, RejectEnds, HandshakeFails, ServingEnds
  <2>2. \A m \in Message : fate'[m] = fate[m] \/ (fate[m] = "sent" /\ fate'[m] = "lost")
    BY <1>4, <2>1 DEF Close, Lose
  <2> QED
    BY <1>3, <2>1, <2>2, SameAnswers DEF IInv
<1>7. CASE Reject(s)
  <2>1. down' = down /\ fate' = fate
    BY <1>7 DEF Reject
  <2> QED
    BY <1>3, <2>1, SameAnswers DEF IInv
<1>8. CASE Receive(s)
  <2>1. /\ down' = down /\ handler[s] = "serving" /\ up[s] # <<>>
        /\ fate' = [fate EXCEPT ![Head(up[s]).msg] = "queued"]
    BY <1>8 DEF Receive
  <2>2. 1 \in DOMAIN up[s] /\ Head(up[s]) = up[s][1]
    BY <1>0, <2>1
  <2>3. up[s][1].msg \in Message
    BY <2>1, <2>2 DEF IInv, FramesOK
  <2>4. fate[up[s][1].msg] = "sent"
    BY <1>0, <2>2, <2>3 DEF OrderInv, UpOrder
  <2>5. \A m \in Message : fate'[m] = fate[m] \/ (fate[m] = "sent" /\ fate'[m] = "queued")
    BY <1>0, <2>1, <2>2, <2>3, <2>4
  <2> QED
    BY <1>3, <2>1, <2>5, SameAnswers DEF IInv
<1> QED
  BY <1>5, <1>6, <1>7, <1>8 DEF Handling

\* The engine works on one message, and answers it once, on the socket that is registered
\* under the name of its adapter.
LEMMA EngineAnswers ==
  ASSUME IInv, IInv', OrderInv, AnswerInv, Engine
  PROVE  AnswerInv'
<1>0. /\ None \notin Message /\ None \notin Socket
      /\ fate \in [Message -> Fate]
      /\ down \in [Socket -> Seq(Frame)] /\ down' \in [Socket -> Seq(Frame)]
      /\ connections \in [Name -> Socket \cup {None}]
      /\ NameOf \in [Adapter -> Name] /\ Sender \in [Message -> Adapter]
      /\ ReplyType \in [Message -> {"message", "ack"}]
      /\ queue \in Seq(Message)
  BY ConstantsOK DEF ConstantsOK, IInv, TypeOK
<1>1. /\ \A t \in Socket : \A i \in DOMAIN down[t] : down[t][i].msg # None =>
           down[t][i].msg \in Message /\ fate[down[t][i].msg] = "answered"
      /\ \A m \in Message : fate[m] = "working" => eng # "idle" /\ msg = m
  BY <1>0, FrameAt DEF AnswerInv, AnswerOnce
<1>2. UNCHANGED owner
  BY DEF Engine, Take, Reply, ReplyRaises, ErrorReply, ErrorReplyRaises, Send
<1>3. ASSUME down' = down,
             \A m \in Message : fate[m] = "answered" => fate'[m] = "answered",
             \A m \in Message : fate'[m] = "working" => eng' # "idle" /\ msg' = m
      PROVE  AnswerInv'
  <2>1. NoMoreAnswers
    BY <1>3, SameAnswers DEF IInv
  <2>2. \A t \in Socket : \A i \in DOMAIN down'[t] :
          down'[t][i].msg # None => fate'[down'[t][i].msg] = "answered"
    BY <1>1, <1>3
  <2> QED
    BY <1>2, <1>3, <2>1, <2>2, FewerAnswers, FewerComeHome DEF AnswerInv, IInv
<1>4. CASE Take
  <2>1. /\ eng = "idle" /\ queue # <<>> /\ msg' = Head(queue) /\ eng' = "reply"
        /\ fate' = [fate EXCEPT ![msg'] = "working"] /\ down' = down
    BY <1>4 DEF Take
  <2>2. Head(queue) \in Message /\ fate[Head(queue)] = "queued"
    <3>1. 1 \in DOMAIN queue /\ Head(queue) = queue[1] /\ queue[1] \in Message
      BY <1>0, <2>1
    <3> QED
      BY <3>1 DEF OrderInv, QueueOrder
  <2>3. /\ fate'[msg'] = "working" /\ msg' \in Message
        /\ \A m \in Message \ {msg'} : fate'[m] = fate[m]
    BY <1>0, <2>1, <2>2
  <2> QED
    BY <1>1, <1>3, <2>1, <2>2, <2>3
<1>5. ASSUME eng # "idle" PROVE msg \in Message /\ fate[msg] = "working"
  BY <1>5 DEF IInv, TypeOK, OrderInv, AnsweredIsTaken
<1>6. CASE ReplyRaises
  <2>1. UNCHANGED <<down, msg, fate>> /\ eng = "reply" /\ eng' = "error"
    BY <1>6 DEF ReplyRaises
  <2> QED
    BY <1>1, <1>3, <2>1
<1>7. CASE ErrorReplyRaises
  <2>1. down' = down /\ eng = "error" /\ fate' = [fate EXCEPT ![msg] = "failed"]
    BY <1>7 DEF ErrorReplyRaises
  <2>2. fate'[msg] = "failed" /\ \A m \in Message \ {msg} : fate'[m] = fate[m]
    BY <1>0, <1>5, <2>1
  <2> QED
    BY <1>1, <1>3, <1>5, <2>1, <2>2
<1>8. ASSUME NEW type \in {"message", "ack", "error"}, eng # "idle", Send(type)
      PROVE  AnswerInv'
  <2> DEFINE f == [type |-> type, msg |-> msg]
  <2>1. msg \in Message /\ fate[msg] = "working"
    BY <1>5, <1>8
  <2>2. \/ /\ down' = down
           /\ \E r \in {"unconnected", "answerLost"} : fate' = [fate EXCEPT ![msg] = r]
        \/ /\ down' = [down EXCEPT ![Target] = Append(@, f)]
           /\ Target \in Socket
           /\ fate' = [fate EXCEPT ![msg] = "answered"]
    BY <1>0, <1>8, <2>1 DEF Send, Write, Target
  <2>3. CASE /\ down' = down
             /\ \E r \in {"unconnected", "answerLost"} : fate' = [fate EXCEPT ![msg] = r]
    <3>1. fate'[msg] # "working" /\ \A m \in Message \ {msg} : fate'[m] = fate[m]
      BY <1>0, <2>1, <2>3
    <3> QED
      BY <1>1, <1>3, <2>1, <2>3, <3>1
  <2>4. CASE /\ down' = [down EXCEPT ![Target] = Append(@, f)]
             /\ Target \in Socket
             /\ fate' = [fate EXCEPT ![msg] = "answered"]
    <3>1. f \in Frame /\ f.msg = msg /\ down[Target] \in Seq(Frame)
      BY <1>0, <2>1, <2>4 DEF Frame
    <3>2. /\ DOMAIN down'[Target] = 1..(Len(down[Target]) + 1)
          /\ DOMAIN down[Target] = 1..Len(down[Target]) /\ Len(down[Target]) \in Nat
          /\ down'[Target][Len(down[Target]) + 1] = f
          /\ \A i \in DOMAIN down[Target] : down'[Target][i] = down[Target][i]
      BY <1>0, <2>4, <3>1
    <3>3. \A t \in Socket \ {Target} : down'[t] = down[t]
      BY <1>0, <2>4
    <3>4. \A t \in Socket : \A i \in DOMAIN down'[t] :
            \/ i \in DOMAIN down[t] /\ down'[t][i] = down[t][i]
            \/ t = Target /\ i = Len(down[Target]) + 1 /\ down'[t][i] = f
      BY <3>2, <3>3
    <3>5. fate'[msg] = "answered" /\ \A m \in Message \ {msg} : fate'[m] = fate[m]
      BY <1>0, <2>1, <2>4
    <3>6. \A t \in Socket : \A i \in DOMAIN down[t] : down[t][i].msg # msg
      BY <1>0, <1>1, <2>1
    <3>7. ASSUME NEW t \in Socket, NEW i \in DOMAIN down'[t], down'[t][i].msg # None
          PROVE  /\ fate'[down'[t][i].msg] = "answered"
                 /\ \A u \in Socket : \A j \in DOMAIN down'[u] :
                      down'[u][j].msg = down'[t][i].msg => u = t /\ j = i
      <4>1. CASE i \in DOMAIN down[t] /\ down'[t][i] = down[t][i]
        <5>1. fate'[down'[t][i].msg] = "answered"
          BY <1>1, <3>5, <3>7, <4>1
        <5>2. ASSUME NEW u \in Socket, NEW j \in DOMAIN down'[u],
                     down'[u][j].msg = down'[t][i].msg
              PROVE  u = t /\ j = i
          <6>1. down'[u][j] # f
            BY <3>1, <3>6, <4>1, <5>2
          <6>2. j \in DOMAIN down[u] /\ down'[u][j] = down[u][j]
            BY <3>4, <6>1
          <6> QED
            BY <3>7, <4>1, <5>2, <6>2 DEF AnswerInv, AnswerOnce
        <5> QED
          BY <5>1, <5>2
      <4>2. CASE t = Target /\ i = Len(down[Target]) + 1 /\ down'[t][i] = f
        <5>1. ASSUME NEW u \in Socket, NEW j \in DOMAIN down'[u],
                     down'[u][j].msg = down'[t][i].msg
              PROVE  u = t /\ j = i
          BY <3>1, <3>4, <3>6, <4>2, <5>1
        <5> QED
          BY <3>1, <3>5, <4>2, <5>1
      <4> QED
        BY <3>4, <4>1, <4>2
    <3>8. \A m \in Message : fate'[m] # "working"
      BY <1>1, <2>1, <3>5
    <3>9. AnswerOnce'
      BY <3>7, <3>8 DEF AnswerOnce
    <3>10. owner[Target] \in Trusted /\ NameOf[owner[Target]] = NameOf[Sender[msg]]
      BY <1>0, <2>1, <2>4 DEF IInv, RegisteredIsServed, ClaimedName, Target
    <3>11. ASSUME NEW t \in Socket, NEW i \in DOMAIN down'[t], down'[t][i].msg # None
           PROVE  /\ owner'[t] \in Trusted
                  /\ NameOf[owner'[t]] = NameOf[Sender[down'[t][i].msg]]
      <4>1. CASE i \in DOMAIN down[t] /\ down'[t][i] = down[t][i]
        BY <1>2, <3>11, <4>1 DEF AnswerInv, AnswersComeHome, ClaimedName
      <4>2. CASE t = Target /\ down'[t][i] = f
        BY <1>2, <3>1, <3>10, <4>2
      <4> QED
        BY <3>4, <4>1, <4>2
    <3>12. AnswersComeHome'
      BY <3>11 DEF AnswersComeHome, ClaimedName
    <3> QED
      BY <3>9, <3>12 DEF AnswerInv
  <2> QED
    BY <2>2, <2>3, <2>4
<1>9. CASE Reply
  <2>1. eng # "idle" /\ Send(ReplyType[msg])
    BY <1>9 DEF Reply
  <2>2. ReplyType[msg] \in {"message", "ack", "error"}
    BY <1>0, <1>5, <2>1
  <2> QED
    BY <1>8, <2>1, <2>2
<1>10. CASE ErrorReply
  BY <1>8, <1>10 DEF ErrorReply
<1> QED
  BY <1>4, <1>6, <1>7, <1>9, <1>10 DEF Engine

\* Users write, paths break, ends close and the Core restarts: answers only get fewer.
LEMMA WorldAnswers ==
  ASSUME IInv, IInv', OrderInv, AnswerInv,
         \/ \E m \in Message : Forward(m)
         \/ \E s \in Socket : Network(s)
         \/ CoreRestart
  PROVE  AnswerInv'
<1>0. /\ None \notin Message
      /\ fate \in [Message -> Fate]
      /\ up \in [Socket -> Seq(Frame)] /\ down \in [Socket -> Seq(Frame)]
  BY ConstantsOK DEF ConstantsOK, IInv, TypeOK
<1>1. /\ \A t \in Socket : \A i \in DOMAIN down[t] : down[t][i].msg # None =>
           down[t][i].msg \in Message /\ fate[down[t][i].msg] = "answered"
      /\ \A m \in Message : fate[m] = "working" => eng # "idle" /\ msg = m
  BY <1>0, FrameAt DEF AnswerInv, AnswerOnce
<1>2. UNCHANGED owner
  BY DEF Forward, Network, Cut, NearCloses, FarCloses, CoreRestart
<1>3. ASSUME down' = down,
             \A m \in Message : fate[m] = "answered" => fate'[m] = "answered",
             \A m \in Message : fate'[m] = "working" => eng' # "idle" /\ msg' = m
      PROVE  AnswerInv'
  <2>1. NoMoreAnswers
    BY <1>3, SameAnswers DEF IInv
  <2>2. \A t \in Socket : \A i \in DOMAIN down'[t] :
          down'[t][i].msg # None => fate'[down'[t][i].msg] = "answered"
    BY <1>1, <1>3
  <2> QED
    BY <1>2, <1>3, <2>1, <2>2, FewerAnswers, FewerComeHome DEF AnswerInv, IInv
<1>4. ASSUME NEW m \in Message, Forward(m) PROVE AnswerInv'
  <2>1. /\ fate[m] = "unsent" /\ UNCHANGED <<down, eng, msg>>
        /\ \E r \in {"lost", "sent", "dropped"} : fate' = [fate EXCEPT ![m] = r]
    BY <1>4 DEF Forward
  <2>2. fate'[m] \in {"lost", "sent", "dropped"} /\ \A n \in Message \ {m} : fate'[n] = fate[n]
    BY <1>0, <2>1
  <2> QED
    BY <1>1, <1>3, <2>1, <2>2
<1>5. CASE CoreRestart
  <2>1. /\ down' = down
        /\ \A m \in Message :
             fate'[m] = IF fate[m] \in {"sent", "queued", "working"} THEN "lost" ELSE fate[m]
    BY <1>5 DEF CoreRestart, Lose
  <2>2. /\ \A m \in Message : fate[m] = "answered" => fate'[m] = "answered"
        /\ \A m \in Message : fate'[m] # "working"
    BY <2>1
  <2> QED
    BY <1>3, <2>1, <2>2
<1>6. ASSUME NEW s \in Socket, NearCloses(s) \/ FarCloses(s) PROVE AnswerInv'
  <2>1. UNCHANGED <<down, fate, eng, msg>>
    BY <1>6 DEF NearCloses, FarCloses
  <2> QED
    BY <1>1, <1>3, <2>1
<1>7. ASSUME NEW s \in Socket, Cut(s) PROVE AnswerInv'
  <2>1. PICK p \in 0..Len(up[s]), q \in 0..Len(down[s]) :
          /\ down' = [down EXCEPT ![s] = SubSeq(@, 1, q)]
          /\ fate' = Lose(fate, MessagesIn(SubSeq(up[s], p + 1, Len(up[s]))),
                                MessagesIn(SubSeq(down[s], q + 1, Len(down[s]))))
          /\ UNCHANGED <<eng, msg>>
    BY <1>7 DEF Cut
  <2> DEFINE lostUp == MessagesIn(SubSeq(up[s], p + 1, Len(up[s])))
             lostDown == MessagesIn(SubSeq(down[s], q + 1, Len(down[s])))
  <2>2. \A m \in Message :
          fate'[m] = IF m \in lostUp THEN "lost"
                     ELSE IF m \in lostDown THEN "answerLost" ELSE fate[m]
    BY <2>1 DEF Lose
  <2>3. up[s] \in Seq(Frame) /\ down[s] \in Seq(Frame)
    BY <1>0
  <2>4. \A m \in lostUp : fate[m] = "sent"
    BY <2>3, SuffixMessages DEF OrderInv, UpOrder
  <2>5. \A m \in lostDown : \E i \in DOMAIN down[s] : i > q /\ down[s][i].msg = m /\ m # None
    BY <2>3, SuffixMessages
  <2> HIDE DEF lostUp, lostDown
  <2>6. /\ SubSeq(down[s], 1, q) \in Seq(Frame)
        /\ \A i \in DOMAIN SubSeq(down[s], 1, q) :
             /\ i \in DOMAIN down[s] /\ SubSeq(down[s], 1, q)[i] = down[s][i]
             /\ i \in Nat /\ i <= q
    BY <2>3
  <2>7. NoMoreAnswers
    <3>1. \A i \in DOMAIN SubSeq(down[s], 1, q) :
            i + 0 \in DOMAIN down[s] /\ SubSeq(down[s], 1, q)[i] = down[s][i + 0]
      <4>1. \A i \in DOMAIN SubSeq(down[s], 1, q) : i + 0 = i
        BY <2>6
      <4> QED
        BY <2>6, <4>1
    <3>2. 0 \in Nat
      OBVIOUS
    <3> QED
      BY <2>1, <2>6, <3>1, <3>2, OneReads DEF IInv
  <2>8. /\ \A t \in Socket \ {s} : down'[t] = down[t]
        /\ \A i \in DOMAIN down'[s] :
             i \in DOMAIN down[s] /\ down'[s][i] = down[s][i] /\ i \in Nat /\ i <= q
    BY <1>0, <2>1, <2>6
  <2>9. ASSUME NEW t \in Socket, NEW i \in DOMAIN down'[t], down'[t][i].msg # None
        PROVE  fate'[down'[t][i].msg] = "answered"
    <3>1. /\ i \in DOMAIN down[t] /\ down'[t][i] = down[t][i]
          /\ t = s => i \in Nat /\ i <= q
      BY <2>8
    <3>2. down[t][i].msg \in Message /\ fate[down[t][i].msg] = "answered"
      BY <1>1, <2>9, <3>1
    <3>3. down[t][i].msg \notin lostDown
      <4> SUFFICES ASSUME down[t][i].msg \in lostDown PROVE FALSE
        OBVIOUS
      <4>1. PICK j \in DOMAIN down[s] : j > q /\ down[s][j].msg = down[t][i].msg
        BY <2>5
      <4>2. t = s /\ j = i
        BY <2>9, <3>1, <4>1 DEF AnswerInv, AnswerOnce
      <4>3. q \in Nat /\ i \in Nat /\ i <= q /\ i > q
        BY <2>3, <3>1, <4>1, <4>2
      <4> QED
        BY <4>3
    <3> QED
      BY <2>2, <2>4, <3>1, <3>2, <3>3
  <2>10. \A m \in Message : fate'[m] = "working" => fate[m] = "working"
    BY <2>2
  <2> QED
    BY <1>1, <1>2, <2>1, <2>7, <2>9, <2>10, FewerAnswers, FewerComeHome DEF AnswerInv, IInv
<1> QED
  BY <1>4, <1>5, <1>6, <1>7 DEF Network

LEMMA AnswerStep == IInv /\ IInv' /\ OrderInv /\ AnswerInv /\ [Next]_vars => AnswerInv'
<1> SUFFICES ASSUME IInv, IInv', OrderInv, AnswerInv, [Next]_vars PROVE AnswerInv'
  OBVIOUS
<1>1. CASE UNCHANGED vars
  BY <1>1 DEF vars, AnswerInv, AnswerOnce, AnswersComeHome, ClaimedName
<1>2. CASE Next
  BY <1>2, AdapterAnswers, HandlerAnswers, EngineAnswers, WorldAnswers DEF Next
<1> QED
  BY <1>1, <1>2

\* The same as OrderKept, for what the answers need.
LEMMA AnswersAndOrder == Spec => [](OrderInv /\ AnswerInv)
<1>1. Init => OrderInv /\ AnswerInv
  <2>1. Init => AnswerInv
    BY DEF Init, AnswerInv, AnswerOnce, AnswersComeHome
  <2> QED
    BY <2>1, InitOrder
<1>2. IInv /\ IInv' /\ OrderInv /\ AnswerInv /\ [Next]_vars => OrderInv' /\ AnswerInv'
  BY OrderStep, AnswerStep
<1> QED
  BY <1>1, <1>2, InductiveInvariant, PTL DEF Spec

\* No answer ever travels to an adapter whose token was refused, or that gave another name
\* than the one the message came from.
THEOREM AnswersAlwaysComeHome == Spec => []AnswersComeHome
<1>1. AnswerInv => AnswersComeHome
  BY DEF AnswerInv
<1> QED
  BY <1>1, AnswersAndOrder, PTL

--------------------------------------------------------------------------------
(* Refinement: every step is a step of Delivery or changes nothing of it.     *)

LEMMA Stages ==
  /\ StageOf("unsent") = "unwritten" /\ StageOf("sent") = "underway"
  /\ StageOf("queued") = "underway" /\ StageOf("working") = "handled"
  /\ StageOf("answered") = "answered" /\ StageOf("delivered") = "shown"
  /\ \A f \in {"dropped", "lost", "unconnected", "failed", "ignored", "answerLost"} :
       StageOf(f) = "gone"
  /\ \A f \in Fate : /\ StageOf(f) = "unwritten" <=> f = "unsent"
                     /\ StageOf(f) = "underway" <=> f \in {"sent", "queued"}
                     /\ StageOf(f) = "handled" <=> f = "working"
BY DEF StageOf, Fate, Taken

\* The fate of one message changes.
LEMMA OneMoves ==
  ASSUME NEW m \in Message, NEW r, StageOf(fate'[m]) = r,
         \A n \in Message \ {m} : fate'[n] = fate[n]
  PROVE  [n \in Message |-> StageOf(fate'[n])]
           = [[n \in Message |-> StageOf(fate[n])] EXCEPT ![m] = r]
  OBVIOUS

\* What breaks may lose any number of messages, and what only moves frames loses none.
LEMMA Losing ==
  ASSUME via' = via,
         \A m \in Message :
           \/ StageOf(fate'[m]) = StageOf(fate[m])
           \/ /\ StageOf(fate[m]) \in {"underway", "handled", "answered"}
              /\ StageOf(fate'[m]) = "gone"
  PROVE  Channel!Next
<1> DEFINE S == {m \in Message : StageOf(fate'[m]) # StageOf(fate[m])}
<1>1. S \in SUBSET Message
  OBVIOUS
<1>2. \A m \in S : StageOf(fate[m]) \in {"underway", "handled", "answered"}
  OBVIOUS
<1>3. [m \in Message |-> StageOf(fate'[m])]
        = [m \in Message |-> IF m \in S THEN "gone" ELSE StageOf(fate[m])]
  OBVIOUS
<1>4. Channel!Lose(S)
  <2>1. \A m \in S : [n \in Message |-> StageOf(fate[n])][m]
                       \in {"underway", "handled", "answered"}
    BY <1>1, <1>2
  <2>2. [m \in Message |-> StageOf(fate'[m])]
          = [m \in Message |->
               IF m \in S THEN "gone" ELSE [n \in Message |-> StageOf(fate[n])][m]]
    BY <1>3
  <2> HIDE DEF S
  <2> QED
    BY <2>1, <2>2 DEF Channel!Lose
<1> QED
  BY <1>1, <1>4 DEF Channel!Next

LEMMA LosingFates ==
  ASSUME via' = via,
         \A m \in Message :
           \/ fate'[m] = fate[m]
           \/ fate[m] = "sent" /\ fate'[m] = "queued"
           \/ /\ fate[m] \in {"sent", "queued", "working", "answered"}
              /\ fate'[m] \in {"lost", "unconnected", "failed", "ignored", "answerLost"}
  PROVE  Channel!Next
<1>1. \A m \in Message :
        \/ StageOf(fate'[m]) = StageOf(fate[m])
        \/ /\ StageOf(fate[m]) \in {"underway", "handled", "answered"}
           /\ StageOf(fate'[m]) = "gone"
  BY Stages
<1> QED
  BY <1>1, Losing

LEMMA AdapterRefines ==
  ASSUME IInv, OrderInv, AnswerInv, NEW a \in Adapter, Connecting(a) \/ DispatchRaises(a)
  PROVE  Channel!Next
<1>0. None \notin Message /\ fate \in [Message -> Fate] /\ down \in [Socket -> Seq(Frame)]
  BY ConstantsOK DEF ConstantsOK, IInv, TypeOK
<1>1. \A t \in Socket : \A i \in DOMAIN down[t] : down[t][i].msg # None =>
        down[t][i].msg \in Message /\ fate[down[t][i].msg] = "answered"
  BY <1>0, FrameAt DEF AnswerInv, AnswerOnce
<1>2. via' = via
  BY DEF Connecting, Dial, RecvAck, HelloFails, Listen, ListenEnds, BackoffEnds, DispatchRaises
<1>3. CASE fate' = fate
  BY <1>2, <1>3, LosingFates
<1>4. CASE Listen(a)
  <2> DEFINE f == Head(down[ws[a]])
  <2>1. ws[a] \in Socket /\ down[ws[a]] # <<>>
    BY <1>4 DEF Listen, IInv, TypeOK
  <2>2. 1 \in DOMAIN down[ws[a]] /\ f = down[ws[a]][1]
    BY <1>0, <2>1
  <2>3. CASE f.msg = None
    BY <1>3, <1>4, <2>3 DEF Listen
  <2>4. CASE f.msg # None
    <3>1. f.msg \in Message /\ fate[f.msg] = "answered"
      BY <1>1, <2>1, <2>2, <2>4
    <3>2. /\ fate'[f.msg] \in {"delivered", "ignored"}
          /\ \A n \in Message \ {f.msg} : fate'[n] = fate[n]
      BY <1>0, <1>4, <2>4, <3>1 DEF Listen
    <3>3. CASE fate'[f.msg] = "ignored"
      BY <1>2, <3>1, <3>2, <3>3, LosingFates
    <3>4. CASE fate'[f.msg] = "delivered"
      <4>1. [n \in Message |-> StageOf(fate'[n])]
              = [[n \in Message |-> StageOf(fate[n])] EXCEPT ![f.msg] = "shown"]
        BY <3>1, <3>2, <3>4, Stages, OneMoves
      <4>2. [n \in Message |-> StageOf(fate[n])][f.msg] = "answered"
        BY <3>1, Stages
      <4>3. Channel!Show(f.msg)
        BY <1>2, <4>1, <4>2 DEF Channel!Show
      <4> QED
        BY <3>1, <4>3 DEF Channel!Next
    <3> QED
      BY <3>2, <3>3, <3>4
  <2> QED
    BY <2>3, <2>4
<1>5. CASE DispatchRaises(a)
  <2>1. /\ ws[a] \in Socket
        /\ \A m \in Message :
             fate'[m] = IF m \in MessagesIn(down[ws[a]]) THEN "answerLost" ELSE fate[m]
    BY <1>5 DEF DispatchRaises, Lose, IInv, TypeOK
  <2>2. \A m \in MessagesIn(down[ws[a]]) : fate[m] = "answered"
    BY <1>1, <2>1 DEF MessagesIn
  <2> QED
    BY <1>2, <2>1, <2>2, LosingFates
<1>6. CASE \/ \E s \in Socket : Dial(a, s)
           \/ RecvAck(a) \/ HelloFails(a) \/ ListenEnds(a) \/ BackoffEnds(a)
  BY <1>3, <1>6 DEF Dial, RecvAck, HelloFails, ListenEnds, BackoffEnds
<1> QED
  BY <1>4, <1>5, <1>6 DEF Connecting

LEMMA ForwardRefines ==
  ASSUME IInv, NEW m \in Message, Forward(m)
  PROVE  Channel!Next
<1> DEFINE s == ws[Sender[m]]
           stage == [n \in Message |-> StageOf(fate[n])]
           later == [n \in Message |-> StageOf(fate'[n])]
<1>0. /\ Sender \in [Message -> Adapter] /\ ws \in [Adapter -> Socket \cup {None}]
      /\ fate \in [Message -> Fate] /\ via \in [Message -> Socket \cup {None}]
  BY ConstantsOK DEF ConstantsOK, IInv, TypeOK
<1>1. /\ fate[m] = "unsent"
      /\ \A n \in Message : n < m /\ Sender[n] = Sender[m] => fate[n] # "unsent"
      /\ \/ via' = via /\ fate' = [fate EXCEPT ![m] = "dropped"]
         \/ /\ s \in Socket /\ via' = [via EXCEPT ![m] = s]
            /\ \E r \in {"lost", "sent"} : fate' = [fate EXCEPT ![m] = r]
  BY <1>0 DEF Forward
<1>2. \A n \in Message \ {m} : fate'[n] = fate[n]
  BY <1>0, <1>1
<1>3. stage[m] = "unwritten" /\ \A n \in Channel!Earlier(m) : stage[n] # "unwritten"
  <2>1. \A n \in Message : fate[n] \in Fate
    BY <1>0
  <2> QED
    BY <1>1, <2>1, Stages DEF Channel!Earlier
<1>4. CASE via' = via /\ fate' = [fate EXCEPT ![m] = "dropped"]
  <2>1. fate'[m] = "dropped"
    BY <1>0, <1>4
  <2>2. later = [stage EXCEPT ![m] = "gone"]
    BY <1>2, <2>1, Stages, OneMoves
  <2> HIDE DEF stage, later
  <2>3. Channel!Write(m)
    BY <1>3, <1>4, <2>2 DEF Channel!Write, stage, later
  <2> QED
    BY <2>3 DEF Channel!Next
<1>5. CASE /\ s \in Socket /\ via' = [via EXCEPT ![m] = s]
           /\ \E r \in {"lost", "sent"} : fate' = [fate EXCEPT ![m] = r]
  <2>1. fate'[m] \in {"lost", "sent"}
    BY <1>0, <1>5
  <2>2. \E to \in {"underway", "gone"} : later = [stage EXCEPT ![m] = to]
    <3>1. StageOf(fate'[m]) \in {"underway", "gone"}
      BY <2>1, Stages
    <3>2. later = [stage EXCEPT ![m] = StageOf(fate'[m])]
      BY <1>2, OneMoves
    <3> HIDE DEF stage, later
    <3> QED
      BY <3>1, <3>2
  <2>3. Channel!Write(m)
    BY <1>3, <1>5, <2>2 DEF Channel!Write
  <2> QED
    BY <2>3 DEF Channel!Next
<1> QED
  BY <1>1, <1>4, <1>5

LEMMA HandlerRefines ==
  ASSUME IInv, OrderInv, NEW s \in Socket, Handling(s)
  PROVE  Channel!Next
<1>0. None \notin Message /\ fate \in [Message -> Fate] /\ up \in [Socket -> Seq(Frame)]
  BY ConstantsOK DEF ConstantsOK, IInv, TypeOK
<1>1. via' = via
  BY DEF Handling, Accept, AcceptRaises, Reject, RejectEnds, HandshakeFails, Receive, ServingEnds
<1>2. CASE Accept(s) \/ Reject(s)
  <2>1. fate' = fate
    BY <1>2 DEF Accept, Reject
  <2> QED
    BY <1>1, <2>1, LosingFates
<1>3. CASE AcceptRaises(s) \/ RejectEnds(s) \/ HandshakeFails(s) \/ ServingEnds(s)
  <2>1. Close(s)
    BY <1>3 DEF AcceptRaises, RejectEnds, HandshakeFails, ServingEnds
  <2>2. \A m \in MessagesIn(up[s]) : fate[m] = "sent"
    BY DEF MessagesIn, OrderInv, UpOrder
  <2>3. \A m \in Message : fate'[m] = fate[m] \/ (fate[m] = "sent" /\ fate'[m] = "lost")
    BY <2>1, <2>2 DEF Close, Lose
  <2> QED
    BY <1>1, <2>3, LosingFates
<1>4. CASE Receive(s)
  <2>1. /\ handler[s] = "serving" /\ up[s] # <<>>
        /\ fate' = [fate EXCEPT ![Head(up[s]).msg] = "queued"]
    BY <1>4 DEF Receive
  <2>2. 1 \in DOMAIN up[s] /\ Head(up[s]) = up[s][1]
    BY <1>0, <2>1
  <2>3. up[s][1].msg \in Message
    BY <2>1, <2>2 DEF IInv, FramesOK
  <2>4. fate[up[s][1].msg] = "sent"
    BY <1>0, <2>2, <2>3 DEF OrderInv, UpOrder
  <2>5. \A m \in Message : fate'[m] = fate[m] \/ (fate[m] = "sent" /\ fate'[m] = "queued")
    BY <1>0, <2>1, <2>2, <2>3, <2>4
  <2> QED
    BY <1>1, <2>5, LosingFates
<1> QED
  BY <1>2, <1>3, <1>4 DEF Handling

LEMMA EngineRefines ==
  ASSUME IInv, OrderInv, OrderInv', AnswerInv, Engine
  PROVE  Channel!Next
<1> DEFINE stage == [n \in Message |-> StageOf(fate[n])]
           later == [n \in Message |-> StageOf(fate'[n])]
<1>0. /\ None \notin Message
      /\ fate \in [Message -> Fate] /\ queue \in Seq(Message)
      /\ \A m \in Message : fate[m] \in Fate
      /\ connections \in [Name -> Socket \cup {None}]
      /\ NameOf \in [Adapter -> Name] /\ Sender \in [Message -> Adapter]
  BY ConstantsOK DEF ConstantsOK, IInv, TypeOK
<1>1. via' = via
  BY DEF Engine, Take, Reply, ReplyRaises, ErrorReply, ErrorReplyRaises, Send
<1>2. CASE Take
  <2> DEFINE m == Head(queue)
  <2>1. /\ eng = "idle" /\ queue # <<>> /\ msg' = m
        /\ fate' = [fate EXCEPT ![msg'] = "working"]
    BY <1>2 DEF Take
  <2>2. m \in Message /\ fate[m] = "queued"
    <3>1. 1 \in DOMAIN queue /\ m = queue[1] /\ queue[1] \in Message
      BY <1>0, <2>1
    <3> QED
      BY <3>1 DEF OrderInv, QueueOrder
  <2> HIDE DEF m
  <2>3. fate'[m] = "working" /\ \A n \in Message \ {m} : fate'[n] = fate[n]
    BY <1>0, <2>1, <2>2
  <2>4. stage[m] = "underway"
    BY <2>2, Stages
  <2>5. \A n \in Message : stage[n] # "handled"
    <3>1. \A n \in Message : fate[n] # "working"
      BY <2>1 DEF AnswerInv, AnswerOnce
    <3> QED
      BY <1>0, <3>1, Stages
  <2>6. \A n \in Channel!Earlier(m) : via[n] = via[m] => stage[n] # "underway"
    <3> SUFFICES ASSUME NEW n \in Message, n < m, Sender[n] = Sender[m], via[n] = via[m]
                 PROVE  stage[n] # "underway"
      BY DEF Channel!Earlier
    <3>1. via[m] # None
      BY <2>2 DEF OrderInv, ForwardOrder
    <3>2. fate'[n] \in Taken \cup {"lost"}
      BY <1>1, <2>2, <2>3, <3>1 DEF OrderInv, InOrder, Taken
    <3>3. n # m => fate[n] = fate'[n]
      BY <2>3
    <3>4. m \in Nat
      BY <2>2, ConstantsOK DEF ConstantsOK
    <3>5. n # m
      BY <3>4
    <3>6. fate[n] \notin {"sent", "queued"}
      BY <3>2, <3>3, <3>5 DEF Taken
    <3> QED
      BY <1>0, <3>6, Stages
  <2>7. later = [stage EXCEPT ![m] = "handled"]
    BY <2>2, <2>3, Stages, OneMoves
  <2>8. Channel!Handle(m)
    BY <1>1, <2>4, <2>5, <2>6, <2>7 DEF Channel!Handle
  <2> QED
    BY <2>2, <2>8 DEF Channel!Next
<1>3. ASSUME eng # "idle" PROVE msg \in Message /\ fate[msg] = "working"
  BY <1>3 DEF IInv, TypeOK, OrderInv, AnsweredIsTaken
<1>4. CASE ReplyRaises
  <2>1. fate' = fate
    BY <1>4 DEF ReplyRaises
  <2> QED
    BY <1>1, <2>1, LosingFates
<1>5. CASE ErrorReplyRaises
  <2>1. eng = "error" /\ fate' = [fate EXCEPT ![msg] = "failed"]
    BY <1>5 DEF ErrorReplyRaises
  <2>2. fate[msg] = "working" /\ fate'[msg] = "failed"
        /\ \A n \in Message \ {msg} : fate'[n] = fate[n]
    BY <1>0, <1>3, <2>1
  <2> QED
    BY <1>1, <2>2, LosingFates
<1>6. ASSUME NEW type, eng # "idle", Send(type)
      PROVE  Channel!Next
  <2>1. msg \in Message /\ fate[msg] = "working"
    BY <1>3, <1>6
  <2>2. \E r \in {"unconnected", "answerLost", "answered"} : fate' = [fate EXCEPT ![msg] = r]
    BY <1>0, <1>6, <2>1 DEF Send, Write
  <2>3. /\ fate'[msg] \in {"unconnected", "answerLost", "answered"}
        /\ \A n \in Message \ {msg} : fate'[n] = fate[n]
    BY <1>0, <2>1, <2>2
  <2>4. CASE fate'[msg] # "answered"
    BY <1>1, <2>1, <2>3, <2>4, LosingFates
  <2>5. CASE fate'[msg] = "answered"
    <3>1. later = [stage EXCEPT ![msg] = "answered"]
      BY <2>1, <2>3, <2>5, Stages, OneMoves
    <3>2. stage[msg] = "handled"
      BY <2>1, Stages
    <3>3. Channel!Answer(msg)
      BY <1>1, <3>1, <3>2 DEF Channel!Answer
    <3> QED
      BY <2>1, <3>3 DEF Channel!Next
  <2> QED
    BY <2>4, <2>5
<1> QED
  BY <1>2, <1>4, <1>5, <1>6 DEF Engine, Reply, ErrorReply

LEMMA WorldRefines ==
  ASSUME IInv, OrderInv, AnswerInv, CoreRestart \/ \E s \in Socket : Network(s)
  PROVE  Channel!Next
<1>0. /\ None \notin Message
      /\ up \in [Socket -> Seq(Frame)] /\ down \in [Socket -> Seq(Frame)]
  BY ConstantsOK DEF ConstantsOK, IInv, TypeOK
<1>1. via' = via
  BY DEF Network, Cut, NearCloses, FarCloses, CoreRestart
<1>2. CASE CoreRestart
  <2>1. \A m \in Message :
          fate'[m] = IF fate[m] \in {"sent", "queued", "working"} THEN "lost" ELSE fate[m]
    BY <1>2 DEF CoreRestart, Lose
  <2> QED
    BY <1>1, <2>1, LosingFates
<1>3. ASSUME NEW s \in Socket, NearCloses(s) \/ FarCloses(s) PROVE Channel!Next
  <2>1. fate' = fate
    BY <1>3 DEF NearCloses, FarCloses
  <2> QED
    BY <1>1, <2>1, LosingFates
<1>4. ASSUME NEW s \in Socket, Cut(s) PROVE Channel!Next
  <2>1. PICK p \in 0..Len(up[s]), q \in 0..Len(down[s]) :
          fate' = Lose(fate, MessagesIn(SubSeq(up[s], p + 1, Len(up[s]))),
                             MessagesIn(SubSeq(down[s], q + 1, Len(down[s]))))
    BY <1>4 DEF Cut
  <2> DEFINE lostUp == MessagesIn(SubSeq(up[s], p + 1, Len(up[s])))
             lostDown == MessagesIn(SubSeq(down[s], q + 1, Len(down[s])))
  <2>2. \A m \in Message :
          fate'[m] = IF m \in lostUp THEN "lost"
                     ELSE IF m \in lostDown THEN "answerLost" ELSE fate[m]
    BY <2>1 DEF Lose
  <2>3. up[s] \in Seq(Frame) /\ down[s] \in Seq(Frame)
    BY <1>0
  <2>4. \A m \in lostUp : fate[m] = "sent"
    BY <2>3, SuffixMessages DEF OrderInv, UpOrder
  <2>5. \A m \in lostDown : fate[m] = "answered"
    <3>1. \A m \in lostDown : \E i \in DOMAIN down[s] : down[s][i].msg = m /\ m # None
      BY <2>3, SuffixMessages
    <3> QED
      BY <3>1 DEF AnswerInv, AnswerOnce
  <2> HIDE DEF lostUp, lostDown
  <2> QED
    BY <1>1, <2>2, <2>4, <2>5, LosingFates
<1> QED
  BY <1>2, <1>3, <1>4 DEF Network

LEMMA DeliveryStep ==
  IInv /\ OrderInv /\ OrderInv' /\ AnswerInv /\ [Next]_vars => [Channel!Next]_Channel!vars
<1> SUFFICES ASSUME IInv, OrderInv, OrderInv', AnswerInv, [Next]_vars
             PROVE  [Channel!Next]_Channel!vars
  OBVIOUS
<1>1. CASE UNCHANGED vars
  BY <1>1 DEF vars, Channel!vars
<1>2. CASE Next
  BY <1>2, AdapterRefines, ForwardRefines, HandlerRefines, EngineRefines, WorldRefines DEF Next
<1> QED
  BY <1>1, <1>2

\* The sockets, their handlers, the queue and the restarts together are a channel that loses
\* but neither repeats nor reorders: a message is handled, answered and shown at most once, one
\* at a time, those of a connection in the order they were written.
THEOREM DeliversAtMostOnce == Spec => DeliverySpec
<1>1. Init => Channel!Init
  BY Stages DEF Init, Channel!Init
<1> QED
  BY <1>1, InductiveInvariant, AnswersAndOrder, DeliveryStep, PTL
     DEF Spec, DeliverySpec, Channel!Spec
================================================================================
