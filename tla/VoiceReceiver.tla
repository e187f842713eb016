------------------------------ MODULE VoiceReceiver ------------------------------
(******************************************************************************)
(* The receivers of a voice channel: the thread of the voice library puts     *)
(* decoded packets into the buffer of the speaker, and the silence detector,  *)
(* a task of the event loop, takes a buffer when its speaker has paused.      *)
(*                                                                            *)
(* The two share _buffers and _last_time without a lock.  A statement of one  *)
(* may come between two statements of the other; a single call on a           *)
(* dictionary or a bytearray is atomic under the interpreter lock.            *)
(******************************************************************************)
EXTENDS Naturals, Sequences, FiniteSets

CONSTANTS
  Nothing,     \* None
  User,
  Receiver     \* slots for the VoiceReceiver objects, one per /join

ASSUME ReceiverConstants ==
  /\ Receiver \subseteq Nat \ {0}
  /\ Nothing \notin Receiver /\ Nothing \notin User

VARIABLES
  running,     \* _running of each
  buffer,      \* _buffers: the packets of a speaker, {} without an entry
  last,        \* _last_time: "none", "fresh", or "old" after 0.8 s of silence
  detector,    \* the silence detector: [at, todo, user, taken, finished]
  thread,      \* the thread in its callback: [at, receiver, user, packet]
  heard,       \* history: the utterances taken, in order
  spoken,      \* history: packets so far
  overtaken    \* history: a packet came between the two pops of the detector

receiverVars == <<running, buffer, last, detector, thread, heard, spoken, overtaken>>

Off == [at |-> "off", todo |-> {}, user |-> Nothing, taken |-> {}, finished |-> <<>>]

Dozing == [Off EXCEPT !.at = "asleep"]

NoPacket == [at |-> "idle", receiver |-> 0, user |-> Nothing, packet |-> 0]

ReceiverInit ==
  /\ running = [r \in Receiver |-> FALSE]
  /\ buffer = [r \in Receiver |-> [u \in User |-> {}]]
  /\ last = [r \in Receiver |-> [u \in User |-> "none"]]
  /\ detector = [r \in Receiver |-> Off]
  /\ thread = NoPacket
  /\ heard = <<>> /\ spoken = 0 /\ overtaken = {}

\* The event loop is in a scan, which awaits nothing.
Scanning == \E r \in Receiver : detector[r].at \in {"scan", "popped"}

--------------------------------------------------------------------------------
(* start and stop.                                                            *)

\* A slot whose last object is gone.
Fresh(r) == detector[r].at = "off" /\ ~running[r] /\ thread.receiver # r

\* __init__ and start().
StartReceiver(r) ==
  /\ Fresh(r) /\ \A q \in Receiver : q < r => ~Fresh(q)
  /\ running' = [running EXCEPT ![r] = TRUE]
  /\ buffer' = [buffer EXCEPT ![r] = [u \in User |-> {}]]
  /\ last' = [last EXCEPT ![r] = [u \in User |-> "none"]]
  /\ detector' = [detector EXCEPT ![r] = Dozing]
  /\ UNCHANGED <<thread, heard, spoken, overtaken>>

\* Mutation: the detector is left to itself.
StopListening(r) ==
  /\ buffer' = [buffer EXCEPT ![r] = [u \in User |-> {}]]
  /\ last' = [last EXCEPT ![r] = [u \in User |-> "none"]]
  /\ UNCHANGED <<running, detector, thread, heard, spoken, overtaken>>

StopReceiver(r) ==
  /\ running' = [running EXCEPT ![r] = FALSE]
  /\ buffer' = [buffer EXCEPT ![r] = [u \in User |-> {}]]
  /\ last' = [last EXCEPT ![r] = [u \in User |-> "none"]]
  /\ UNCHANGED <<detector, thread, heard, spoken, overtaken>>

--------------------------------------------------------------------------------
(* The thread: _on_voice_data_inner.                                          *)

\* A packet of a user who is not a bot is decrypted and decoded, or concealed.
Packet(r, u) ==
  /\ thread.at = "idle" /\ running[r]
  /\ spoken' = spoken + 1
  /\ thread' = [at |-> "decoded", receiver |-> r, user |-> u, packet |-> spoken']
  /\ UNCHANGED <<running, buffer, last, detector, heard, overtaken>>

Extend ==
  LET r == thread.receiver  u == thread.user IN
  /\ thread.at = "decoded"
  /\ buffer' = [buffer EXCEPT ![r][u] = @ \cup {thread.packet}]
  /\ overtaken' = IF detector[r].at = "popped" /\ detector[r].user = u
                    THEN overtaken \cup {u} ELSE overtaken
  /\ thread' = [thread EXCEPT !.at = "extended"]
  /\ UNCHANGED <<running, last, detector, heard, spoken>>

Stamp ==
  /\ thread.at = "extended"
  /\ last' = [last EXCEPT ![thread.receiver][thread.user] = "fresh"]
  /\ thread' = NoPacket
  /\ UNCHANGED <<running, buffer, detector, heard, spoken, overtaken>>

\* silence_sec pass without a packet of the user.
Pause(r, u) ==
  /\ last[r][u] = "fresh"
  /\ last' = [last EXCEPT ![r][u] = "old"]
  /\ UNCHANGED <<running, buffer, detector, thread, heard, spoken, overtaken>>

--------------------------------------------------------------------------------
(* The detector.                                                              *)

Paused(r, u) == last[r][u] = "old" /\ buffer[r][u] # {}

\* It wakes up every 0.1 s; a scan that finds nobody changes nothing and is left out.
Scan(r) ==
  /\ detector[r].at = "asleep"
  /\ running[r] => \E u \in User : Paused(r, u)
  /\ detector' = [detector EXCEPT ![r] =
       IF running[r]
         THEN [@ EXCEPT !.at = "scan", !.todo = {u \in User : last[r][u] # "none"}]
         ELSE Off]
  /\ UNCHANGED <<running, buffer, last, thread, heard, spoken, overtaken>>

Skip(r, u) ==
  /\ detector[r].at = "scan" /\ u \in detector[r].todo
  /\ ~Paused(r, u)
  /\ detector' = [detector EXCEPT ![r].todo = @ \ {u}]
  /\ UNCHANGED <<running, buffer, last, thread, heard, spoken, overtaken>>

\* The detector with the packets of u.
Popped(r, u) ==
  [detector[r] EXCEPT !.at = "popped", !.todo = detector[r].todo \ {u}, !.user = u,
                      !.taken = buffer[r][u]]

\* Mutation: the buffer is copied and stays.
CopyBuffer(r, u) ==
  /\ detector[r].at = "scan" /\ u \in detector[r].todo
  /\ Paused(r, u)
  /\ detector' = [detector EXCEPT ![r] = Popped(r, u)]
  /\ heard' = Append(heard, [receiver |-> r, user |-> u, packets |-> buffer[r][u]])
  /\ UNCHANGED <<running, buffer, last, thread, spoken, overtaken>>

PopBuffer(r, u) ==
  /\ detector[r].at = "scan" /\ u \in detector[r].todo
  /\ Paused(r, u)
  /\ buffer' = [buffer EXCEPT ![r][u] = {}]
  /\ detector' = [detector EXCEPT ![r] = Popped(r, u)]
  /\ heard' = Append(heard, [receiver |-> r, user |-> u, packets |-> buffer[r][u]])
  /\ UNCHANGED <<running, last, thread, spoken, overtaken>>

\* Mutation: the times of all users are forgotten.
PopAllLast(r) ==
  /\ detector[r].at = "popped"
  /\ last' = [last EXCEPT ![r] = [u \in User |-> "none"]]
  /\ detector' = [detector EXCEPT ![r] = [@ EXCEPT !.at = "scan", !.user = Nothing, !.taken = {}]]
  /\ UNCHANGED <<running, buffer, thread, heard, spoken, overtaken>>

\* What a buffer is taken for, by its length and by the energy of its frames.
Kind == {"speech", "short", "noise"}

\* Only speech is kept.
PopLast(r) ==
  LET d == detector[r] IN
  /\ d.at = "popped"
  /\ last' = [last EXCEPT ![r][d.user] = "none"]
  /\ \E kind \in Kind :
       detector' = [detector EXCEPT ![r] =
         [d EXCEPT !.at = "scan", !.user = Nothing, !.taken = {},
                   !.finished = IF kind = "speech" THEN Append(d.finished, d.user) ELSE d.finished]]
  /\ UNCHANGED <<running, buffer, thread, heard, spoken, overtaken>>

\* After the scan each utterance is handed to the callback and awaited, then the detector
\* sleeps for 0.1 s.
Deliver(r) ==
  /\ detector[r].at = "scan" /\ detector[r].todo = {}
  /\ detector' = [detector EXCEPT ![r] =
       IF @.finished = <<>> THEN Dozing ELSE [@ EXCEPT !.at = "speech"]]
  /\ UNCHANGED <<running, buffer, last, thread, heard, spoken, overtaken>>

\* The callback has ended, or raised, which is logged.
Delivered(r) ==
  LET d == detector[r] IN
  detector' = [detector EXCEPT ![r] =
    IF Len(d.finished) = 1 THEN Dozing
      ELSE [d EXCEPT !.at = "speech", !.finished = Tail(d.finished)]]

ThreadStep == Extend \/ Stamp

DetectorStep(r) ==
  \/ \E u \in User : Skip(r, u) \/ PopBuffer(r, u)
  \/ PopLast(r) \/ Deliver(r)
  \/ ~Scanning /\ Scan(r)

--------------------------------------------------------------------------------

\* No packet is heard twice, and the utterances of a user that one receiver hears follow each
\* other as they were spoken (_on_voice_data_inner beside _silence_detector).
HeardOnceInOrder ==
  \A i, j \in 1..Len(heard) :
    i < j /\ heard[i].user = heard[j].user =>
      \A p \in heard[i].packets, q \in heard[j].packets :
        p # q /\ (heard[i].receiver = heard[j].receiver => p < q)
================================================================================
