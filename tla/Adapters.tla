-------------------------------- MODULE Adapters --------------------------------
(******************************************************************************)
(* A platform adapter: it takes messages of users, forwards them to the Core  *)
(* over its WebSocket, and shows what comes back.  Discord and Telegram       *)
(* remember where a user wrote, show that the agent is typing and speak;      *)
(* Slack remembers where; LINE, WhatsApp and Signal write to the user.  The   *)
(* connection itself is in Gateway; here it is open or not.                   *)
(*                                                                            *)
(* fate[m] is what became of the message m: where and how its answer was      *)
(* shown.  One voice channel stands for the guilds of Discord.                *)
(******************************************************************************)
EXTENDS VoiceReceiver, SequencesExt

CONSTANTS
  Chat,        \* channels and group chats
  Closed,      \* those the filters of the adapter exclude
  CacheMax,    \* _USER_CHANNEL_CACHE_MAX
  Scenario     \* bounds of a run by platform: [platform, messages, greetings, commands, packets, cuts]

ASSUME AdapterConstants ==
  /\ Closed \subseteq Chat /\ Chat \cap {"direct", "vc", Nothing} = {}
  /\ IsFiniteSet(User)
  /\ CacheMax \in Nat \ {0}
  /\ \A s \in Scenario :
       s.platform \in {"discord", "telegram", "slack", "line", "whatsapp", "signal"}

VARIABLES
  platform,
  left,        \* bounds that are left: messages, greetings, commands, packets, cuts
  up,          \* "off", "up", "stopped", or "ended": start() returned by itself
  ws,          \* _ws: Nothing, "open" or "closed"
  posted,      \* messages that passed the filters: [user, chat, kind]
  handler,     \* where the handling of each of them is
  routes,      \* _user_channels or _chat_map, oldest first: [user, chat]
  typing,      \* chats with a typing task
  voiced,      \* _voice_users
  latest,      \* history: the kind of the latest message understood of each user of Telegram
  atCore,      \* messages forwarded and not answered
  down,        \* frames from the Core: [user, re, images]
  showing,     \* the frame that is dispatched and how, or Nothing
  fate,        \* [where, how] of the answer to each message
  excused,     \* history: messages with an answer the platform refused or that could not be spoken
  joined,      \* the bot is connected to the voice channel
  receiver,    \* _vc_receivers
  leaving,     \* /leave awaits the end of the connection
  muted,       \* _vc_muted
  inVoice,     \* _vc_user_guild
  stt,         \* receivers whose callback awaits the transcription
  kicked       \* history: the bot lost the voice channel without a /leave

core == <<atCore, down>>
voice == <<joined, receiver, leaving, muted, inVoice, stt, kicked>>
text == <<routes, typing, voiced, latest>>
adapterVars == <<platform, left, up, ws, posted, handler, text, core, showing, fate, excused, voice,
          receiverVars>>

Pending == [where |-> Nothing, how |-> "pending"]

CacheOf(p) == IF p \in {"discord", "slack"} THEN CacheMax ELSE Cardinality(User)

\* The channels of the other users.
Others(u) ==
  IF \E i \in DOMAIN routes : routes[i].user = u
    THEN RemoveAt(routes, CHOOSE i \in DOMAIN routes : routes[i].user = u)
    ELSE routes

\* Mutation: nobody is evicted.
RoutedUnbounded(u, c) == Append(Others(u), [user |-> u, chat |-> c])

\* The channel of u becomes its latest; the oldest user beyond the bound is evicted.
Routed(u, c) ==
  LET rs == Append(Others(u), [user |-> u, chat |-> c])
  IN  IF Len(rs) > CacheOf(platform) THEN Tail(rs) ELSE rs

\* The channel a reply to u goes to: a direct message when none is known.
RouteOf(u) ==
  IF \E e \in ToSet(routes) : e.user = u
    THEN (CHOOSE e \in ToSet(routes) : e.user = u).chat ELSE "direct"

Spend(b) == left' = [left EXCEPT ![b] = @ - 1]

Resolved(m, where, how) == [fate EXCEPT ![m] = [where |-> where, how |-> how]]

--------------------------------------------------------------------------------
(* Start, connection and stop.                                                *)

\* The connection to the Core is made by a task of its own.
Start ==
  /\ up = "off" /\ up' = "up"
  /\ UNCHANGED <<platform, left, ws, posted, handler, text, core, showing, fate, excused, voice,
                 receiverVars>>

\* The connection breaks: the loop keeps the closed socket until the next attempt fails.
Cut ==
  /\ up = "up" /\ ws = "open" /\ left.cuts > 0 /\ ~Scanning
  /\ \E s \in {Nothing, "closed"} : ws' = s
  /\ down' = <<>> /\ atCore' = {}
  /\ fate' = [m \in DOMAIN fate |->
       IF m \in atCore \/ \E i \in DOMAIN down : down[i].re = m
         THEN [where |-> Nothing, how |-> "cut"] ELSE fate[m]]
  /\ Spend("cuts")
  /\ UNCHANGED <<platform, up, posted, handler, text, showing, excused, voice, receiverVars>>

Connect ==
  /\ up = "up" /\ ws # "open" /\ ~Scanning
  /\ ws' = "open"
  /\ UNCHANGED <<platform, left, up, posted, handler, text, core, showing, fate, excused, voice,
                 receiverVars>>

Over(how) ==
  /\ up = "up" /\ ~Scanning
  /\ up' = how /\ ws' = "closed"
  /\ UNCHANGED <<platform, left, posted, handler, text, core, showing, fate, excused, voice,
                 receiverVars>>

\* A signal ends start(), and the runner calls stop().
Stop == Over("stopped")

\* start() of Telegram returns once the polling has begun, and the runner calls stop().
Return == platform = "telegram" /\ Over("ended")

--------------------------------------------------------------------------------
(* A message of a user.                                                       *)

Serving == up = "up" /\ ~Scanning

Post(u, c, k, at) ==
  /\ posted' = Append(posted, [user |-> u, chat |-> c, kind |-> k])
  /\ handler' = Append(handler, at)
  /\ fate' = Append(fate, Pending)
  /\ Spend("messages")

\* Mutation: the channel is remembered before the filters have passed the message.
RouteFirst(u, c) ==
  /\ Serving /\ platform = "discord" /\ left.messages > 0 /\ ws # Nothing
  /\ routes' = Routed(u, c)
  /\ typing' = typing \cup ({c} \ Closed)
  /\ IF c \in Closed
       THEN Spend("messages") /\ UNCHANGED <<posted, handler, fate>>
       ELSE Post(u, c, "text", "fetch")
  /\ UNCHANGED <<platform, up, ws, voiced, latest, core, showing, excused, voice, receiverVars>>

\* Discord's on_message: connection and filters are tested, then the channel is remembered
\* and the typing task is replaced before attachments are fetched.
TakeDiscord(u, c) ==
  /\ Serving /\ platform = "discord" /\ left.messages > 0 /\ ws # Nothing
  /\ c \notin Closed
  /\ routes' = Routed(u, c)
  /\ typing' = typing \cup {c}
  /\ Post(u, c, "text", "fetch")
  /\ UNCHANGED <<platform, up, ws, voiced, latest, core, showing, excused, voice, receiverVars>>

\* Telegram handles one update after the other.
TakeTelegram(u, c, k) ==
  /\ Serving /\ platform = "telegram" /\ left.messages > 0
  /\ \A m \in DOMAIN handler : handler[m] = "done"
  /\ c \notin Closed
  /\ routes' = Routed(u, c)
  /\ Post(u, c, k, "fetch")
  /\ UNCHANGED <<platform, up, ws, typing, voiced, latest, core, showing, excused, voice,
                 receiverVars>>

\* The downloads of the attachments of a message, and of those of the message it answers, end,
\* with or without them; audio is transcribed into the text.
FetchedFromDiscord(m) ==
  /\ Serving /\ platform = "discord" /\ handler[m] = "fetch"
  /\ handler' = [handler EXCEPT ![m] = "send"]
  /\ UNCHANGED <<platform, left, up, ws, posted, text, core, showing, fate, excused, voice,
                 receiverVars>>

\* Mutation: a user who spoke once is spoken to for ever.
FetchedKeepingVoice(m) ==
  /\ Serving /\ platform = "telegram" /\ handler[m] = "fetch" /\ posted[m].kind = "text"
  /\ handler' = [handler EXCEPT ![m] = "send"]
  /\ latest' = [latest EXCEPT ![posted[m].user] = "text"]
  /\ UNCHANGED <<platform, left, up, ws, posted, routes, typing, voiced, core, showing, fate,
                 excused, voice, receiverVars>>

\* The download of a photo or of an image ends, with or without it.
FetchedFromTelegram(m) ==
  /\ Serving /\ platform = "telegram" /\ handler[m] = "fetch" /\ posted[m].kind = "text"
  /\ handler' = [handler EXCEPT ![m] = "send"]
  /\ voiced' = voiced \ {posted[m].user}
  /\ latest' = [latest EXCEPT ![posted[m].user] = "text"]
  /\ UNCHANGED <<platform, left, up, ws, posted, routes, typing, core, showing, fate, excused,
                 voice, receiverVars>>

\* transcribe() of each backend; the model that runs in a thread may raise.
Transcription == {"text", "empty", "raises"}

\* A voice message is transcribed, or not: then its text is empty.
Transcribed(m) ==
  /\ Serving /\ handler[m] = "fetch" /\ posted[m].kind = "voice"
  /\ handler' = [handler EXCEPT ![m] = "send"]
  /\ \E t \in Transcription :
       /\ voiced' = IF t = "text" THEN voiced \cup {posted[m].user} ELSE voiced
       /\ latest' = IF t = "text" THEN [latest EXCEPT ![posted[m].user] = "voice"] ELSE latest
  /\ UNCHANGED <<platform, left, up, ws, posted, routes, typing, core, showing, fate, excused,
                 voice, receiverVars>>

\* A message is sent without a suspension between the test of the connection and the send.  On
\* a connection that is gone it raises, which is logged: the message is lost.
SentAtOnce(u, c, k) ==
  /\ posted' = Append(posted, [user |-> u, chat |-> c, kind |-> k])
  /\ handler' = Append(handler, "done")
  /\ IF ws = "open"
       THEN atCore' = atCore \cup {Len(posted')} /\ fate' = Append(fate, Pending)
       ELSE UNCHANGED atCore /\ fate' = Append(fate, [where |-> Nothing, how |-> "cut"])

TakePlain(u, c) ==
  /\ Serving /\ left.messages > 0 /\ ws # Nothing
  /\ SentAtOnce(u, c, "text")
  /\ Spend("messages")
  /\ UNCHANGED <<platform, up, ws, typing, voiced, latest, down, showing, excused, voice, receiverVars>>

\* Every event is acknowledged first; those of bots and others than messages are ignored.
TakeSlack(u, c) ==
  /\ platform = "slack" /\ TakePlain(u, c)
  /\ routes' = Routed(u, c)

\* The text messages of a webhook call with a valid signature, in their order.
TakeLine(u) == platform = "line" /\ TakePlain(u, "direct") /\ UNCHANGED routes

TakeWhatsApp(u) == platform = "whatsapp" /\ TakePlain(u, "direct") /\ UNCHANGED routes

\* What a poll of the signal-cli daemon brings, in its order.
TakeSignal(u) == platform = "signal" /\ TakePlain(u, "direct") /\ UNCHANGED routes

\* The end of a handler that awaited.
Forward(m) ==
  /\ Serving /\ handler[m] = "send"
  /\ handler' = [handler EXCEPT ![m] = "done"]
  /\ IF ws = "open"
       THEN atCore' = atCore \cup {m} /\ UNCHANGED fate
       ELSE fate' = Resolved(m, Nothing, "cut") /\ UNCHANGED atCore
  /\ UNCHANGED <<platform, left, up, ws, posted, routes, voiced, latest, down, showing, excused,
                 voice, receiverVars>>

ForwardFromDiscord(m) == platform = "discord" /\ Forward(m) /\ UNCHANGED typing

\* Telegram shows its typing when the message has been sent.
ForwardFromTelegram(m) ==
  /\ platform = "telegram" /\ Forward(m)
  /\ typing' = IF ws = "open" THEN typing \cup {posted[m].chat} ELSE typing

--------------------------------------------------------------------------------
(* Frames from the Core (external) and their dispatch.                        *)

Answer(m) ==
  /\ m \in atCore /\ ~Scanning
  /\ \E images \in BOOLEAN :
       down' = Append(down, [user |-> posted[m].user, re |-> m, images |-> images])
  /\ atCore' = atCore \ {m}
  /\ UNCHANGED <<platform, left, up, ws, posted, handler, text, showing, fate, excused, voice,
                 receiverVars>>

\* The heartbeat writes to a user.
Greet(u) ==
  /\ Serving /\ ws = "open" /\ left.greetings > 0
  /\ down' = Append(down, [user |-> u, re |-> 0, images |-> FALSE])
  /\ Spend("greetings")
  /\ UNCHANGED <<platform, up, ws, posted, handler, text, atCore, showing, fate, excused, voice,
                 receiverVars>>

\* _dispatch_core_message.
WayOf(f) ==
  CASE platform = "discord" /\ f.user \in inVoice /\ receiver # Nothing -> "vc"
    [] platform = "telegram" /\ f.user \in voiced -> "voice"
    [] platform = "telegram" /\ f.user \notin voiced /\ f.images -> "images"
    [] OTHER -> "text"

Dispatch ==
  /\ Serving /\ showing = Nothing /\ down # <<>>
  /\ showing' = [frame |-> Head(down), how |-> WayOf(Head(down))]
  /\ down' = Tail(down)
  /\ UNCHANGED <<platform, left, up, ws, posted, handler, text, atCore, fate, excused, voice,
                 receiverVars>>

Ends(where, how) ==
  /\ showing' = Nothing
  /\ fate' = IF showing.frame.re = 0 THEN fate ELSE Resolved(showing.frame.re, where, how)

\* The platform refuses it, or a part of it; the exception is logged.
Refused ==
  /\ Ends(Nothing, "lost")
  /\ excused' = excused \cup {showing.frame.re}

\* A voice message or at least one of the images is sent; the typing task goes on.
ShowOther ==
  /\ Serving /\ showing # Nothing /\ showing.how \in {"voice", "images"}
  /\ Ends(RouteOf(showing.frame.user), showing.how)
  /\ UNCHANGED <<platform, left, up, ws, posted, handler, text, core, excused, voice, receiverVars>>

\* Mutation: an answer that cannot be spoken or drawn is given up.
OtherGivenUp ==
  /\ Serving /\ showing # Nothing /\ showing.how \in {"voice", "images"}
  /\ Ends(Nothing, "lost")
  /\ UNCHANGED <<platform, left, up, ws, posted, handler, text, core, excused, voice, receiverVars>>

\* Telegram: the image that carries the text is refused and another one is not.
LoseCaption ==
  /\ Serving /\ showing # Nothing /\ showing.how = "images"
  /\ Refused
  /\ UNCHANGED <<platform, left, up, ws, posted, handler, text, core, voice, receiverVars>>

\* No audio, a send that raises, no image sent: the text is written instead.
OtherFails ==
  /\ Serving /\ showing # Nothing /\ showing.how \in {"voice", "images"}
  /\ showing' = [showing EXCEPT !.how = "text"]
  /\ UNCHANGED <<platform, left, up, ws, posted, handler, text, core, fate, excused, voice,
                 receiverVars>>

WriteTo(where) ==
  /\ Serving /\ showing # Nothing /\ showing.how = "text"
  /\ (Ends(where, "text") /\ UNCHANGED excused) \/ Refused
  /\ UNCHANGED <<platform, left, up, ws, posted, handler, routes, voiced, latest, core, voice,
                 receiverVars>>

\* Mutation: the typing task is left to itself.
SendAndType ==
  /\ platform = "discord" /\ WriteTo(RouteOf(showing.frame.user))
  /\ UNCHANGED typing

\* The text is written where the user wrote last, in chunks with the images at the last, and
\* the typing there is ended.
SendToDiscord ==
  /\ platform = "discord" /\ WriteTo(RouteOf(showing.frame.user))
  /\ typing' = typing \ {RouteOf(showing.frame.user)}

SendToTelegram ==
  /\ platform = "telegram" /\ WriteTo(RouteOf(showing.frame.user))
  /\ typing' = typing \ {RouteOf(showing.frame.user)}

\* A direct message is opened for a user without a channel.
SendToSlack ==
  platform = "slack" /\ WriteTo(RouteOf(showing.frame.user)) /\ UNCHANGED typing

SendToLine == platform = "line" /\ WriteTo("direct") /\ UNCHANGED typing

SendToWhatsApp == platform = "whatsapp" /\ WriteTo("direct") /\ UNCHANGED typing

SendToSignal == platform = "signal" /\ WriteTo("direct") /\ UNCHANGED typing

\* synthesize() of each backend, through the voice conversion if that is loaded: it does not
\* raise.
Synthesis == {"audio", "empty"}

\* _speak_in_vc: what plays is stopped for it.  Without a connection or audio, or when the
\* player raises, nothing is shown.
Speak ==
  /\ Serving /\ showing # Nothing /\ showing.how = "vc"
  /\ \E s \in Synthesis :
       \/ s = "audio" /\ joined /\ Ends("vc", "spoken") /\ UNCHANGED excused
       \/ Refused
  /\ UNCHANGED <<platform, left, up, ws, posted, handler, text, core, voice, receiverVars>>

--------------------------------------------------------------------------------
(* The voice channel of Discord.                                              *)

\* A receiver of its own for each /join; a client that is connected cannot connect again.
Join ==
  /\ Serving /\ platform = "discord" /\ ~joined /\ left.commands > 0
  /\ \E r \in Receiver :
       /\ StartReceiver(r)
       /\ receiver' = r
  /\ joined' = TRUE
  /\ Spend("commands")
  /\ UNCHANGED <<platform, up, ws, posted, handler, text, core, showing, fate, excused,
                 leaving, muted, inVoice, stt, kicked>>

\* /leave stops the receiver and disconnects; without a connection there is nothing to await.
Leave ==
  /\ Serving /\ platform = "discord" /\ ~leaving /\ left.commands > 0
  /\ IF receiver = Nothing THEN UNCHANGED receiverVars ELSE StopReceiver(receiver)
  /\ receiver' = Nothing /\ leaving' = joined
  /\ IF joined THEN UNCHANGED <<inVoice, muted>> ELSE inVoice' = {} /\ muted' = FALSE
  /\ Spend("commands")
  /\ UNCHANGED <<platform, up, ws, posted, handler, text, core, showing, fate, excused,
                 joined, stt, kicked>>

\* Then it forgets who spoke there.
Left ==
  /\ ~Scanning /\ leaving
  /\ leaving' = FALSE /\ joined' = FALSE
  /\ inVoice' = {} /\ muted' = FALSE
  /\ UNCHANGED <<platform, left, up, ws, posted, handler, text, core, showing, fate, excused,
                 receiver, stt, kicked, receiverVars>>

Mute ==
  /\ Serving /\ platform = "discord" /\ joined /\ left.commands > 0
  /\ muted' = ~muted
  /\ Spend("commands")
  /\ UNCHANGED <<platform, up, ws, posted, handler, text, core, showing, fate, excused,
                 joined, receiver, leaving, inVoice, stt, kicked, receiverVars>>

\* A moderator or the network ends the connection of the bot.
LoseChannel ==
  /\ Serving /\ joined /\ left.cuts > 0
  /\ joined' = FALSE /\ kicked' = TRUE
  /\ Spend("cuts")
  /\ UNCHANGED <<platform, up, ws, posted, handler, text, core, showing, fate, excused, receiver,
                 leaving, muted, inVoice, stt, receiverVars>>

\* A packet reaches the sink of the client that listens.
Hear(u) ==
  /\ joined /\ receiver # Nothing /\ left.packets > 0
  /\ Packet(receiver, u)
  /\ Spend("packets")
  /\ UNCHANGED <<platform, up, ws, posted, handler, text, core, showing, fate, excused, voice>>

\* _on_vc_speech: muted or without a connection, the speech is dropped.
DropSpeech(r) ==
  /\ detector[r].at = "speech" /\ r \notin stt /\ ~Scanning
  /\ muted \/ ws = Nothing
  /\ Delivered(r)
  /\ UNCHANGED <<running, buffer, last, thread, heard, spoken, overtaken, platform, left, up, ws, posted,
                 handler, text, core, showing, fate, excused, voice>>

Transcribe(r) ==
  /\ detector[r].at = "speech" /\ r \notin stt /\ ~Scanning
  /\ ~muted /\ ws # Nothing
  /\ stt' = stt \cup {r}
  /\ UNCHANGED <<platform, left, up, ws, posted, handler, text, core, showing, fate, excused,
                 joined, receiver, leaving, muted, inVoice, kicked, receiverVars>>

NotUnderstood(r) ==
  /\ r \in stt /\ ~Scanning
  /\ stt' = stt \ {r}
  /\ Delivered(r)
  /\ UNCHANGED <<running, buffer, last, thread, heard, spoken, overtaken, platform, left, up, ws, posted,
                 handler, text, core, showing, fate, excused, joined, receiver, leaving, muted,
                 inVoice, kicked>>

\* Its speaker is answered in the voice channel from now on.
Understood(r) ==
  LET u == Head(detector[r].finished) IN
  /\ r \in stt /\ ~Scanning
  /\ stt' = stt \ {r}
  /\ inVoice' = inVoice \cup {u}
  /\ SentAtOnce(u, "vc", "speech")
  /\ Delivered(r)
  /\ UNCHANGED <<running, buffer, last, thread, heard, spoken, overtaken, platform, left, up, ws, text,
                 down, showing, excused, joined, receiver, leaving, muted, kicked>>

RunThread ==
  /\ ThreadStep
  /\ UNCHANGED <<platform, left, up, ws, posted, handler, text, core, showing, fate, excused, voice>>

Detect(r) ==
  /\ DetectorStep(r)
  /\ UNCHANGED <<platform, left, up, ws, posted, handler, text, core, showing, fate, excused, voice>>

SilenceOf(u) ==
  /\ \E r \in Receiver : Pause(r, u)
  /\ UNCHANGED <<platform, left, up, ws, posted, handler, text, core, showing, fate, excused, voice>>

--------------------------------------------------------------------------------

AdapterInit ==
  /\ \E s \in Scenario :
       /\ platform = s.platform
       /\ left = [messages |-> s.messages, greetings |-> s.greetings, commands |-> s.commands,
                  packets |-> s.packets, cuts |-> s.cuts]
  /\ up = "off" /\ ws = Nothing
  /\ posted = <<>> /\ handler = <<>> /\ fate = <<>>
  /\ routes = <<>> /\ typing = {} /\ voiced = {}
  /\ latest = [u \in User |-> "none"]
  /\ atCore = {} /\ down = <<>> /\ showing = Nothing /\ excused = {}
  /\ joined = FALSE /\ receiver = Nothing /\ leaving = FALSE /\ muted = FALSE
  /\ inVoice = {} /\ stt = {} /\ kicked = FALSE
  /\ ReceiverInit

Take(u, c) ==
  \/ TakeDiscord(u, c)
  \/ \E k \in {"text", "voice"} : TakeTelegram(u, c, k)
  \/ TakeSlack(u, c)

TakeDirect(u) == TakeLine(u) \/ TakeWhatsApp(u) \/ TakeSignal(u)

Handle ==
  \E m \in DOMAIN posted :
    \/ FetchedFromDiscord(m) \/ FetchedFromTelegram(m) \/ Transcribed(m)
    \/ ForwardFromDiscord(m) \/ ForwardFromTelegram(m)

Write ==
  \/ SendToDiscord \/ SendToTelegram \/ SendToSlack
  \/ SendToLine \/ SendToWhatsApp \/ SendToSignal

Show == ShowOther \/ LoseCaption \/ OtherFails \/ Write \/ Speak

Speech == \E r \in Receiver : DropSpeech(r) \/ Transcribe(r) \/ NotUnderstood(r) \/ Understood(r)

AdapterNext ==
  \/ Start \/ Cut \/ Connect \/ Stop \/ Return
  \/ \E u \in User : (\E c \in Chat : Take(u, c)) \/ TakeDirect(u) \/ Greet(u) \/ Hear(u) \/ SilenceOf(u)
  \/ Handle
  \/ \E m \in atCore : Answer(m)
  \/ Dispatch \/ Show
  \/ Join \/ Leave \/ Left \/ Mute \/ LoseChannel
  \/ Speech \/ RunThread \/ \E r \in Receiver : Detect(r)

AdapterSpec == AdapterInit /\ [][AdapterNext]_adapterVars

\* The event loop runs what is ready, the libraries and the Core answer, time passes for
\* those who are silent.  Nobody has to write, speak, join or leave.
FairAdapter ==
  /\ AdapterSpec
  /\ WF_adapterVars(Connect) /\ WF_adapterVars(Handle) /\ WF_adapterVars(\E m \in atCore : Answer(m))
  /\ WF_adapterVars(Dispatch) /\ WF_adapterVars(Show) /\ WF_adapterVars(Left)
  /\ WF_adapterVars(Speech) /\ WF_adapterVars(RunThread)
  /\ \A r \in Receiver : WF_adapterVars(Detect(r))
  /\ \A u \in User : WF_adapterVars(SilenceOf(u))

--------------------------------------------------------------------------------
(* Properties.                                                                *)

Place == Chat \cup {"direct", "vc", Nothing}

\* Every variable has a value of its kind, at most CacheMax channels are remembered, each user
\* once, and the handling of messages and their fates stay in step.
AdapterTypeOK ==
  /\ up \in {"off", "up", "stopped", "ended"} /\ ws \in {Nothing, "open", "closed"}
  /\ posted \in Seq([user : User, chat : Place, kind : {"text", "voice", "speech"}])
  /\ Len(handler) = Len(posted) /\ Len(fate) = Len(posted)
  /\ \A m \in DOMAIN posted : handler[m] \in {"fetch", "send", "done"} /\ fate[m].where \in Place
  /\ Len(routes) <= CacheOf(platform)
  /\ \A i, j \in DOMAIN routes : routes[i].user = routes[j].user => i = j
  /\ typing \subseteq Chat /\ voiced \subseteq User /\ inVoice \subseteq User
  /\ atCore \subseteq DOMAIN posted
  /\ \A m \in atCore : handler[m] = "done" /\ fate[m] = Pending
  /\ receiver \in Receiver \cup {Nothing} /\ stt \subseteq Receiver
  /\ \A r \in stt : detector[r].at = "speech"
  /\ \A r \in Receiver : detector[r].at \in {"off", "asleep", "scan", "popped", "speech"}

\* A written answer appears where its question was asked, or where the same user asked
\* another one later, or in a direct message; never in a chat the filters exclude, and not in
\* a chat only others use (routing by _user_channels and _chat_map).
AnswerStaysWithUser ==
  \A m \in DOMAIN fate :
    fate[m].where \in Chat =>
      \E n \in DOMAIN posted :
        /\ posted[n].user = posted[m].user /\ posted[n].chat = fate[m].where
        /\ n >= m \/ posted[m].chat = "vc"

\* An answer that reaches the adapter is shown in some way, unless the platform refuses the
\* text of it or it was to be spoken in a voice channel (the fallbacks of the adapters).
NothingVanishes == \A m \in DOMAIN fate : fate[m].how = "lost" => m \in excused

\* Telegram answers by voice only those whose last message it understood was spoken, whatever
\* failed in between.
VoiceForVoice ==
  [][showing = Nothing /\ showing' # Nothing /\ showing'.how = "voice"
       => latest[showing'.frame.user] = "voice"]_adapterVars

\* At most one receiver runs, the one that /leave would stop, unless the bot was thrown out.
RunningIsRegistered == \A r \in Receiver : running[r] => r = receiver \/ kicked

\* Typing in a chat ends, unless an answer to a message of it took another way than the text
\* in that chat, or was lost with the connection.
TypingEnds ==
  \A c \in Chat \ Closed :
    c \in typing ~>
      \/ c \notin typing \/ up # "up"
      \/ \E m \in DOMAIN fate :
           posted[m].chat = c /\ fate[m] # Pending /\ fate[m] # [where |-> c, how |-> "text"]

\* What is said in a voice channel is taken by the detector, unless a packet came between its
\* two pops or the receiver was stopped.
SpeechIsTaken ==
  \A r \in Receiver, u \in User :
    buffer[r][u] # {} ~> buffer[r][u] = {} \/ u \in overtaken \/ ~running[r] \/ up # "up"

\* An answer that cannot be spoken degrades to text (ai/tts.py): with a connection to the
\* voice channel none is given up by the way it was to be shown.
SpeechDegrades ==
  [][showing # Nothing /\ showing.how = "vc" /\ joined => fate' = fate \/ fate'[showing.frame.re].how # "lost"]_adapterVars

\* An adapter runs until it is stopped (docs/deployment.md, adapters/slack.py).
RunsUntilStopped == up # "ended"

\* The typing indicator is shown while the Core processes the message (adapters/telegram.py).
TypingOnlyWhileProcessed ==
  \A c \in Chat \ Closed : c \in typing ~> c \notin typing \/ up # "up"
================================================================================
