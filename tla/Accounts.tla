-------------------------------- MODULE Accounts --------------------------------
(******************************************************************************)
(* Accounts: the users table, the links from platform identities to users and *)
(* the one-time tokens that move a link.                                      *)
(*                                                                            *)
(* The engine handles one message at a time and is the only writer of links   *)
(* and tokens.  The users table has a second kind of writer: the background   *)
(* extraction each chat message leaves behind, which reads a whole row, awaits*)
(* and writes the whole row back.  A statement and its commit are one step:   *)
(* nothing is sent between them, and a crash between them leaves what a crash *)
(* before the statement leaves.                                               *)
(******************************************************************************)
EXTENDS Naturals, FiniteSets

CONSTANTS
  Ident,        \* platform identities (adapter_id, platform_user_id)
  Adapter,      \* adapter ids
  AdapterOf,    \* [Ident -> Adapter]
  User,         \* internal user ids (fresh uuids)
  Token,        \* link tokens (fresh random strings)
  Slot,         \* bound: extractions under way at the same time
  None,
  MaxCrashes    \* bound: how often the process may be killed

ASSUME ConstantsOK ==
  /\ AdapterOf \in [Ident -> Adapter]
  /\ None \notin Ident \cup Adapter \cup User \cup Token
  /\ MaxCrashes \in Nat

VARIABLES
  users,        \* [User -> Summary or None]: the users table
  links,        \* [Ident -> User or None]: the platform_links table
  tokens,       \* [Token -> issued token or None]: link_token records
  pc,           \* where the engine's handler is
  msg,          \* the message it handles
  uid,          \* the user it resolved
  summary,      \* the UserSummary it read
  grant,        \* the identity the verified token speaks for
  bg,           \* [Slot -> background extraction]
  preferred,    \* history: [User -> the /prefer the user was last told of]
  everLinked,   \* history: users that have had a link
  used,         \* history: [Token -> how many links it made]
  crashes

tables == <<users, links, tokens>>
engine == <<pc, msg, uid, summary, grant>>
history == <<preferred, everLinked, used>>
vars == <<tables, engine, bg, history, crashes>>

\* Of the row's columns only the preferred platform is told apart.
Summary == [pref : Adapter \cup {None}]

NewSummary == [pref |-> None]

\* A link_token record.
TokenRow == [by : Ident, used : BOOLEAN, expired : BOOLEAN]

ASSUME NoneIsNoRow == None \notin Summary \cup TokenRow

Message == [op : {"chat", "link", "confirm", "unlink", "prefer"}, from : Ident,
            arg : Adapter \cup Token \cup {None}]

NoMessage == [op |-> "none", from |-> None, arg |-> None]

Here == AdapterOf[msg.from]

LinksOf(u) == {i \in Ident : links[i] = u}

\* The message is done with.
Finish ==
  /\ pc' = "idle" /\ msg' = NoMessage
  /\ uid' = None /\ summary' = NewSummary /\ grant' = None

--------------------------------------------------------------------------------
(* A message leaves the queue.                                                *)

Receive(m) ==
  /\ pc = "idle"
  /\ pc' = m.op
  /\ msg' = m
  /\ UNCHANGED <<tables, uid, summary, grant, bg, history, crashes>>

\* The messages an adapter can deliver.
Messages ==
  {m \in Message :
     CASE m.op \in {"chat", "link"} -> m.arg = None
       [] m.op = "confirm"          -> m.arg \in Token /\ tokens[m.arg] # None
       [] m.op = "unlink"           -> m.arg \in Adapter
       [] m.op = "prefer"           -> m.arg \in Adapter \cup {None}}

--------------------------------------------------------------------------------
(* Chat: CoreEngine._resolve_user, then the answer and its extraction.        *)

\* resolve_user finds the account of the sender.
ResolveKnown ==
  /\ pc = "chat"
  /\ links[msg.from] # None
  /\ uid' = links[msg.from]
  /\ pc' = "read"
  /\ UNCHANGED <<tables, msg, summary, grant, bg, history, crashes>>

\* A sender nobody knows gets a new user row.
CreateUser(u) ==
  /\ pc = "chat"
  /\ links[msg.from] = None
  /\ users[u] = None
  /\ users' = [users EXCEPT ![u] = NewSummary]
  /\ uid' = u
  /\ summary' = NewSummary
  /\ pc' = "join"
  /\ UNCHANGED <<links, tokens, msg, grant, bg, history, crashes>>

\* Mutation: the link is forgotten.
LinkForgotten ==
  /\ pc = "join"
  /\ pc' = "write"
  /\ UNCHANGED <<tables, msg, uid, summary, grant, bg, history, crashes>>

\* Mutation: the row is dropped again when the link is written.
LinkOnly ==
  /\ pc = "join"
  /\ links' = [links EXCEPT ![msg.from] = uid]
  /\ users' = [users EXCEPT ![uid] = None]
  /\ everLinked' = everLinked \cup {uid}
  /\ pc' = "write"
  /\ UNCHANGED <<tokens, msg, uid, summary, grant, bg, preferred, used, crashes>>

\* Its link is written after it.
LinkNewUser ==
  /\ pc = "join"
  /\ links' = [links EXCEPT ![msg.from] = uid]
  /\ everLinked' = everLinked \cup {uid}
  /\ pc' = "write"
  /\ UNCHANGED <<users, tokens, msg, uid, summary, grant, bg, preferred, used, crashes>>

\* get_or_create_user reads the row.
ReadUser ==
  /\ pc = "read"
  /\ summary' = users[uid]
  /\ pc' = "write"
  /\ UNCHANGED <<tables, msg, uid, grant, bg, history, crashes>>

\* update_user_summary writes all its columns, those of the message changed.
WriteUser ==
  /\ pc = "write"
  /\ users' = [users EXCEPT ![uid] = summary]
  /\ pc' = "answer"
  /\ UNCHANGED <<links, tokens, msg, uid, summary, grant, bg, history, crashes>>

\* The answer is generated and sent; post-processing starts in the background.
Answer(k) ==
  /\ pc = "answer"
  /\ bg[k].at = "none"
  /\ bg' = [bg EXCEPT ![k] = [at |-> "read", uid |-> uid, summary |-> NewSummary]]
  /\ Finish
  /\ UNCHANGED <<tables, history, crashes>>

\* Generation or sending failed: no post-processing.
AnswerFails ==
  /\ pc = "answer"
  /\ Finish
  /\ UNCHANGED <<tables, bg, history, crashes>>

--------------------------------------------------------------------------------
(* Background: MemoryExtractor.extract_and_store_memories.                    *)

\* The AI named a topic or a tone: the row is read again.
ExtractRead(k) ==
  /\ bg[k].at = "read"
  /\ bg' = [bg EXCEPT ![k].at = "write", ![k].summary = users[bg[k].uid]]
  /\ UNCHANGED <<tables, engine, history, crashes>>

\* And written back, topic and tone changed, with all its other columns.
ExtractWrite(k) ==
  /\ bg[k].at = "write"
  /\ users' = [users EXCEPT ![bg[k].uid] = bg[k].summary]
  /\ bg' = [bg EXCEPT ![k] = [at |-> "none", uid |-> None, summary |-> NewSummary]]
  /\ UNCHANGED <<links, tokens, engine, history, crashes>>

\* The AI call failed or had nothing to say.
ExtractNothing(k) ==
  /\ bg[k].at = "read"
  /\ bg' = [bg EXCEPT ![k] = [at |-> "none", uid |-> None, summary |-> NewSummary]]
  /\ UNCHANGED <<tables, engine, history, crashes>>

--------------------------------------------------------------------------------
(* Linking: store_link_token, verify_link_token, link_platform.               *)

\* /link: a token for the sender's identity.
IssueToken(t) ==
  /\ pc = "link"
  /\ tokens[t] = None
  /\ tokens' = [tokens EXCEPT ![t] = [by |-> msg.from, used |-> FALSE, expired |-> FALSE]]
  /\ Finish
  /\ UNCHANGED <<users, links, bg, history, crashes>>

\* Its ten minutes are over.
ExpireToken(t) ==
  /\ tokens[t] # None
  /\ ~tokens[t].expired
  /\ tokens' = [tokens EXCEPT ![t].expired = TRUE]
  /\ UNCHANGED <<users, links, engine, bg, history, crashes>>

Valid(t) == ~tokens[t].used /\ ~tokens[t].expired

\* Mutation: the token is not marked as used.
VerifyWithoutMark ==
  /\ pc = "confirm"
  /\ Valid(msg.arg)
  /\ grant' = tokens[msg.arg].by
  /\ pc' = "grant"
  /\ UNCHANGED <<tables, msg, uid, summary, bg, history, crashes>>

\* verify_link_token marks a valid token as used and names its requester.
Verify ==
  /\ pc = "confirm"
  /\ Valid(msg.arg)
  /\ tokens' = [tokens EXCEPT ![msg.arg].used = TRUE]
  /\ grant' = tokens[msg.arg].by
  /\ pc' = "grant"
  /\ UNCHANGED <<users, links, msg, uid, summary, bg, history, crashes>>

RefuseToken ==
  /\ pc = "confirm"
  /\ ~Valid(msg.arg)
  /\ Finish
  /\ UNCHANGED <<tables, bg, history, crashes>>

\* Mutation: requester and confirmer change places.
GrantToRequester ==
  /\ pc = "grant"
  /\ links[grant] # None
  /\ links' = [links EXCEPT ![msg.from] = links[grant]]
  /\ everLinked' = everLinked \cup {links[grant]}
  /\ used' = [used EXCEPT ![msg.arg] = @ + 1]
  /\ Finish
  /\ UNCHANGED <<users, tokens, bg, preferred, crashes>>

\* The confirmer's account takes over the requester's identity, INSERT OR REPLACE.
Grant ==
  /\ pc = "grant"
  /\ links[msg.from] # None
  /\ links' = [links EXCEPT ![grant] = links[msg.from]]
  /\ everLinked' = everLinked \cup {links[msg.from]}
  /\ used' = [used EXCEPT ![msg.arg] = @ + 1]
  /\ Finish
  /\ UNCHANGED <<users, tokens, bg, preferred, crashes>>

\* The confirmer has no account; the token stays used.
GrantToNobody ==
  /\ pc = "grant"
  /\ links[msg.from] = None
  /\ Finish
  /\ UNCHANGED <<tables, bg, history, crashes>>

\* /unlink: not the last link, not the platform the sender is using.
Unlink ==
  /\ pc = "unlink"
  /\ LET u == links[msg.from]
         allowed == /\ u # None
                    /\ Cardinality(LinksOf(u)) > 1
                    /\ msg.arg # Here
     IN  links' = IF allowed
                    THEN [i \in Ident |->
                            IF links[i] = u /\ AdapterOf[i] = msg.arg THEN None ELSE links[i]]
                    ELSE links
  /\ Finish
  /\ UNCHANGED <<users, tokens, bg, history, crashes>>

--------------------------------------------------------------------------------
(* /prefer: read the row, test the platform, write the row, tell the user.    *)

PreferRead ==
  /\ pc = "prefer"
  /\ links[msg.from] # None
  /\ uid' = links[msg.from]
  /\ summary' = users[uid']
  /\ pc' = "preferWrite"
  /\ UNCHANGED <<tables, msg, grant, bg, history, crashes>>

PreferUnknownUser ==
  /\ pc = "prefer"
  /\ links[msg.from] = None
  /\ Finish
  /\ UNCHANGED <<tables, bg, history, crashes>>

PreferWrite ==
  /\ pc = "preferWrite"
  /\ msg.arg \in {AdapterOf[i] : i \in LinksOf(uid)} \cup {None}
  /\ users' = [users EXCEPT ![uid] = [summary EXCEPT !.pref = msg.arg]]
  /\ pc' = "preferReply"
  /\ UNCHANGED <<links, tokens, msg, uid, summary, grant, bg, history, crashes>>

PreferRefused ==
  /\ pc = "preferWrite"
  /\ msg.arg \notin {AdapterOf[i] : i \in LinksOf(uid)} \cup {None}
  /\ Finish
  /\ UNCHANGED <<tables, bg, history, crashes>>

PreferReply ==
  /\ pc = "preferReply"
  /\ preferred' = [preferred EXCEPT ![uid] = msg.arg]
  /\ Finish
  /\ UNCHANGED <<tables, bg, everLinked, used, crashes>>

--------------------------------------------------------------------------------

\* The process is killed and started again; the tables stay.
Crash ==
  /\ crashes < MaxCrashes
  /\ crashes' = crashes + 1
  /\ Finish
  /\ bg' = [k \in Slot |-> [at |-> "none", uid |-> None, summary |-> NewSummary]]
  /\ UNCHANGED <<tables, history>>

Init ==
  /\ users = [u \in User |-> None]
  /\ links = [i \in Ident |-> None]
  /\ tokens = [t \in Token |-> None]
  /\ pc = "idle" /\ msg = NoMessage
  /\ uid = None /\ summary = NewSummary /\ grant = None
  /\ bg = [k \in Slot |-> [at |-> "none", uid |-> None, summary |-> NewSummary]]
  /\ preferred = [u \in User |-> None]
  /\ everLinked = {}
  /\ used = [t \in Token |-> 0]
  /\ crashes = 0

Chat ==
  \/ ResolveKnown
  \/ \E u \in User : CreateUser(u)
  \/ LinkNewUser
  \/ ReadUser
  \/ WriteUser
  \/ \E k \in Slot : Answer(k)
  \/ AnswerFails

Extract(k) == ExtractRead(k) \/ ExtractWrite(k) \/ ExtractNothing(k)

Linking ==
  \/ \E t \in Token : IssueToken(t)
  \/ Verify
  \/ RefuseToken
  \/ Grant
  \/ GrantToNobody
  \/ Unlink

Prefer == PreferRead \/ PreferUnknownUser \/ PreferWrite \/ PreferRefused \/ PreferReply

Next ==
  \/ \E m \in Messages : Receive(m)
  \/ Chat
  \/ Linking
  \/ Prefer
  \/ \E k \in Slot : Extract(k)
  \/ \E t \in Token : ExpireToken(t)
  \/ Crash

Spec == Init /\ [][Next]_vars

--------------------------------------------------------------------------------
(* Properties.                                                                *)

TypeOK ==
  /\ users \in [User -> Summary \cup {None}]
  /\ links \in [Ident -> User \cup {None}]
  /\ \A i \in Ident : links[i] # None => users[links[i]] # None
  /\ tokens \in [Token -> TokenRow \cup {None}]
  /\ pc \in {"idle", "chat", "join", "read", "write", "answer", "link", "confirm",
             "grant", "unlink", "prefer", "preferWrite", "preferReply"}
  /\ msg \in Message \cup {NoMessage}
  /\ (pc # "idle") => msg # NoMessage
  /\ uid \in User \cup {None}
  /\ summary \in Summary
  /\ grant \in Ident \cup {None}
  /\ bg \in [Slot -> [at : {"none", "read", "write"}, uid : User \cup {None},
                      summary : Summary]]
  /\ preferred \in [User -> Adapter \cup {None}]
  /\ everLinked \subseteq User
  /\ used \in [Token -> Nat]
  /\ crashes \in 0..MaxCrashes

\* A token makes at most one link, even if the process is killed between the
\* UPDATE that marks it and the link, and it is spent before it makes one.
TokenLinksOnce ==
  \A t \in Token :
    /\ used[t] <= 1
    /\ used[t] = 1 => tokens[t].used

\* A platform identity changes hands in three ways only: its first chat founds an
\* account, another platform of the same account unlinks it, or it asked for the
\* token with which the sender takes it over.
IdentityMovesOnlyOnRequest ==
  [][\A i \in Ident : links'[i] # links[i] =>
       \/ /\ msg.op = "chat" /\ msg.from = i
          /\ links[i] = None
       \/ /\ msg.op = "unlink" /\ links'[i] = None
          /\ links[msg.from] = links[i]
          /\ links'[msg.from] = links[i]
       \/ /\ msg.op = "confirm" /\ tokens[msg.arg].by = i
          /\ used[msg.arg] = 0
          /\ links'[i] = links[msg.from]
    ]_vars

\* A user row that no identity was ever linked to is the mark of a crash between
\* the two inserts of _resolve_user: no other path founds an account twice.
OrphansOnlyByCrash ==
  LET orphans == {u \in User : users[u] # None /\ u \notin everLinked}
  IN  Cardinality(orphans) <= crashes + (IF pc = "join" THEN 1 ELSE 0)

\* The preference a user was told of is the preference stored for the next
\* heartbeat, until another /prefer changes it.
PreferenceSticks ==
  \A u \in User :
    /\ users[u] # None
    /\ ~(uid = u /\ pc \in {"preferReply", "write"})
    => users[u].pref = preferred[u]

\* The platform heartbeat messages are sent to is one the user is linked on.
PreferredIsLinked ==
  \A u \in User :
    /\ users[u] # None
    /\ users[u].pref # None
    /\ LinksOf(u) # {}
    => \E i \in LinksOf(u) : AdapterOf[i] = users[u].pref

\* An account that had a link keeps one.
AccountsKeepALink ==
  \A u \in everLinked : LinksOf(u) # {}
================================================================================
