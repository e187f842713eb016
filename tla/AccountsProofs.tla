----------------------------- MODULE AccountsProofs -----------------------------
(******************************************************************************)
(* Proofs about Accounts, for all sets of identities, users, tokens and       *)
(* extractions and any number of crashes.                                     *)
(******************************************************************************)
EXTENDS Accounts, FiniteSetTheorems, TLAPS

USE DEF tables, engine, history

\* Whoever is about to read or write a row of users works on a row that is there.
RowsThere ==
  /\ pc \in {"join", "read", "write", "answer", "preferWrite", "preferReply"}
       => uid \in User /\ users[uid] # None
  /\ \A k \in Slot :
       bg[k].at # "none" => bg[k].uid \in User /\ users[bg[k].uid] # None

\* The handler is where the message in its hands has brought it.
MessageFits ==
  /\ pc \in {"chat", "join", "read", "write", "answer"} => msg.op = "chat"
  /\ pc = "join" => links[msg.from] = None
  /\ pc \in {"confirm", "grant"} =>
       msg.op = "confirm" /\ msg.arg \in Token /\ tokens[msg.arg] # None
  /\ pc = "unlink" => msg.op = "unlink"
  /\ pc \in {"prefer", "preferWrite", "preferReply"} => msg.arg \in Adapter \cup {None}

\* Between its verification and the link a token is marked, and has made no link.
GrantIsFresh ==
  /\ pc = "grant" => /\ grant = tokens[msg.arg].by /\ grant \in Ident
                     /\ tokens[msg.arg].used
                     /\ used[msg.arg] = 0
  /\ \A t \in Token : tokens[t] = None => used[t] = 0

IInv == TypeOK /\ RowsThere /\ MessageFits /\ GrantIsFresh /\ TokenLinksOnce

LEMMA NoneApart ==
  /\ None \notin User /\ None \notin Ident /\ None \notin Token /\ None \notin Adapter
  /\ AdapterOf \in [Ident -> Adapter]
  /\ MaxCrashes \in Nat
  /\ None \notin Summary /\ None \notin TokenRow
BY ConstantsOK, NoneIsNoRow DEF ConstantsOK, NoneIsNoRow

\* The handler has a message in its hands.
LEMMA MessageType ==
  ASSUME TypeOK, pc # "idle"
  PROVE  /\ msg \in Message /\ msg.from \in Ident
         /\ msg.op \in {"chat", "link", "confirm", "unlink", "prefer"}
BY DEF TypeOK, Message

--------------------------------------------------------------------------------

LEMMA InitIInv == Init => IInv
<1> SUFFICES ASSUME Init PROVE IInv
  OBVIOUS
<1>1. NewSummary \in Summary
  BY DEF NewSummary, Summary
<1>2. TypeOK
  BY <1>1, NoneApart DEF Init, TypeOK
<1>3. RowsThere /\ MessageFits /\ GrantIsFresh /\ TokenLinksOnce
  BY DEF Init, RowsThere, MessageFits, GrantIsFresh, TokenLinksOnce
<1> QED
  BY <1>2, <1>3 DEF IInv

\* A message is received.
LEMMA ReceiveStep ==
  ASSUME IInv, NEW m \in Messages, Receive(m)
  PROVE  IInv'
<1> USE DEF IInv
<1>1. /\ pc = "idle" /\ pc' = m.op /\ msg' = m
      /\ UNCHANGED <<users, links, tokens, uid, summary, grant, bg, preferred, everLinked,
                     used, crashes>>
  BY DEF Receive
<1>2. /\ m \in Message /\ m.op \in {"chat", "link", "confirm", "unlink", "prefer"}
      /\ m.op = "confirm" => m.arg \in Token /\ tokens[m.arg] # None
      /\ m.op = "unlink" => m.arg \in Adapter
      /\ m.op = "prefer" => m.arg \in Adapter \cup {None}
  BY DEF Messages, Message
<1>3. m # NoMessage
  BY <1>2 DEF NoMessage
<1>4. TypeOK'
  BY <1>1, <1>2, <1>3 DEF TypeOK
<1>5. RowsThere' /\ MessageFits' /\ GrantIsFresh' /\ TokenLinksOnce'
  BY <1>1, <1>2 DEF RowsThere, MessageFits, GrantIsFresh, TokenLinksOnce
<1> QED
  BY <1>4, <1>5

\* The end of a message leaves nothing in the handler's hands.
LEMMA FinishStep ==
  ASSUME IInv, Finish, UNCHANGED <<tables, bg, history, crashes>>
  PROVE  IInv'
<1> USE DEF IInv
<1>1. NewSummary \in Summary
  BY DEF NewSummary, Summary
<1>2. TypeOK'
  BY <1>1 DEF Finish, TypeOK
<1>3. RowsThere' /\ MessageFits' /\ GrantIsFresh' /\ TokenLinksOnce'
  BY DEF Finish, RowsThere, MessageFits, GrantIsFresh, TokenLinksOnce
<1> QED
  BY <1>2, <1>3

\* Writing a row that is there, or a new one, takes no row away.
LEMMA WriteRow ==
  ASSUME TypeOK, NEW u \in User, NEW row \in Summary, users' = [users EXCEPT ![u] = row]
  PROVE  /\ users' \in [User -> Summary \cup {None}]
         /\ users'[u] # None
         /\ \A v \in User : users[v] # None => users'[v] # None
BY NoneApart DEF TypeOK

LEMMA ChatStep == IInv /\ Chat => IInv'
<1> SUFFICES ASSUME IInv, Chat PROVE IInv'
  OBVIOUS
<1> USE DEF IInv
<1>0. NewSummary \in Summary
  BY DEF NewSummary, Summary
<1>1. CASE ResolveKnown
  <2>1. links[msg.from] \in User /\ users[links[msg.from]] # None
    BY <1>1, MessageType, NoneApart DEF ResolveKnown, TypeOK
  <2>2. TypeOK'
    BY <1>1, <2>1 DEF ResolveKnown, TypeOK
  <2>3. RowsThere' /\ MessageFits' /\ GrantIsFresh' /\ TokenLinksOnce'
    BY <1>1, <2>1 DEF ResolveKnown, RowsThere, MessageFits, GrantIsFresh, TokenLinksOnce
  <2> QED
    BY <2>2, <2>3
<1>2. ASSUME NEW u \in User, CreateUser(u) PROVE IInv'
  <2>1. /\ users' = [users EXCEPT ![u] = NewSummary]
        /\ users' \in [User -> Summary \cup {None}]
        /\ users'[u] # None
        /\ \A v \in User : users[v] # None => users'[v] # None
    BY <1>0, <1>2, WriteRow DEF CreateUser
  <2>2. TypeOK'
    BY <1>0, <1>2, <2>1, NoneApart DEF CreateUser, TypeOK
  <2>3. RowsThere'
    BY <1>2, <2>1 DEF CreateUser, RowsThere
  <2>4. MessageFits' /\ GrantIsFresh' /\ TokenLinksOnce'
    BY <1>2 DEF CreateUser, MessageFits, GrantIsFresh, TokenLinksOnce
  <2> QED
    BY <2>2, <2>3, <2>4
<1>3. CASE LinkNewUser
  <2>1. uid \in User /\ users[uid] # None
    BY <1>3 DEF LinkNewUser, RowsThere
  <2>2. TypeOK'
    BY <1>3, <2>1 DEF LinkNewUser, TypeOK
  <2>3. RowsThere' /\ MessageFits' /\ GrantIsFresh' /\ TokenLinksOnce'
    BY <1>3 DEF LinkNewUser, RowsThere, MessageFits, GrantIsFresh, TokenLinksOnce
  <2> QED
    BY <2>2, <2>3
<1>4. CASE ReadUser
  <2>1. summary' \in Summary
    BY <1>4 DEF ReadUser, RowsThere, TypeOK
  <2>2. TypeOK'
    BY <1>4, <2>1 DEF ReadUser, TypeOK
  <2>3. RowsThere' /\ MessageFits' /\ GrantIsFresh' /\ TokenLinksOnce'
    BY <1>4 DEF ReadUser, RowsThere, MessageFits, GrantIsFresh, TokenLinksOnce
  <2> QED
    BY <2>2, <2>3
<1>5. CASE WriteUser
  <2>1. uid \in User /\ summary \in Summary /\ users' = [users EXCEPT ![uid] = summary]
    BY <1>5 DEF WriteUser, RowsThere, TypeOK
  <2>2. /\ users' \in [User -> Summary \cup {None}] /\ users'[uid] # None
        /\ \A v \in User : users[v] # None => users'[v] # None
    BY <2>1, WriteRow
  <2>3. TypeOK'
    BY <1>5, <2>2, NoneApart DEF WriteUser, TypeOK
  <2>4. RowsThere'
    BY <1>5, <2>1, <2>2 DEF WriteUser, RowsThere
  <2>5. MessageFits' /\ GrantIsFresh' /\ TokenLinksOnce'
    BY <1>5 DEF WriteUser, MessageFits, GrantIsFresh, TokenLinksOnce
  <2> QED
    BY <2>3, <2>4, <2>5
<1>6. ASSUME NEW k \in Slot, Answer(k) PROVE IInv'
  <2>1. uid \in User /\ users[uid] # None
    BY <1>6 DEF Answer, RowsThere
  <2>2. TypeOK'
    BY <1>0, <1>6, <2>1 DEF Answer, Finish, TypeOK
  <2>3. RowsThere'
    BY <1>6, <2>1 DEF Answer, Finish, RowsThere, TypeOK
  <2>4. MessageFits' /\ GrantIsFresh' /\ TokenLinksOnce'
    BY <1>6 DEF Answer, Finish, MessageFits, GrantIsFresh, TokenLinksOnce
  <2> QED
    BY <2>2, <2>3, <2>4
<1>7. CASE AnswerFails
  BY <1>7, FinishStep DEF AnswerFails
<1> QED
  BY <1>1, <1>2, <1>3, <1>4, <1>5, <1>6, <1>7 DEF Chat

LEMMA ExtractStep ==
  ASSUME IInv, NEW k \in Slot, Extract(k)
  PROVE  IInv'
<1> USE DEF IInv
<1>0. NewSummary \in Summary
  BY DEF NewSummary, Summary
<1>1. CASE ExtractRead(k)
  <2>1. bg[k].uid \in User /\ users[bg[k].uid] # None /\ users[bg[k].uid] \in Summary
    BY <1>1 DEF ExtractRead, RowsThere, TypeOK
  <2>2. TypeOK'
    BY <1>1, <2>1 DEF ExtractRead, TypeOK
  <2>3. RowsThere'
    BY <1>1, <2>1 DEF ExtractRead, RowsThere, TypeOK
  <2>4. MessageFits' /\ GrantIsFresh' /\ TokenLinksOnce'
    BY <1>1 DEF ExtractRead, MessageFits, GrantIsFresh, TokenLinksOnce
  <2> QED
    BY <2>2, <2>3, <2>4
<1>2. CASE ExtractWrite(k)
  <2>1. /\ bg[k].uid \in User /\ bg[k].summary \in Summary
        /\ users' = [users EXCEPT ![bg[k].uid] = bg[k].summary]
    BY <1>2 DEF ExtractWrite, RowsThere, TypeOK
  <2>2. /\ users' \in [User -> Summary \cup {None}]
        /\ \A v \in User : users[v] # None => users'[v] # None
    BY <2>1, WriteRow
  <2>3. TypeOK'
    BY <1>0, <1>2, <2>2, NoneApart DEF ExtractWrite, TypeOK
  <2>4. RowsThere'
    BY <1>2, <2>2 DEF ExtractWrite, RowsThere, TypeOK
  <2>5. MessageFits' /\ GrantIsFresh' /\ TokenLinksOnce'
    BY <1>2 DEF ExtractWrite, MessageFits, GrantIsFresh, TokenLinksOnce
  <2> QED
    BY <2>3, <2>4, <2>5
<1>3. CASE ExtractNothing(k)
  <2>1. TypeOK'
    BY <1>0, <1>3 DEF ExtractNothing, TypeOK
  <2>2. RowsThere' /\ MessageFits' /\ GrantIsFresh' /\ TokenLinksOnce'
    BY <1>3 DEF ExtractNothing, RowsThere, MessageFits, GrantIsFresh, TokenLinksOnce, TypeOK
  <2> QED
    BY <2>1, <2>2
<1> QED
  BY <1>1, <1>2, <1>3 DEF Extract

\* Tokens: one is issued fresh, marked before it grants, and granted once.
LEMMA LinkingStep == IInv /\ Linking => IInv'
<1> SUFFICES ASSUME IInv, Linking PROVE IInv'
  OBVIOUS
<1> USE DEF IInv
<1>0. NewSummary \in Summary
  BY DEF NewSummary, Summary
<1>1. ASSUME NEW t \in Token, IssueToken(t) PROVE IInv'
  <2> DEFINE row == [by |-> msg.from, used |-> FALSE, expired |-> FALSE]
  <2>1. row \in TokenRow
    BY <1>1, MessageType DEF IssueToken, TokenRow
  <2>2. /\ tokens[t] = None /\ tokens' = [tokens EXCEPT ![t] = row] /\ pc' = "idle"
        /\ UNCHANGED <<users, links, bg, preferred, everLinked, used, crashes>>
    BY <1>1 DEF IssueToken, Finish
  <2>3. TypeOK'
    BY <1>0, <1>1, <2>1, NoneApart DEF IssueToken, Finish, TypeOK
  <2>4. RowsThere' /\ MessageFits'
    BY <2>2 DEF RowsThere, MessageFits
  <2>5. \A s \in Token \ {t} : tokens'[s] = tokens[s]
    BY <2>2 DEF TypeOK
  <2>6. used[t] = 0 /\ tokens'[t] = row /\ row # None
    BY <2>1, <2>2, NoneApart DEF GrantIsFresh, TypeOK
  <2>7. GrantIsFresh'
    BY <2>2, <2>5, <2>6 DEF GrantIsFresh
  <2>8. TokenLinksOnce'
    BY <2>2, <2>5, <2>6 DEF TokenLinksOnce
  <2> QED
    BY <2>3, <2>4, <2>7, <2>8
<1>2. CASE Verify
  <2> DEFINE t == msg.arg
  <2>1. t \in Token /\ tokens[t] # None /\ tokens[t] \in TokenRow /\ ~tokens[t].used
    BY <1>2 DEF Verify, Valid, MessageFits, TypeOK
  <2>2. /\ tokens' = [tokens EXCEPT ![t].used = TRUE] /\ pc' = "grant" /\ msg' = msg
        /\ pc = "confirm" /\ grant' = tokens[t].by
        /\ UNCHANGED <<users, links, uid, bg, preferred, everLinked, used, crashes>>
    BY <1>2 DEF Verify
  <2>3. used[t] = 0
    <3>1. used[t] \in Nat /\ used[t] <= 1
      BY <2>1 DEF TokenLinksOnce, TypeOK
    <3>2. used[t] # 1
      BY <2>1 DEF TokenLinksOnce
    <3> QED
      BY <3>1, <3>2
  <2>4. /\ tokens'[t] \in TokenRow /\ tokens'[t].used /\ tokens'[t].by = tokens[t].by
        /\ tokens[t].by \in Ident
        /\ \A s \in Token \ {t} : tokens'[s] = tokens[s]
    BY <2>1, <2>2 DEF TypeOK, TokenRow
  <2>5. tokens' \in [Token -> TokenRow \cup {None}]
    BY <2>2, <2>4 DEF TypeOK
  <2>6. TypeOK'
    BY <1>2, <2>4, <2>5 DEF Verify, TypeOK
  <2>7. tokens'[t] # None
    BY <2>4, NoneApart
  <2>8. RowsThere'
    BY <2>2 DEF RowsThere
  <2>9. MessageFits'
    BY <2>1, <2>2, <2>7 DEF MessageFits
  <2>10. GrantIsFresh'
    BY <2>1, <2>2, <2>3, <2>4 DEF GrantIsFresh
  <2>11. TokenLinksOnce'
    BY <2>2, <2>3, <2>4 DEF TokenLinksOnce
  <2> QED
    BY <2>6, <2>8, <2>9, <2>10, <2>11
<1>3. CASE RefuseToken \/ GrantToNobody
  BY <1>3, FinishStep DEF RefuseToken, GrantToNobody
<1>4. CASE Grant
  <2> DEFINE t == msg.arg
  <2>1. /\ pc = "grant" /\ t \in Token /\ tokens[t].used /\ used[t] = 0 /\ grant \in Ident
        /\ tokens[t] # None
    BY <1>4 DEF Grant, GrantIsFresh, MessageFits
  <2>2. links[msg.from] \in User /\ users[links[msg.from]] # None
    BY <1>4, <2>1, MessageType DEF Grant, TypeOK
  <2>3. /\ links' = [links EXCEPT ![grant] = links[msg.from]]
        /\ used' = [used EXCEPT ![t] = @ + 1] /\ pc' = "idle"
        /\ UNCHANGED <<users, tokens, bg, preferred, crashes>>
    BY <1>4 DEF Grant, Finish
  <2>4. used'[t] = 1 /\ \A s \in Token \ {t} : used'[s] = used[s]
    BY <2>1, <2>3 DEF TypeOK
  <2>5. TypeOK'
    BY <1>0, <1>4, <2>1, <2>2, <2>3, <2>4 DEF Grant, Finish, TypeOK
  <2>6. RowsThere' /\ MessageFits'
    BY <2>3 DEF RowsThere, MessageFits
  <2>7. GrantIsFresh' /\ TokenLinksOnce'
    BY <2>1, <2>3, <2>4 DEF GrantIsFresh, TokenLinksOnce
  <2> QED
    BY <2>5, <2>6, <2>7
<1>5. CASE Unlink
  <2>1. links' \in [Ident -> User \cup {None}]
    BY <1>5 DEF Unlink, TypeOK
  <2>2. \A i \in Ident : links'[i] = links[i] \/ links'[i] = None
    BY <1>5 DEF Unlink, TypeOK
  <2>3. TypeOK'
    BY <1>0, <1>5, <2>1, <2>2 DEF Unlink, Finish, TypeOK
  <2>4. RowsThere' /\ MessageFits' /\ GrantIsFresh' /\ TokenLinksOnce'
    BY <1>5 DEF Unlink, Finish, RowsThere, MessageFits, GrantIsFresh, TokenLinksOnce
  <2> QED
    BY <2>3, <2>4
<1> QED
  BY <1>1, <1>2, <1>3, <1>4, <1>5 DEF Linking

LEMMA PreferStep == IInv /\ Prefer => IInv'
<1> SUFFICES ASSUME IInv, Prefer PROVE IInv'
  OBVIOUS
<1> USE DEF IInv
<1>1. CASE PreferRead
  <2>1. /\ links[msg.from] \in User /\ users[links[msg.from]] # None
        /\ users[links[msg.from]] \in Summary
    BY <1>1, MessageType DEF PreferRead, TypeOK
  <2>2. TypeOK'
    BY <1>1, <2>1 DEF PreferRead, TypeOK
  <2>3. RowsThere' /\ MessageFits' /\ GrantIsFresh' /\ TokenLinksOnce'
    BY <1>1, <2>1 DEF PreferRead, RowsThere, MessageFits, GrantIsFresh, TokenLinksOnce
  <2> QED
    BY <2>2, <2>3
<1>2. CASE PreferUnknownUser \/ PreferRefused
  BY <1>2, FinishStep DEF PreferUnknownUser, PreferRefused
<1>3. CASE PreferWrite
  <2> DEFINE row == [summary EXCEPT !.pref = msg.arg]
  <2>1. uid \in User /\ row \in Summary /\ users' = [users EXCEPT ![uid] = row]
    BY <1>3 DEF PreferWrite, RowsThere, MessageFits, TypeOK, Summary
  <2>2. /\ users' \in [User -> Summary \cup {None}] /\ users'[uid] # None
        /\ \A v \in User : users[v] # None => users'[v] # None
    BY <2>1, WriteRow
  <2>3. TypeOK'
    BY <1>3, <2>2, NoneApart DEF PreferWrite, TypeOK
  <2>4. RowsThere'
    BY <1>3, <2>1, <2>2 DEF PreferWrite, RowsThere
  <2>5. MessageFits' /\ GrantIsFresh' /\ TokenLinksOnce'
    BY <1>3 DEF PreferWrite, MessageFits, GrantIsFresh, TokenLinksOnce
  <2> QED
    BY <2>3, <2>4, <2>5
<1>4. CASE PreferReply
  <2>1. msg.arg \in Adapter \cup {None} /\ NewSummary \in Summary
    BY <1>4 DEF PreferReply, MessageFits, NewSummary, Summary
  <2>2. TypeOK'
    BY <1>4, <2>1 DEF PreferReply, Finish, TypeOK
  <2>3. RowsThere' /\ MessageFits' /\ GrantIsFresh' /\ TokenLinksOnce'
    BY <1>4 DEF PreferReply, Finish, RowsThere, MessageFits, GrantIsFresh, TokenLinksOnce
  <2> QED
    BY <2>2, <2>3
<1> QED
  BY <1>1, <1>2, <1>3, <1>4 DEF Prefer

LEMMA ExpireStep ==
  ASSUME IInv, NEW t \in Token, ExpireToken(t)
  PROVE  IInv'
<1> USE DEF IInv
<1>1. /\ tokens[t] # None /\ tokens[t] \in TokenRow
      /\ tokens' = [tokens EXCEPT ![t].expired = TRUE]
      /\ UNCHANGED <<users, links, engine, bg, history, crashes>>
  BY DEF ExpireToken, TypeOK
<1>2. /\ tokens'[t] \in TokenRow /\ tokens'[t].by = tokens[t].by
      /\ tokens'[t].used = tokens[t].used
      /\ \A s \in Token \ {t} : tokens'[s] = tokens[s]
  BY <1>1 DEF TypeOK, TokenRow
<1>3. tokens' \in [Token -> TokenRow \cup {None}]
  BY <1>1, <1>2 DEF TypeOK
<1>4. tokens'[t] # None
  BY <1>2, NoneApart
<1>5. TypeOK'
  BY <1>1, <1>3 DEF TypeOK
<1>6. RowsThere' /\ TokenLinksOnce'
  BY <1>1, <1>2 DEF RowsThere, TokenLinksOnce
<1>7. MessageFits' /\ GrantIsFresh'
  BY <1>1, <1>2, <1>4 DEF MessageFits, GrantIsFresh
<1> QED
  BY <1>5, <1>6, <1>7

LEMMA CrashStep == IInv /\ Crash => IInv'
<1> SUFFICES ASSUME IInv, Crash PROVE IInv'
  OBVIOUS
<1> USE DEF IInv
<1>1. NewSummary \in Summary
  BY DEF NewSummary, Summary
<1>2. TypeOK'
  BY <1>1, NoneApart DEF Crash, Finish, TypeOK
<1>3. RowsThere' /\ MessageFits' /\ GrantIsFresh' /\ TokenLinksOnce'
  BY DEF Crash, Finish, RowsThere, MessageFits, GrantIsFresh, TokenLinksOnce
<1> QED
  BY <1>2, <1>3

--------------------------------------------------------------------------------

\* The tables, the handler and the extractions agree at every step.
THEOREM InductiveInvariant == Spec => []IInv
<1>1. IInv /\ [Next]_vars => IInv'
  <2> SUFFICES ASSUME IInv, [Next]_vars PROVE IInv'
    OBVIOUS
  <2>1. CASE UNCHANGED vars
    BY <2>1 DEF vars, IInv, TypeOK, RowsThere, MessageFits, GrantIsFresh, TokenLinksOnce
  <2>2. CASE Next
    BY <2>2, ReceiveStep, ChatStep, ExtractStep, LinkingStep, PreferStep, ExpireStep, CrashStep
       DEF Next
  <2> QED
    BY <2>1, <2>2
<1> QED
  BY <1>1, InitIInv, PTL DEF Spec

\* Types: every variable of users, identities, tokens and messages keeps its range.
THEOREM TypeCorrect == Spec => []TypeOK
BY InductiveInvariant, PTL DEF IInv

\* A link token makes at most one link, and is marked as used before it makes one, whatever
\* crashes between the UPDATE and the link.
THEOREM LinksOnce == Spec => []TokenLinksOnce
BY InductiveInvariant, PTL DEF IInv

--------------------------------------------------------------------------------
(* Who moves an identity.                                                     *)

\* What a change of a link has to be.
Moves(i) ==
  \/ msg.op = "chat" /\ msg.from = i /\ links[i] = None
  \/ /\ msg.op = "unlink" /\ links'[i] = None
     /\ links[msg.from] = links[i]
     /\ links'[msg.from] = links[i]
  \/ /\ msg.op = "confirm" /\ tokens[msg.arg].by = i
     /\ used[msg.arg] = 0
     /\ links'[i] = links[msg.from]

\* Only three actions write links.
LEMMA LinkWriters == [Next]_vars => links' = links \/ LinkNewUser \/ Grant \/ Unlink
BY DEF Next, vars, Receive, Chat, ResolveKnown, CreateUser, ReadUser, WriteUser, Answer,
       AnswerFails, Extract, ExtractRead, ExtractWrite, ExtractNothing, Linking, IssueToken,
       Verify, RefuseToken, GrantToNobody, Prefer, PreferRead, PreferUnknownUser, PreferWrite,
       PreferRefused, PreferReply, ExpireToken, Crash

LEMMA MoveStep ==
  ASSUME IInv, [Next]_vars, NEW i \in Ident, links'[i] # links[i]
  PROVE  Moves(i)
<1> USE DEF IInv
<1>1. CASE LinkNewUser
  <2>1. msg.op = "chat" /\ links[msg.from] = None /\ links' = [links EXCEPT ![msg.from] = uid]
    BY <1>1 DEF LinkNewUser, MessageFits
  <2>2. msg.from = i
    BY <2>1 DEF TypeOK
  <2> QED
    BY <2>1, <2>2 DEF Moves
<1>2. CASE Grant
  <2>1. /\ msg.op = "confirm" /\ grant = tokens[msg.arg].by /\ used[msg.arg] = 0
        /\ links' = [links EXCEPT ![grant] = links[msg.from]]
    BY <1>2 DEF Grant, MessageFits, GrantIsFresh
  <2>2. grant = i /\ links'[i] = links[msg.from]
    BY <2>1 DEF TypeOK
  <2> QED
    BY <2>1, <2>2 DEF Moves
<1>3. CASE Unlink
  <2>1. msg.op = "unlink" /\ msg.from \in Ident
    BY <1>3, MessageType DEF Unlink, MessageFits
  <2>2. /\ msg.arg # AdapterOf[msg.from]
        /\ links' = [j \in Ident |->
                       IF links[j] = links[msg.from] /\ AdapterOf[j] = msg.arg
                         THEN None ELSE links[j]]
    BY <1>3 DEF Unlink, Here
  <2>3. links'[i] = None /\ links[msg.from] = links[i] /\ links'[msg.from] = links[msg.from]
    BY <2>1, <2>2
  <2> QED
    BY <2>1, <2>3 DEF Moves
<1> QED
  BY <1>1, <1>2, <1>3, LinkWriters

\* A platform identity changes hands only by its own first chat, by an unlink from another
\* platform of its account, or by a fresh token it asked for itself.
THEOREM MovesOnlyOnRequest == Spec => IdentityMovesOnlyOnRequest
<1>1. IInv /\ [Next]_vars => [\A i \in Ident : links'[i] # links[i] => Moves(i)]_vars
  BY MoveStep
<1>2. [\A i \in Ident : links'[i] # links[i] => Moves(i)]_vars <=>
      [\A i \in Ident : links'[i] # links[i] =>
         \/ /\ msg.op = "chat" /\ msg.from = i
            /\ links[i] = None
         \/ /\ msg.op = "unlink" /\ links'[i] = None
            /\ links[msg.from] = links[i]
            /\ links'[msg.from] = links[i]
         \/ /\ msg.op = "confirm" /\ tokens[msg.arg].by = i
            /\ used[msg.arg] = 0
            /\ links'[i] = links[msg.from]
      ]_vars
  BY DEF Moves
<1> QED
  BY <1>1, <1>2, InductiveInvariant, PTL DEF Spec, IdentityMovesOnlyOnRequest

--------------------------------------------------------------------------------
(* Orphans.                                                                   *)

Orphans == {u \in User : users[u] # None /\ u \notin everLinked}

\* The row that is being founded is no orphan yet.
Abandoned == Orphans \ (IF pc = "join" THEN {uid} ELSE {})

OrphanInv == IsFiniteSet(Abandoned) /\ Cardinality(Abandoned) <= crashes

\* One row more is one more at most.
LEMMA OneMore ==
  ASSUME OrphanInv, NEW u
  PROVE  /\ IsFiniteSet(Abandoned \cup {u})
         /\ Cardinality(Abandoned \cup {u}) <= Cardinality(Abandoned) + 1
<1>1. IsFiniteSet(Abandoned)
  BY DEF OrphanInv
<1>2. Cardinality(Abandoned) \in Nat
  BY <1>1, FS_CardinalityType
<1>3. /\ IsFiniteSet(Abandoned \cup {u})
      /\ \/ Cardinality(Abandoned \cup {u}) = Cardinality(Abandoned)
         \/ Cardinality(Abandoned \cup {u}) = Cardinality(Abandoned) + 1
  BY <1>1, FS_AddElement
<1> QED
  BY <1>2, <1>3

\* Fewer abandoned rows are no more than before.
LEMMA FewerAbandoned ==
  ASSUME OrphanInv, TypeOK, Abandoned' \subseteq Abandoned, crashes' = crashes
  PROVE  OrphanInv'
<1>1. IsFiniteSet(Abandoned') /\ Cardinality(Abandoned') <= Cardinality(Abandoned)
  BY FS_Subset DEF OrphanInv
<1>2. Cardinality(Abandoned) \in Nat /\ Cardinality(Abandoned') \in Nat /\ crashes \in Nat
  BY <1>1, FS_CardinalityType, NoneApart DEF OrphanInv, TypeOK
<1> QED
  BY <1>1, <1>2 DEF OrphanInv

LEMMA OrphanStep ==
  ASSUME IInv, OrphanInv, [Next]_vars
  PROVE  OrphanInv'
<1> USE DEF IInv
<1>1. CASE UNCHANGED <<users, everLinked, pc, uid, crashes>>
  BY <1>1, FewerAbandoned DEF Abandoned, Orphans
<1>2. ASSUME pc # "join", pc' # "join", everLinked \subseteq everLinked', crashes' = crashes,
             \A u \in User : users'[u] # None => users[u] # None
      PROVE  OrphanInv'
  BY <1>2, FewerAbandoned DEF Abandoned, Orphans
<1>3. ASSUME NEW u \in User, CreateUser(u) PROVE OrphanInv'
  <2>1. /\ pc # "join" /\ pc' = "join" /\ uid' = u
        /\ \A v \in User \ {u} : users'[v] = users[v]
        /\ UNCHANGED <<everLinked, crashes>>
    BY <1>3 DEF CreateUser, TypeOK
  <2>2. Abandoned' \subseteq Abandoned
    BY <2>1 DEF Abandoned, Orphans
  <2> QED
    BY <2>1, <2>2, FewerAbandoned
<1>4. CASE LinkNewUser
  <2>1. /\ pc = "join" /\ pc' = "write" /\ everLinked' = everLinked \cup {uid}
        /\ UNCHANGED <<users, crashes>>
    BY <1>4 DEF LinkNewUser
  <2>2. Abandoned' \subseteq Abandoned
    BY <2>1 DEF Abandoned, Orphans
  <2> QED
    BY <2>1, <2>2, FewerAbandoned
<1>5. CASE Crash
  <2>1. crashes' = crashes + 1 /\ crashes \in Nat
    BY <1>5, NoneApart DEF Crash, TypeOK
  <2>2. Abandoned' \subseteq Abandoned \cup {uid}
    BY <1>5 DEF Crash, Finish, Abandoned, Orphans
  <2>3. /\ IsFiniteSet(Abandoned \cup {uid})
        /\ Cardinality(Abandoned \cup {uid}) <= Cardinality(Abandoned) + 1
    BY OneMore
  <2>4. /\ IsFiniteSet(Abandoned')
        /\ Cardinality(Abandoned') <= Cardinality(Abandoned \cup {uid})
    BY <2>2, <2>3, FS_Subset
  <2>5. /\ Cardinality(Abandoned) \in Nat /\ Cardinality(Abandoned') \in Nat
        /\ Cardinality(Abandoned \cup {uid}) \in Nat
    BY <2>3, <2>4, FS_CardinalityType DEF OrphanInv
  <2> QED
    BY <2>1, <2>3, <2>4, <2>5 DEF OrphanInv
<1>6. CASE WriteUser \/ PreferWrite
  <2>1. /\ pc # "join" /\ pc' # "join" /\ UNCHANGED <<everLinked, crashes>>
        /\ users[uid] # None /\ uid \in User
        /\ \E row : users' = [users EXCEPT ![uid] = row]
    BY <1>6 DEF WriteUser, PreferWrite, RowsThere
  <2>2. \A u \in User : users'[u] # None => users[u] # None
    BY <2>1 DEF TypeOK
  <2> QED
    BY <1>2, <2>1, <2>2
<1>7. ASSUME NEW k \in Slot, ExtractWrite(k) PROVE OrphanInv'
  <2>1. /\ UNCHANGED <<everLinked, crashes, pc, uid>>
        /\ bg[k].uid \in User /\ users[bg[k].uid] # None
        /\ users' = [users EXCEPT ![bg[k].uid] = bg[k].summary]
    BY <1>7 DEF ExtractWrite, RowsThere
  <2>2. \A u \in User : users'[u] # None => users[u] # None
    BY <2>1 DEF TypeOK
  <2>3. Abandoned' \subseteq Abandoned
    BY <2>1, <2>2 DEF Abandoned, Orphans
  <2> QED
    BY <2>1, <2>3, FewerAbandoned
<1>8. \/ UNCHANGED <<users, everLinked, pc, uid, crashes>>
      \/ /\ pc # "join" /\ pc' # "join" /\ everLinked \subseteq everLinked'
         /\ crashes' = crashes /\ users' = users
      \/ \E u \in User : CreateUser(u)
      \/ LinkNewUser \/ Crash \/ WriteUser \/ PreferWrite
      \/ \E k \in Slot : ExtractWrite(k)
  <2>1. ASSUME NEW m \in Messages, Receive(m)
        PROVE  /\ pc # "join" /\ pc' # "join" /\ everLinked \subseteq everLinked'
               /\ crashes' = crashes /\ users' = users
    BY <2>1 DEF Receive, Messages, Message
  <2> QED
    BY <2>1 DEF Next, vars, Chat, ResolveKnown, ReadUser, Answer, AnswerFails, Extract,
         ExtractRead, ExtractNothing, Linking, IssueToken, Verify, RefuseToken, Grant,
         GrantToNobody, Unlink, Prefer, PreferRead, PreferUnknownUser, PreferRefused,
         PreferReply, ExpireToken, Finish
<1> QED
  BY <1>1, <1>2, <1>3, <1>4, <1>5, <1>6, <1>7, <1>8

\* An account without any identity is left behind by a crash between the two inserts of
\* _resolve_user and by nothing else: there are at most as many as there were crashes.
THEOREM OrphansByCrash == Spec => []OrphansOnlyByCrash
<1>1. Init => OrphanInv
  <2> SUFFICES ASSUME Init PROVE OrphanInv
    OBVIOUS
  <2>1. Abandoned = {} /\ crashes = 0
    BY DEF Init, Abandoned, Orphans
  <2> QED
    BY <2>1, FS_EmptySet DEF OrphanInv
<1>2. IInv /\ OrphanInv /\ [Next]_vars => OrphanInv'
  BY OrphanStep
<1>3. IInv /\ OrphanInv => OrphansOnlyByCrash
  <2> SUFFICES ASSUME IInv, OrphanInv PROVE OrphansOnlyByCrash
    OBVIOUS
  <2>1. crashes \in Nat /\ Cardinality(Abandoned) \in Nat
    BY FS_CardinalityType, NoneApart DEF IInv, TypeOK, OrphanInv
  <2>2. CASE pc # "join"
    BY <2>1, <2>2 DEF OrphansOnlyByCrash, Orphans, Abandoned, OrphanInv
  <2>3. CASE pc = "join"
    <3>1. Orphans \subseteq Abandoned \cup {uid}
      BY DEF Abandoned
    <3>2. /\ IsFiniteSet(Abandoned \cup {uid})
          /\ Cardinality(Abandoned \cup {uid}) <= Cardinality(Abandoned) + 1
      BY OneMore
    <3>3. IsFiniteSet(Orphans) /\ Cardinality(Orphans) <= Cardinality(Abandoned \cup {uid})
      BY <3>1, <3>2, FS_Subset
    <3>4. Cardinality(Orphans) \in Nat /\ Cardinality(Abandoned \cup {uid}) \in Nat
      BY <3>2, <3>3, FS_CardinalityType
    <3>5. Cardinality(Orphans) <= crashes + 1
      BY <2>1, <3>2, <3>3, <3>4 DEF OrphanInv
    <3> QED
      BY <2>3, <3>5 DEF OrphansOnlyByCrash, Orphans
  <2> QED
    BY <2>2, <2>3
<1> QED
  BY <1>1, <1>2, <1>3, InductiveInvariant, PTL DEF Spec
================================================================================
