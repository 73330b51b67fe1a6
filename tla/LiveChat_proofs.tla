--------------------------- MODULE LiveChat_proofs ---------------------------
(***************************************************************************)
(* Proofs about LiveChat, for any number of sessions, technicians,         *)
(* messages and threads: nobody accepts his own invitation, whatever was   *)
(* read before the ticket was given to somebody else, a message sent again *)
(* is stored once, and an ended chat stays as it is.                       *)
(***************************************************************************)
EXTENDS MCLiveChat, TLAPS

(* The inductive invariant.                                                *)

\* What a handler decided.
Decision ==
  {Idle}
  \cup [op : {"request"}, user : User]
  \cup [op : {"accept"}, user : User, session : Session]
  \cup [op : {"send"}, msg : Message, session : Session]
  \cup [op : {"close"}, session : Session]

SessionRow == [status : OpenChat \cup {"none", "closed"}, by : User \cup {Nobody}, acceptedBy : User \cup {Nobody}]

Types ==
  /\ assignee \in Tech
  /\ chat \in [Session -> SessionRow]
  /\ transcript \in [Session -> Seq(Message)]
  /\ handler \in [Thread -> Decision]

\* An acceptance decided on is of a session that exists, and by somebody else.
Accepting ==
  \A t \in Thread : handler[t].op = "accept" =>
    /\ chat[handler[t].session].status # "none"
    /\ handler[t].user # chat[handler[t].session].by

Once(s) == \A i, j \in 1 .. Len(s) : s[i] = s[j] => i = j

AllOnce == \A s \in Session : Once(transcript[s])

Inv == Types /\ Accepting /\ AcceptedByTheOther /\ AllOnce

LEMMA OnceIsInjective == AllOnce <=> StoredOnce
BY DEF AllOnce, Once, StoredOnce, IsInjective

\* A message that is not there can be added.
LEMMA Appended ==
  ASSUME NEW s \in Seq(Message), Once(s), NEW m \in Message, m \notin ToSet(s)
  PROVE  Append(s, m) \in Seq(Message) /\ Once(Append(s, m))
<1>1. \A i \in 1 .. Len(s) : s[i] # m
  BY DEF ToSet
<1>2. \A i \in 1 .. Len(s) : s[i] \in Message
  OBVIOUS
<1>3. Append(s, m) \in Seq(Message)
  OBVIOUS
<1>4. Len(Append(s, m)) = Len(s) + 1 /\ Len(s) \in Nat
  OBVIOUS
<1>5. \A i \in 1 .. Len(s) + 1 : Append(s, m)[i] = IF i = Len(s) + 1 THEN m ELSE s[i]
  BY <1>4
<1> QED BY <1>1, <1>3, <1>4, <1>5 DEF Once

LEMMA InitInv == Init => Inv
<1> SUFFICES ASSUME Init PROVE Inv
  OBVIOUS
<1>1. Types
  BY DEF Init, Types, SessionRow, NoSession, Decision, Idle
<1>2. Accepting
  BY DEF Init, Accepting, Idle
<1>3. AcceptedByTheOther /\ AllOnce
  BY DEF Init, AcceptedByTheOther, NoSession, AllOnce, Once
<1> QED BY <1>1, <1>2, <1>3 DEF Inv

(* The steps of a handler.                                                 *)

\* A handler that begins stores nothing; if it accepts, it has found the session asked
\* for by somebody else.
LEMMA Begins ==
  ASSUME Inv, NEW t \in Thread, NEW op \in Decision, Begin(t, op),
         op.op = "accept" => chat[op.session].status # "none" /\ op.user # chat[op.session].by
  PROVE  Inv'
<1>1. handler' = [handler EXCEPT ![t] = op] /\ assignee' = assignee /\ chat' = chat /\ transcript' = transcript
  BY DEF Begin
<1>2. Types'
  BY <1>1 DEF Inv, Types
<1>3. Accepting'
  <2> SUFFICES ASSUME NEW u \in Thread, handler'[u].op = "accept"
               PROVE  chat[handler'[u].session].status # "none"
                      /\ handler'[u].user # chat[handler'[u].session].by
    BY <1>1 DEF Accepting
  <2>1. handler'[u] = IF u = t THEN op ELSE handler[u]
    BY <1>1 DEF Inv, Types
  <2> QED BY <2>1 DEF Inv, Accepting
<1>4. AcceptedByTheOther' /\ AllOnce'
  BY <1>1 DEF Inv, AcceptedByTheOther, AllOnce
<1> QED BY <1>2, <1>3, <1>4 DEF Inv

\* A handler that returns decides nothing more.
LEMMA Returns ==
  ASSUME Types, NEW t \in Thread, Return(t)
  PROVE  /\ handler' \in [Thread -> Decision]
         /\ \A u \in Thread : handler'[u].op = "accept" => handler'[u] = handler[u]
<1>1. Idle \in Decision /\ Idle.op # "accept"
  BY DEF Decision, Idle
<1> QED BY <1>1 DEF Types, Return

\* Rows change without a new requester, and no row is deleted.
Kept ==
  \A s \in Session : chat[s].status # "none" => chat'[s].by = chat[s].by /\ chat'[s].status # "none"

LEMMA AcceptingKept ==
  ASSUME Types, Accepting, Kept, NEW t \in Thread, Return(t) \/ handler' = handler
  PROVE  Accepting'
<1> SUFFICES ASSUME NEW u \in Thread, handler'[u].op = "accept"
             PROVE  chat'[handler'[u].session].status # "none"
                    /\ handler'[u].user # chat'[handler'[u].session].by
  BY DEF Accepting
<1>1. handler'[u] = handler[u]
  BY Returns
<1>2. handler[u].session \in Session
  <2>1. handler[u] \in Decision /\ handler[u].op = "accept"
    BY <1>1 DEF Types
  <2> QED BY <2>1 DEF Decision, Idle
<1> QED BY <1>1, <1>2 DEF Accepting, Kept

\* A new session replaces none.
LEMMA Requested == ASSUME Inv, NEW t \in Thread, CommitRequest(t) PROVE Inv'
<1>1. PICK s \in Session :
        /\ chat[s] = NoSession
        /\ chat' = [chat EXCEPT ![s] = [status |-> "requested", by |-> handler[t].user, acceptedBy |-> Nobody]]
  BY DEF CommitRequest
<1>2. Return(t) /\ assignee' = assignee /\ transcript' = transcript
  BY DEF CommitRequest
<1>3. handler[t].user \in User
  <2>1. handler[t] \in Decision /\ handler[t].op = "request"
    BY DEF Inv, Types, CommitRequest
  <2> QED BY <2>1 DEF Decision, Idle
<1>4. [status |-> "requested", by |-> handler[t].user, acceptedBy |-> Nobody] \in SessionRow
  BY <1>3 DEF SessionRow, OpenChat
<1>5. Types'
  BY <1>1, <1>2, <1>4, Returns DEF Inv, Types
<1>6. Kept
  BY <1>1 DEF Kept, NoSession, Inv, Types
<1>7. AcceptedByTheOther'
  BY <1>1 DEF AcceptedByTheOther, Inv, Types
<1>8. AllOnce'
  BY <1>2 DEF AllOnce, Inv
<1> QED BY <1>2, <1>5, <1>6, <1>7, <1>8, AcceptingKept DEF Inv

\* The one who accepts is not the one who asked, and that cannot have changed since.
LEMMA Accepted == ASSUME Inv, NEW t \in Thread, CommitAccept(t) PROVE Inv'
<1> DEFINE x == handler[t].session
           row == [chat[x] EXCEPT !.status = "active", !.acceptedBy = handler[t].user]
<1>1. x \in Session /\ handler[t].user \in User
  <2>1. handler[t] \in Decision /\ handler[t].op = "accept"
    BY DEF Inv, Types, CommitAccept
  <2> QED BY <2>1 DEF Decision, Idle
<1>2. chat' = [chat EXCEPT ![x] = row]
  BY <1>1 DEF CommitAccept, Inv, Types
<1>3. Return(t) /\ assignee' = assignee /\ transcript' = transcript
  BY DEF CommitAccept
<1>4. row \in SessionRow /\ row.by = chat[x].by /\ row.acceptedBy = handler[t].user /\ row.status = "active"
  BY <1>1 DEF Inv, Types, SessionRow, OpenChat
<1> HIDE DEF row
<1>5. Types'
  BY <1>1, <1>2, <1>3, <1>4, Returns DEF Inv, Types
<1>6. Kept
  BY <1>1, <1>2, <1>4 DEF Kept, Inv, Types
<1>7. handler[t].user # chat[x].by
  BY DEF Inv, Accepting, CommitAccept
<1>8. AcceptedByTheOther'
  BY <1>1, <1>2, <1>4, <1>7 DEF AcceptedByTheOther, Inv, Types
<1>9. AllOnce'
  BY <1>3 DEF AllOnce, Inv
<1> QED BY <1>3, <1>5, <1>6, <1>8, <1>9, AcceptingKept DEF Inv

\* The unique index.
LEMMA Sent == ASSUME Inv, NEW t \in Thread, CommitSend(t) PROVE Inv'
<1> DEFINE x == handler[t].session
           m == handler[t].msg
<1>1. x \in Session /\ m \in Message
  <2>1. handler[t] \in Decision /\ handler[t].op = "send"
    BY DEF Inv, Types, CommitSend
  <2> QED BY <2>1 DEF Decision, Idle
<1>2. Return(t) /\ assignee' = assignee /\ chat' = chat
  BY DEF CommitSend
<1>3. \/ transcript' = transcript
      \/ m \notin ToSet(transcript[x]) /\ transcript' = [transcript EXCEPT ![x] = Append(transcript[x], m)]
  BY <1>1 DEF CommitSend, Stored, Inv, Types
<1> HIDE DEF x, m
<1>4. m \notin ToSet(transcript[x]) =>
        Append(transcript[x], m) \in Seq(Message) /\ Once(Append(transcript[x], m))
  BY <1>1, Appended DEF Inv, Types, AllOnce
<1>5. transcript' \in [Session -> Seq(Message)]
  BY <1>1, <1>3, <1>4 DEF Inv, Types
<1>6. AllOnce'
  BY <1>1, <1>3, <1>4 DEF Inv, Types, AllOnce
<1>7. Types'
  BY <1>2, <1>5, Returns DEF Inv, Types
<1>8. Kept /\ AcceptedByTheOther'
  BY <1>2 DEF Kept, Inv, AcceptedByTheOther
<1> QED BY <1>2, <1>6, <1>7, <1>8, AcceptingKept DEF Inv

\* Sessions that are closed keep who asked and who accepted.
Closes ==
  /\ chat' \in [Session -> SessionRow]
  /\ \A s \in Session :
       chat'[s] = chat[s] \/ (chat'[s].status = "closed" /\ chat'[s].by = chat[s].by)

LEMMA ClosedKept ==
  ASSUME Inv, Closes, assignee' = assignee, transcript' = transcript,
         NEW t \in Thread, Return(t) \/ handler' = handler
  PROVE  Inv'
<1>1. Types'
  BY Returns DEF Inv, Types, Closes
<1>2. Kept
  BY DEF Kept, Closes
<1>3. AcceptedByTheOther' /\ AllOnce'
  BY DEF Inv, AcceptedByTheOther, AllOnce, Closes
<1> QED BY <1>1, <1>2, <1>3, AcceptingKept DEF Inv

LEMMA Closed == ASSUME Inv, NEW t \in Thread, CommitClose(t) PROVE Inv'
<1> DEFINE x == handler[t].session
<1>1. x \in Session
  <2>1. handler[t] \in Decision /\ handler[t].op = "close"
    BY DEF Inv, Types, CommitClose
  <2> QED BY <2>1 DEF Decision, Idle
<1>2. chat' = [chat EXCEPT ![x].status = "closed"] /\ Return(t) /\ assignee' = assignee /\ transcript' = transcript
  BY DEF CommitClose
<1> HIDE DEF x
<1>3. Closes
  BY <1>1, <1>2 DEF Closes, Inv, Types, SessionRow
<1> QED BY <1>2, <1>3, ClosedKept

\* What the rest of the system does to the ticket.
LEMMA Around ==
  ASSUME Inv, Reassign \/ CloseTicket \/ Reopen \/ UNCHANGED vars
  PROVE  Inv'
<1>1. assignee' \in Tech /\ chat' = chat /\ transcript' = transcript /\ handler' = handler
  BY DEF Inv, Types, Reassign, CloseTicket, Reopen, vars
<1> QED BY <1>1 DEF Inv, Types, Accepting, AcceptedByTheOther, AllOnce

LEMMA ClosedOnRequest == ASSUME Inv, CloseOnRequest PROVE Inv'
<1>1. Closes
  BY DEF CloseOnRequest, Closes, Inv, Types, SessionRow
<1>2. assignee' = assignee /\ transcript' = transcript /\ handler' = handler
  BY DEF CloseOnRequest
<1>3. Types' /\ AcceptedByTheOther' /\ AllOnce'
  BY <1>1, <1>2 DEF Closes, Inv, Types, AcceptedByTheOther, AllOnce
<1>4. Accepting'
  <2> SUFFICES ASSUME NEW u \in Thread, handler[u].op = "accept"
               PROVE  chat'[handler[u].session].status # "none"
                      /\ handler[u].user # chat'[handler[u].session].by
    BY <1>2 DEF Accepting
  <2> QED BY <1>1, <1>2, AcceptingKept DEF Inv, Kept, Closes, Accepting
<1> QED BY <1>3, <1>4 DEF Inv

LEMMA StepInv == Inv /\ [Next]_vars => Inv'
<1> SUFFICES ASSUME Inv, [Next]_vars PROVE Inv'
  OBVIOUS
<1>1. ASSUME NEW t \in Thread, NEW u \in User, BeginRequest(t, u) PROVE Inv'
  <2>1. [op |-> "request", user |-> u] \in Decision
    BY DEF Decision
  <2> QED BY <1>1, <2>1, Begins DEF BeginRequest
<1>2. ASSUME NEW t \in Thread, NEW u \in User, NEW s \in Session, BeginAccept(t, u, s) PROVE Inv'
  <2>1. [op |-> "accept", user |-> u, session |-> s] \in Decision
    BY DEF Decision
  <2> QED BY <1>2, <2>1, Begins DEF BeginAccept, MayAccept
<1>3. ASSUME NEW t \in Thread, NEW u \in User, NEW s \in Session, BeginClose(t, u, s) PROVE Inv'
  <2>1. [op |-> "close", session |-> s] \in Decision
    BY DEF Decision
  <2> QED BY <1>3, <2>1, Begins DEF BeginClose
<1>4. ASSUME NEW t \in Thread, NEW m \in Message, NEW s \in Session, BeginSend(t, m, s) PROVE Inv'
  <2>1. [op |-> "send", msg |-> m, session |-> s] \in Decision
    BY DEF Decision
  <2> QED BY <1>4, <2>1, Begins DEF BeginSend
<1>5. ASSUME NEW t \in Thread, CommitRequest(t) \/ CommitAccept(t) \/ CommitSend(t) \/ CommitClose(t) PROVE Inv'
  BY <1>5, Requested, Accepted, Sent, Closed
<1> QED BY <1>1, <1>2, <1>3, <1>4, <1>5, Around, ClosedOnRequest DEF Next

LEMMA Invariant == Spec => []Inv
<1>1. Init => Inv
  BY InitInv
<1>2. Inv /\ [Next]_vars => Inv'
  BY StepInv
<1> QED BY <1>1, <1>2, PTL DEF Spec

\* A session has somebody who asked, and an active one somebody who accepted; a handler
\* that closes one has found it open.
Named ==
  /\ ticketOpen \in BOOLEAN
  /\ \A s \in Session : /\ chat[s].status # "none" => chat[s].by \in User
                        /\ chat[s].status = "active" => chat[s].acceptedBy \in User
  /\ \A t \in Thread : handler[t].op = "close" => chat[handler[t].session].status # "none"

\* Where rows keep their people.
LEMMA NamedKept ==
  ASSUME Inv, Named, Inv', ticketOpen' \in BOOLEAN, Kept,
         \A s \in Session : /\ chat'[s].status # "none" => chat'[s].by \in User
                            /\ chat'[s].status = "active" => chat'[s].acceptedBy \in User,
         \A t \in Thread : handler'[t].op = "close" => handler'[t] = handler[t]
  PROVE  Named'
<1>1. ASSUME NEW t \in Thread, handler'[t].op = "close" PROVE chat'[handler'[t].session].status # "none"
  <2>1. handler[t] \in Decision /\ handler[t].op = "close" /\ handler'[t] = handler[t]
    BY <1>1 DEF Inv, Types
  <2>2. handler[t].session \in Session
    BY <2>1 DEF Decision, Idle
  <2> QED BY <2>1, <2>2 DEF Named, Kept
<1> QED BY <1>1 DEF Named

LEMMA NamedBegins ==
  ASSUME Inv, Named, NEW t \in Thread, NEW op, Begin(t, op),
         op.op = "close" => chat[op.session].status # "none"
  PROVE  Named'
BY DEF Inv, Types, Begin, Named

LEMMA StepNamed == Inv /\ Named /\ [Next]_vars => Named'
<1> SUFFICES ASSUME Inv, Named, [Next]_vars PROVE Named'
  OBVIOUS
<1>0. /\ Inv' /\ handler \in [Thread -> Decision] /\ chat \in [Session -> SessionRow]
      /\ Idle.op = "idle" /\ ticketOpen \in BOOLEAN
  BY StepInv DEF Inv, Types, Idle, Named
<1>1. ASSUME NEW t \in Thread, NEW u \in User, BeginRequest(t, u) PROVE Named'
  BY <1>1, NamedBegins DEF BeginRequest
<1>2. ASSUME NEW t \in Thread, NEW u \in User, NEW s \in Session, BeginAccept(t, u, s) \/ BeginClose(t, u, s)
      PROVE  Named'
  BY <1>2, NamedBegins DEF BeginAccept, BeginClose, IsOpen, OpenChat
<1>3. ASSUME NEW t \in Thread, NEW m \in Message, NEW s \in Session, BeginSend(t, m, s) PROVE Named'
  BY <1>3, NamedBegins DEF BeginSend
<1>4. ASSUME NEW t \in Thread, CommitRequest(t) PROVE Named'
  <2>1. handler[t].user \in User
    <3>1. handler[t] \in Decision /\ handler[t].op = "request"
      BY <1>0, <1>4 DEF CommitRequest
    <3> QED BY <3>1 DEF Decision, Idle
  <2>2. PICK s \in Session :
          /\ chat[s] = NoSession
          /\ chat' = [chat EXCEPT ![s] = [status |-> "requested", by |-> handler[t].user, acceptedBy |-> Nobody]]
    BY <1>4 DEF CommitRequest
  <2>3. handler' = [handler EXCEPT ![t] = Idle] /\ ticketOpen' = ticketOpen
    BY <1>4 DEF CommitRequest, Return
  <2>4. Kept
    BY <1>0, <2>2 DEF Kept, NoSession
  <2> QED BY <1>0, <2>1, <2>2, <2>3, <2>4, NamedKept DEF Named
<1>5. ASSUME NEW t \in Thread, CommitAccept(t) PROVE Named'
  <2> DEFINE x == handler[t].session
  <2>1. x \in Session /\ handler[t].user \in User /\ chat[x].status # "none"
    <3>1. handler[t] \in Decision /\ handler[t].op = "accept"
      BY <1>0, <1>5 DEF CommitAccept
    <3> QED BY <3>1 DEF Decision, Idle, Inv, Accepting
  <2>2. /\ chat' = [chat EXCEPT ![x] = [chat[x] EXCEPT !.status = "active", !.acceptedBy = handler[t].user]]
        /\ handler' = [handler EXCEPT ![t] = Idle] /\ ticketOpen' = ticketOpen
    BY <1>0, <1>5, <2>1 DEF CommitAccept, Return
  <2>3. \A s \in Session : /\ chat'[s].by = chat[s].by /\ (s # x => chat'[s] = chat[s])
                           /\ s = x => chat'[s].status = "active" /\ chat'[s].acceptedBy = handler[t].user
    BY <1>0, <2>1, <2>2 DEF SessionRow
  <2>4. Kept
    BY <2>3 DEF Kept
  <2> QED BY <1>0, <2>1, <2>2, <2>3, <2>4, NamedKept DEF Named
<1>6. ASSUME NEW t \in Thread, CommitSend(t) PROVE Named'
  <2>1. chat' = chat /\ handler' = [handler EXCEPT ![t] = Idle] /\ ticketOpen' = ticketOpen
    BY <1>6 DEF CommitSend, Return
  <2> QED BY <1>0, <2>1, NamedKept DEF Named, Kept
<1>7. ASSUME NEW t \in Thread, CommitClose(t) PROVE Named'
  <2> DEFINE x == handler[t].session
  <2>1. x \in Session /\ chat[x].status # "none"
    <3>1. handler[t] \in Decision /\ handler[t].op = "close"
      BY <1>0, <1>7 DEF CommitClose
    <3> QED BY <3>1 DEF Decision, Idle, Named
  <2>2. /\ chat' = [chat EXCEPT ![x] = [chat[x] EXCEPT !.status = "closed"]]
        /\ handler' = [handler EXCEPT ![t] = Idle] /\ ticketOpen' = ticketOpen
    BY <1>0, <1>7, <2>1 DEF CommitClose, Return
  <2>3. \A s \in Session : /\ chat'[s].by = chat[s].by /\ (s # x => chat'[s] = chat[s])
                           /\ s = x => chat'[s].status = "closed"
    BY <1>0, <2>1, <2>2 DEF SessionRow
  <2>4. Kept
    BY <2>3 DEF Kept
  <2> QED BY <1>0, <2>1, <2>2, <2>3, <2>4, NamedKept DEF Named
<1>8. CASE Reassign \/ CloseTicket \/ Reopen \/ UNCHANGED vars
  BY <1>8 DEF Reassign, CloseTicket, Reopen, vars, Named
<1>9. CASE CloseOnRequest
  <2>1. /\ handler' = handler /\ ticketOpen' = FALSE
        /\ \A s \in Session : chat'[s].by = chat[s].by /\ (chat'[s] = chat[s] \/ (IsOpen(s) /\ chat'[s].status = "closed"))
    BY <1>0, <1>9 DEF CloseOnRequest, SessionRow
  <2>2. Kept
    BY <2>1 DEF Kept
  <2> QED BY <1>0, <2>1, <2>2, NamedKept DEF Named, IsOpen, OpenChat
<1> QED BY <1>1, <1>2, <1>3, <1>4, <1>5, <1>6, <1>7, <1>8, <1>9 DEF Next

-----------------------------------------------------------------------------
(* An ended chat.                                                          *)

\* A handler that begins leaves an ended chat alone.
LEMMA BeginsElsewhere ==
  ASSUME Types, NEW s \in Session, Ended(s), NEW t \in Thread, NEW op, Begin(t, op),
         op.op \in {"accept", "send", "close"} => op.session # s
  PROVE  Ended(s)' /\ transcript'[s] = transcript[s]
<1>1. chat' = chat /\ transcript' = transcript /\ \A u \in Thread : handler'[u] = IF u = t THEN op ELSE handler[u]
  BY DEF Begin, Types
<1> QED BY <1>1 DEF Ended

\* A handler that returns holds nothing.
LEMMA ReturnsElsewhere ==
  ASSUME Types, NEW s \in Session, Ended(s), NEW t \in Thread, Return(t),
         chat'[s].status = "closed"
  PROVE  Ended(s)'
<1>1. \A u \in Thread : handler'[u] = IF u = t THEN Idle ELSE handler[u]
  BY DEF Return, Types
<1> QED BY <1>1 DEF Ended, Idle

\* A chat is ended when no handler is left that found it open.  None finds it open again.
LEMMA EndedStays ==
  ASSUME Types, [Next]_vars, NEW s \in Session, Ended(s)
  PROVE  Ended(s)' /\ transcript'[s] = transcript[s]
<1>0. chat[s].status = "closed" /\ chat[s].status \notin OpenChat
  BY DEF Ended, OpenChat
<1>1. ASSUME NEW t \in Thread, NEW u \in User, BeginRequest(t, u) PROVE Ended(s)' /\ transcript'[s] = transcript[s]
  BY <1>1, BeginsElsewhere DEF BeginRequest
<1>2. ASSUME NEW t \in Thread, NEW u \in User, NEW x \in Session, BeginAccept(t, u, x) \/ BeginClose(t, u, x)
      PROVE  Ended(s)' /\ transcript'[s] = transcript[s]
  <2>1. x # s
    BY <1>0, <1>2 DEF BeginAccept, MayAccept, BeginClose, IsOpen
  <2>2. CASE BeginAccept(t, u, x)
    BY <2>1, <2>2, BeginsElsewhere DEF BeginAccept
  <2>3. CASE BeginClose(t, u, x)
    BY <2>1, <2>3, BeginsElsewhere DEF BeginClose
  <2> QED BY <1>2, <2>2, <2>3
<1>3. ASSUME NEW t \in Thread, NEW m \in Message, NEW x \in Session, BeginSend(t, m, x)
      PROVE  Ended(s)' /\ transcript'[s] = transcript[s]
  <2>1. x # s
    BY <1>0, <1>3 DEF BeginSend, MaySend, IsOpen
  <2> QED BY <1>3, <2>1, BeginsElsewhere DEF BeginSend
<1>4. ASSUME NEW t \in Thread, CommitRequest(t) PROVE Ended(s)' /\ transcript'[s] = transcript[s]
  <2>1. PICK x \in Session :
          /\ chat[x] = NoSession
          /\ chat' = [chat EXCEPT ![x] = [status |-> "requested", by |-> handler[t].user, acceptedBy |-> Nobody]]
    BY <1>4 DEF CommitRequest
  <2>2. x # s
    BY <1>0, <2>1 DEF NoSession
  <2>3. chat'[s] = chat[s] /\ transcript' = transcript /\ Return(t)
    BY <1>4, <2>1, <2>2 DEF CommitRequest, Types
  <2> QED BY <1>0, <2>3, ReturnsElsewhere
<1>5. ASSUME NEW t \in Thread, CommitAccept(t) \/ CommitSend(t) \/ CommitClose(t)
      PROVE  Ended(s)' /\ transcript'[s] = transcript[s]
  <2>1. handler[t].op \in {"accept", "send", "close"} /\ handler[t].session # s /\ Return(t)
    BY <1>5 DEF CommitAccept, CommitSend, CommitClose, Ended
  <2>2. chat'[s] = chat[s]
    BY <1>5, <2>1 DEF CommitAccept, CommitSend, CommitClose, Types
  <2>3. transcript'[s] = transcript[s]
    BY <1>5, <2>1 DEF CommitAccept, CommitSend, CommitClose, Types
  <2> QED BY <1>0, <2>1, <2>2, <2>3, ReturnsElsewhere
<1>6. CASE Reassign \/ CloseTicket \/ Reopen \/ UNCHANGED vars
  BY <1>6 DEF Reassign, CloseTicket, Reopen, vars, Ended
<1>7. CASE CloseOnRequest
  <2>1. chat'[s] = chat[s] /\ transcript' = transcript /\ handler' = handler
    BY <1>0, <1>7 DEF CloseOnRequest, IsOpen
  <2> QED BY <2>1 DEF Ended
<1> QED BY <1>1, <1>2, <1>3, <1>4, <1>5, <1>6, <1>7 DEF Next

\* What is recorded of a session is of an ended chat.
Recorded ==
  /\ final \in [Session -> Seq(Message) \cup {Open}]
  /\ \A s \in Session : final[s] # Open => Ended(s) /\ transcript[s] = final[s]

LEMMA RecordedStep == Types /\ Types' /\ Recorded /\ [HNext]_<<vars, final>> => Recorded'
<1> SUFFICES ASSUME Types, Types', Recorded, [HNext]_<<vars, final>> PROVE Recorded'
  OBVIOUS
<1>1. [Next]_vars
  BY DEF HNext
<1>2. CASE HNext
  <2>1. \A s \in Session : final'[s] = IF final[s] = Open /\ Ended(s)' THEN transcript'[s] ELSE final[s]
    BY <1>2 DEF HNext
  <2>2. final' \in [Session -> Seq(Message) \cup {Open}]
    BY <1>2 DEF HNext, Recorded, Types
  <2>3. ASSUME NEW s \in Session, final'[s] # Open PROVE Ended(s)' /\ transcript'[s] = final'[s]
    <3>1. CASE final[s] = Open
      BY <2>1, <2>3, <3>1
    <3>2. CASE final[s] # Open
      <4>1. Ended(s) /\ transcript[s] = final[s] /\ final'[s] = final[s]
        BY <2>1, <3>2 DEF Recorded
      <4> QED BY <1>1, <4>1, EndedStays
    <3> QED BY <3>1, <3>2
  <2>4. \A s \in Session : final'[s] # Open => Ended(s)' /\ transcript'[s] = final'[s]
    BY <2>3
  <2> QED BY <2>2, <2>4 DEF Recorded
<1>3. CASE UNCHANGED <<vars, final>>
  BY <1>3 DEF Recorded, Ended, vars
<1> QED BY <1>2, <1>3

-----------------------------------------------------------------------------
(* Theorems.                                                               *)

\* Sessions, transcripts and handlers hold what their columns and requests hold: a session
\* always has somebody who asked for it, and an active one somebody who accepted it,
\* however requests, acceptances and closings overlap.
THEOREM ChatTypeCorrect == Spec => []TypeOK
<1>1. Init => Named
  BY DEF Init, Named, NoSession, Idle
<1>2. Named /\ Inv /\ [Next]_vars => Named'
  BY StepNamed
<1>3. Inv /\ Named => TypeOK
  <2> SUFFICES ASSUME Inv, Named PROVE TypeOK
    OBVIOUS
  <2>1. \A t \in Thread : handler[t].op \in {"idle", "request", "accept", "send", "close"}
    BY DEF Inv, Types, Decision, Idle
  <2>2. Nobody \notin User
    BY ChatAssumption DEF ChatAssumption, User
  <2> QED BY <2>1, <2>2 DEF Inv, Types, Named, TypeOK, SessionRow
<1> QED BY <1>1, <1>2, <1>3, Invariant, PTL DEF Spec

\* An active chat was accepted by another than the one who asked for it, although the
\* ticket may have been given to somebody else between the reading and the commit
\* (accept_chat).
THEOREM AcceptedByAnother == Spec => []AcceptedByTheOther
<1>1. Inv => AcceptedByTheOther
  BY DEF Inv
<1> QED BY <1>1, Invariant, PTL

\* Every message is in a transcript at most once, however often and however closely it
\* is sent again (send_chat_message and its unique index).
THEOREM MessagesStoredOnce == Spec => []StoredOnce
<1>1. Inv => StoredOnce
  BY OnceIsInjective DEF Inv
<1> QED BY <1>1, Invariant, PTL

\* A closed chat is not opened again and gets no more messages, whatever happens to its
\* ticket, once the handlers that found it open are through (accept_chat,
\* send_chat_message, close_chat, and those that close and reopen the ticket).
THEOREM EndedIsFinal == HSpec => []EndedChatIsFinal
<1>1. HInit => Inv /\ Recorded
  BY InitInv DEF HInit, Recorded
<1>2. Inv /\ Recorded /\ [HNext]_<<vars, final>> => Inv' /\ Recorded'
  <2>1. [HNext]_<<vars, final>> => [Next]_vars
    BY DEF HNext
  <2> QED BY <2>1, StepInv, RecordedStep DEF Inv
<1>3. Recorded => EndedChatIsFinal
  BY DEF Recorded, EndedChatIsFinal, Ended
<1> QED BY <1>1, <1>2, <1>3, PTL DEF HSpec

=============================================================================
