------------------------------ MODULE LiveChat ------------------------------
(***************************************************************************)
(* Live chat on one ticket (chat_api.py): invitations, acceptance,         *)
(* messages that the browser sends again when it saw no answer, closing,   *)
(* and what the rest of the system does to the ticket meanwhile.           *)
(*                                                                         *)
(* A handler reads the ticket and the chat session, decides, and commits;  *)
(* with READ COMMITTED and no lock other handlers may commit in between.   *)
(* A handler in progress is kept in "handler" with what it decided to do.  *)
(***************************************************************************)
EXTENDS Naturals, Sequences, SequencesExt

CONSTANTS
  Session,    \* ticket_chat_sessions rows that may come to exist
  Tech,       \* technicians
  Requester,  \* the requester of the ticket
  Message,    \* client_message_id values
  AuthorOf,   \* who sends each message
  Thread      \* request threads of the server

Nobody == "nobody"

ASSUME ChatAssumption ==
  /\ Requester \notin Tech /\ Nobody \notin Tech \cup {Requester}
  /\ AuthorOf \in [Message -> Tech \cup {Requester}]

VARIABLES
  ticketOpen,  \* the ticket is neither Closed nor Cancelled
  assignee,    \* its technician
  chat,        \* the sessions' status, requested_by and accepted_by
  transcript,  \* the messages stored for each session, in order
  handler      \* the handlers between their read and their commit

vars == <<ticketOpen, assignee, chat, transcript, handler>>

User == Tech \cup {Requester}
OpenChat == {"requested", "active"}
NoSession == [status |-> "none", by |-> Nobody, acceptedBy |-> Nobody]
Idle == [op |-> "idle"]

TypeOK ==
  /\ ticketOpen \in BOOLEAN
  /\ assignee \in Tech
  /\ chat \in [Session -> [status : OpenChat \cup {"none", "closed"},
                           by : User \cup {Nobody}, acceptedBy : User \cup {Nobody}]]
  /\ \A s \in Session : chat[s].status # "none" => chat[s].by # Nobody
  /\ \A s \in Session : chat[s].status = "active" => chat[s].acceptedBy # Nobody
  /\ transcript \in [Session -> Seq(Message)]
  /\ \A t \in Thread : handler[t].op \in {"idle", "request", "accept", "send", "close"}

Init ==
  /\ ticketOpen = TRUE
  /\ assignee \in Tech
  /\ chat = [s \in Session |-> NoSession]
  /\ transcript = [s \in Session |-> <<>>]
  /\ handler = [t \in Thread |-> Idle]

-----------------------------------------------------------------------------
Participant(u) == u \in {Requester, assignee}
IsOpen(s) == chat[s].status \in OpenChat
Stored(s, m) == m \in ToSet(transcript[s])

Begin(t, op) ==
  /\ handler[t] = Idle
  /\ handler' = [handler EXCEPT ![t] = op]
  /\ UNCHANGED <<ticketOpen, assignee, chat, transcript>>

Return(t) == handler' = [handler EXCEPT ![t] = Idle]

\* request_chat returns an open session, or creates one.
BeginRequest(t, u) ==
  /\ Participant(u) /\ ticketOpen
  /\ \A s \in Session : ~IsOpen(s)
  /\ Begin(t, [op |-> "request", user |-> u])

CommitRequest(t) ==
  /\ handler[t].op = "request"
  /\ \E s \in Session :
       /\ chat[s] = NoSession
       /\ chat' = [chat EXCEPT ![s] =
                     [status |-> "requested", by |-> handler[t].user, acceptedBy |-> Nobody]]
  /\ Return(t)
  /\ UNCHANGED <<ticketOpen, assignee, transcript>>

\* Mutants of MayAccept: one's own invitation; the status is not looked at.
MayAcceptOwn(u, s) == Participant(u) /\ chat[s].status = "requested"

MayAcceptLate(u, s) == Participant(u) /\ u # chat[s].by /\ chat[s].status # "none"

\* accept_chat: not by whoever asked for the chat.
MayAccept(u, s) == Participant(u) /\ u # chat[s].by /\ chat[s].status = "requested"

BeginAccept(t, u, s) ==
  /\ MayAccept(u, s)
  /\ Begin(t, [op |-> "accept", user |-> u, session |-> s])

CommitAccept(t) ==
  /\ handler[t].op = "accept"
  /\ chat' = [chat EXCEPT ![handler[t].session].status = "active",
                          ![handler[t].session].acceptedBy = handler[t].user]
  /\ Return(t)
  /\ UNCHANGED <<ticketOpen, assignee, transcript>>

\* send_chat_message: a message that is there already is answered, not stored.
MaySend(u, s) == Participant(u) /\ IsOpen(s) /\ ticketOpen

BeginSend(t, m, s) ==
  /\ MaySend(AuthorOf[m], s)
  /\ ~Stored(s, m)
  /\ Begin(t, [op |-> "send", msg |-> m, session |-> s])

\* Mutant of CommitSend: no unique index.
CommitSendUnchecked(t) ==
  /\ handler[t].op = "send"
  /\ transcript' = [transcript EXCEPT ![handler[t].session] = Append(@, handler[t].msg)]
  /\ Return(t)
  /\ UNCHANGED <<ticketOpen, assignee, chat>>

\* The unique index turns a second insert into an IntegrityError, and that into
\* the stored message.
CommitSend(t) ==
  /\ handler[t].op = "send"
  /\ LET s == handler[t].session
         m == handler[t].msg
     IN  transcript' = IF Stored(s, m) THEN transcript
                       ELSE [transcript EXCEPT ![s] = Append(@, m)]
  /\ Return(t)
  /\ UNCHANGED <<ticketOpen, assignee, chat>>

BeginClose(t, u, s) ==
  /\ Participant(u) /\ IsOpen(s)
  /\ Begin(t, [op |-> "close", session |-> s])

CommitClose(t) ==
  /\ handler[t].op = "close"
  /\ chat' = [chat EXCEPT ![handler[t].session].status = "closed"]
  /\ Return(t)
  /\ UNCHANGED <<ticketOpen, assignee, transcript>>

-----------------------------------------------------------------------------
(* The rest of the system.                                                 *)

\* reassign_ticket, update_ticket.
Reassign ==
  /\ ticketOpen
  /\ assignee' \in Tech \ {assignee}
  /\ UNCHANGED <<ticketOpen, chat, transcript, handler>>

\* confirm_resolution, update_ticket: the chats are left as they are.
CloseTicket ==
  /\ ticketOpen
  /\ ticketOpen' = FALSE
  /\ UNCHANGED <<assignee, chat, transcript, handler>>

\* close_ticket_from_requester_message.
CloseOnRequest ==
  /\ ticketOpen
  /\ ticketOpen' = FALSE
  /\ chat' = [s \in Session |-> IF IsOpen(s) THEN [chat[s] EXCEPT !.status = "closed"] ELSE chat[s]]
  /\ UNCHANGED <<assignee, transcript, handler>>

Reopen ==
  /\ ~ticketOpen
  /\ ticketOpen' = TRUE
  /\ UNCHANGED <<assignee, chat, transcript, handler>>

Next ==
  \/ \E t \in Thread :
       \/ \E u \in User : BeginRequest(t, u) \/ (\E s \in Session : BeginAccept(t, u, s) \/ BeginClose(t, u, s))
       \/ \E m \in Message, s \in Session : BeginSend(t, m, s)
       \/ CommitRequest(t) \/ CommitAccept(t) \/ CommitSend(t) \/ CommitClose(t)
  \/ Reassign \/ CloseTicket \/ CloseOnRequest \/ Reopen

Spec == Init /\ [][Next]_vars

-----------------------------------------------------------------------------
(* Properties.                                                             *)

\* A message the browser sends again, even while the first request is still in
\* progress, appears once in the transcript.
StoredOnce == \A s \in Session : IsInjective(transcript[s])

\* An active chat was accepted by another user than the one who asked for it,
\* whoever the ticket was given to in between.
AcceptedByTheOther ==
  \A s \in Session : chat[s].status = "active" => chat[s].acceptedBy # chat[s].by

=============================================================================
