-------------------------------- MODULE Mail --------------------------------
(***************************************************************************)
(* E-mail (worker.py, microsoft_mail.py, email_ingest of main.py).  One    *)
(* worker polls the shared mailbox, turns each message into a ticket or an *)
(* entry of one, and then sends the notifications that wait for e-mail.    *)
(* It commits after each message and each notification.  A mailbox of IMAP *)
(* is read after the notifications instead, all its unseen messages in the *)
(* transaction that ends the run; one of the two is configured.  An        *)
(* administrator may feed a message to email_ingest at the same time.      *)
(*                                                                         *)
(* A message opens at most one ticket, named by the message; so is the     *)
(* notification of its requester.  Those of technicians, the read flags of *)
(* Microsoft 365, bodies and attachments are left out; the mailbox holds   *)
(* no more than the 100 messages a poll returns, and all have a Message-ID *)
(* (one without is dropped as a duplicate).                                *)
(* Whether e-mail is enabled is left open: an administrator may switch it. *)
(***************************************************************************)
EXTENDS Integers

CONSTANTS
  MaxMail,      \* bound on the messages of the mailbox
  MaxAttempts,  \* _MAIL_MAX_ATTEMPTS
  MaxStops      \* bound on the times the worker is stopped, or an error ends its run

ASSUME MailAssumption ==
  MaxMail \in Nat /\ MaxAttempts \in Nat \ {0} /\ MaxStops \in Nat

Msg == 1 .. MaxMail      \* messages, by the time they were received
T0 == 0                  \* a ticket of the portal, and its notification
Ticket == 0 .. MaxMail
Nothing == -1
NoRef == <<Nothing, 0>>
Note == Ticket
Copy == Note \X (1 .. MaxStops + 1)

VARIABLES
  inbox,     \* the messages that have arrived
  email,     \* EmailMessage, unique by Message-ID: how a message was handled
  posts,     \* number of timeline entries made from a message
  attempts,  \* retry state of a message
  note,      \* delivery_status of the notifications
  copies,    \* copies of a notification the provider has accepted
  known,     \* copies whose Message-ID is on record
  seen,      \* messages of IMAP that are flagged \Seen
  lost,      \* history: those of them whose run was rolled back
  worker,    \* run_once: phase, what is left of its batch, the item in hand, and what it
             \* has not committed: messages handled, notifications suppressed
  api,       \* the message email_ingest has looked up and not yet committed
  stops

messageVars == <<inbox, email, posts, attempts>>
noteVars == <<note, copies, known>>
imapVars == <<seen, lost>>
mailVars == <<messageVars, noteVars, imapVars, worker, api, stops>>

Mail == [from : {"requester", "colleague", "automatic"},
         ref : Copy \cup {NoRef}, subject : Ticket \cup {Nothing},
         via : {"Microsoft 365", "IMAP"}]
NoMail == [from |-> "nobody", ref |-> NoRef, subject |-> Nothing, via |-> "none"]
Handled == {"created", "threaded", "failed", "ignored"}
Unhandled == [status |-> "none", ticket |-> Nothing]

MailTypeOK ==
  /\ inbox \in [Msg -> Mail \cup {NoMail}]
  /\ email \in [Msg -> [status : Handled \cup {"none"}, ticket : Ticket \cup {Nothing}]]
  /\ posts \in [Msg -> 0 .. 2]
  /\ attempts \in [Msg -> 0 .. MaxAttempts]
  /\ note \in [Note -> {"none", "pending", "sent", "failed", "suppressed"}]
  /\ copies \in [Note -> 0 .. MaxStops + 1]
  /\ known \subseteq Copy
  /\ seen \subseteq Msg /\ lost \subseteq Msg
  /\ worker \in [phase : {"idle", "mail", "send", "imap"}, batch : SUBSET Note,
                 item : Note \cup {Nothing}, draft : SUBSET Msg, hushed : SUBSET Note]
  /\ api \in Msg \cup {Nothing}
  /\ stops \in 0 .. MaxStops

Phase(p, batch) == [phase |-> p, batch |-> batch, item |-> Nothing, draft |-> {}, hushed |-> {}]
Idle == Phase("idle", {})

MailInit ==
  /\ inbox = [m \in Msg |-> NoMail]
  /\ email = [m \in Msg |-> Unhandled]
  /\ posts = [m \in Msg |-> 0]
  /\ attempts = [m \in Msg |-> 0]
  /\ note = [n \in Note |-> IF n = T0 THEN "pending" ELSE "none"]
  /\ copies = [n \in Note |-> 0]
  /\ known = {}
  /\ seen = {}
  /\ lost = {}
  /\ worker = Idle
  /\ api = Nothing
  /\ stops = 0

-----------------------------------------------------------------------------
(* The mailbox and the administrator.                                      *)

TicketExists(t) == t = T0 \/ (t \in Msg /\ email[t].status = "created")

\* A message may name a ticket, or cite a copy that was sent under a rewritten subject
\* (under its own it names the ticket); one that does neither comes from the requester of
\* what it opens.  The headers of automatic messages do not matter.
Arrive(m) ==
  /\ inbox[m] = NoMail /\ \A l \in 1 .. m - 1 : inbox[l] # NoMail
  /\ \E mail \in Mail :
       /\ \A l \in Msg : inbox[l] # NoMail => inbox[l].via = mail.via
       /\ mail.ref # NoRef => mail.ref[2] <= copies[mail.ref[1]] /\ mail.subject = Nothing
       /\ mail.subject # Nothing => TicketExists(mail.subject)
       /\ mail.from = "colleague" => mail.ref # NoRef \/ mail.subject # Nothing
       /\ mail.from = "automatic" => mail.ref = NoRef /\ mail.subject = Nothing
       /\ inbox' = [inbox EXCEPT ![m] = mail]
  /\ UNCHANGED <<email, posts, attempts, noteVars, imapVars, worker, api, stops>>

-----------------------------------------------------------------------------
(* One message.                                                            *)

\* The ticket of the outbound message that a reply cites.
TicketOfRef(ref) == IF ref \in known THEN ref[1] ELSE Nothing

First(t, u) == IF t # Nothing THEN t ELSE u

\* process_message: the ticket is found by the reply headers, then by the subject.
Processed(m) ==
  LET t == First(TicketOfRef(inbox[m].ref), inbox[m].subject)
  IN  CASE inbox[m].from = "automatic" -> [status |-> "ignored", ticket |-> Nothing]
        [] inbox[m].from # "automatic" /\ t = Nothing -> [status |-> "created", ticket |-> m]
        [] inbox[m].from = "requester" /\ t # Nothing -> [status |-> "threaded", ticket |-> t]
        [] OTHER -> [status |-> "failed", ticket |-> Nothing]

\* email_ingest: by the subject first, and every known sender may post.  Only who has a
\* ticket, or was sent a copy, is known for certain.
Ingested(m) ==
  LET t == First(inbox[m].subject, TicketOfRef(inbox[m].ref))
      failed == [status |-> "failed", ticket |-> Nothing]
  IN  CASE inbox[m].from = "automatic" -> {[status |-> "ignored", ticket |-> Nothing]}
        [] inbox[m].from = "requester" /\ t = Nothing -> {[status |-> "created", ticket |-> m], failed}
        [] inbox[m].from = "requester" /\ t # Nothing -> {[status |-> "threaded", ticket |-> t]}
        [] OTHER -> {failed} \cup IF t = Nothing THEN {[status |-> "created", ticket |-> m]}
                                  ELSE {[status |-> "threaded", ticket |-> t]}

\* Mutant of MessageIsNew: the Message-ID is not unique.
MessageIsNewAlways(m) == m \in Msg

MessageIsNew(m) == email[m].status = "none"

Hushed(ns) == [n \in Note |-> IF n \in ns THEN "suppressed" ELSE note[n]]

\* notify: some of these notifications are to be e-mailed, as e-mail is switched on or off.
Notify(ms, ns) == {[n \in Note |-> IF n \in p THEN "pending" ELSE Hushed(ns)[n]] : p \in SUBSET ms}

\* What is committed with the records of messages: their entries, and the notifications of
\* new tickets; those of ns are suppressed.
Record(handled, ns) ==
  /\ \A m \in DOMAIN handled : MessageIsNew(m)
  /\ email' = [m \in Msg |-> IF m \in DOMAIN handled THEN handled[m] ELSE email[m]]
  /\ posts' = [m \in Msg |-> IF m \in DOMAIN handled /\ handled[m].ticket # Nothing THEN posts[m] + 1
                                                                                   ELSE posts[m]]
  /\ note' \in Notify({m \in DOMAIN handled : handled[m].ticket = m}, ns)
  /\ UNCHANGED <<inbox, copies, known>>

-----------------------------------------------------------------------------
(* run_once: microsoft_mailbox_job, email_notification_job, IMAP.          *)

Hand(i) == worker' = [worker EXCEPT !.item = i]
Drop(i) == worker' = [worker EXCEPT !.item = Nothing, !.batch = @ \ {i}]

Inbox(via) == {m \in Msg : inbox[m].via = via}
Oldest(m) == m \in worker.batch /\ \A l \in worker.batch : m <= l

MayTry(m) == attempts[m] < MaxAttempts /\ MessageIsNew(m)

\* A message that may not be tried now will not be when its turn comes.
Poll ==
  /\ worker.phase = "idle"
  /\ worker' = Phase("mail", {m \in Inbox("Microsoft 365") : MayTry(m)})
  /\ UNCHANGED <<messageVars, noteVars, imapVars, api, stops>>

\* The oldest message is looked up and downloaded.
TakeMail(m) ==
  /\ worker.phase = "mail" /\ worker.item = Nothing /\ Oldest(m)
  /\ IF MayTry(m) THEN Hand(m) ELSE Drop(m)
  /\ UNCHANGED <<messageVars, noteVars, imapVars, api, stops>>

CommitMail(m) ==
  /\ worker.phase = "mail" /\ worker.item = m
  /\ Record([l \in {m} |-> Processed(l)], {})
  /\ attempts' = [attempts EXCEPT ![m] = 0]
  /\ Drop(m)
  /\ UNCHANGED <<imapVars, api, stops>>

\* Mutant of MailFails: the attempt is not counted.
MailFailsUncounted(m) ==
  /\ worker.phase = "mail" /\ worker.item = m
  /\ Drop(m)
  /\ UNCHANGED <<messageVars, noteVars, imapVars, api, stops>>

\* The download fails, or the record is there by now, or anything else raises: the
\* savepoint is rolled back and the attempt is counted.
MailFails(m) ==
  /\ worker.phase = "mail" /\ worker.item = m
  /\ attempts' = [attempts EXCEPT ![m] = @ + 1]
  /\ Drop(m)
  /\ UNCHANGED <<inbox, email, posts, noteVars, imapVars, api, stops>>

Pending == {n \in Note : note[n] = "pending"}

\* update_notification_settings: e-mail is switched off.  What the worker has read by
\* then it sends.
SwitchOff ==
  /\ Pending # {}
  /\ note' = Hushed(Pending)
  /\ UNCHANGED <<messageVars, copies, known, imapVars, worker, api, stops>>

\* The unseen messages of IMAP are next, if there are any; the run is committed at its end.
Proceed(ns) ==
  IF Inbox("IMAP") \subseteq seen
  THEN worker' = Idle /\ note' = Hushed(ns)
  ELSE worker' = [Phase("imap", Inbox("IMAP") \ seen) EXCEPT !.hushed = ns] /\ UNCHANGED note

\* Outbound e-mail is enabled and what is pending is sent, or it is suppressed.
StartSending ==
  /\ worker.phase = "mail" /\ worker.batch = {}
  /\ \/ Pending # {} /\ worker' = Phase("send", Pending) /\ UNCHANGED note
     \/ Proceed(Pending)
  /\ UNCHANGED <<messageVars, copies, known, imapVars, api, stops>>

\* send_notification: the provider takes the message.
Send(n) ==
  /\ worker.phase = "send" /\ worker.item = Nothing /\ n \in worker.batch
  /\ copies' = [copies EXCEPT ![n] = @ + 1]
  /\ Hand(n)
  /\ UNCHANGED <<messageVars, note, known, imapVars, api, stops>>

CommitSent(n) ==
  /\ worker.phase = "send" /\ worker.item = n
  /\ note' = [note EXCEPT ![n] = "sent"]
  /\ known' = known \cup {<<n, copies[n]>>}
  /\ Drop(n)
  /\ UNCHANGED <<messageVars, copies, imapVars, api, stops>>

\* An error before the provider took the message, or after: it is not tried again.
SendFails(n) ==
  /\ worker.phase = "send" /\ n \in worker.batch /\ worker.item \in {Nothing, n}
  /\ note' = [note EXCEPT ![n] = "failed"]
  /\ Drop(n)
  /\ UNCHANGED <<messageVars, copies, known, imapVars, api, stops>>

EndSending ==
  /\ worker.phase = "send" /\ worker.batch = {}
  /\ Proceed({})
  /\ UNCHANGED <<messageVars, copies, known, imapVars, api, stops>>

\* A message is fetched over IMAP, which flags it, and handled.
FetchMail(m) ==
  /\ worker.phase = "imap" /\ Oldest(m)
  /\ seen' = seen \cup {m}
  /\ worker' = [worker EXCEPT !.batch = @ \ {m}, !.draft = IF MessageIsNew(m) THEN @ \cup {m} ELSE @]
  /\ UNCHANGED <<messageVars, noteVars, lost, api, stops>>

\* The run is rolled back.  What it has fetched over IMAP stays flagged.
Abandon(fetched) ==
  /\ worker' = Idle
  /\ seen' = seen \cup fetched
  /\ lost' = lost \cup worker.draft \cup fetched

\* process_message raises in the loop of IMAP, which nothing catches before run_once.
ImapFails(m) ==
  /\ worker.phase = "imap" /\ Oldest(m)
  /\ Abandon({m})
  /\ UNCHANGED <<messageVars, noteVars, api, stops>>

\* The run is committed, unless one of its messages was ingested meanwhile.
CommitImap ==
  /\ worker.phase = "imap" /\ worker.batch = {}
  /\ IF \A m \in worker.draft : MessageIsNew(m)
     THEN /\ Record([m \in worker.draft |-> Processed(m)], worker.hushed)
          /\ worker' = Idle
          /\ UNCHANGED <<attempts, imapVars>>
     ELSE Abandon({}) /\ UNCHANGED <<messageVars, noteVars>>
  /\ UNCHANGED <<api, stops>>

\* The process is stopped, or an error ends the run, with what it has not committed.
StopWorker ==
  /\ worker.phase # "idle" /\ stops < MaxStops
  /\ Abandon({})
  /\ stops' = stops + 1
  /\ UNCHANGED <<messageVars, noteVars, api>>

-----------------------------------------------------------------------------
(* email_ingest.                                                           *)

BeginIngest(m) ==
  /\ api = Nothing /\ inbox[m] # NoMail /\ MessageIsNew(m)
  /\ api' = m
  /\ UNCHANGED <<messageVars, noteVars, imapVars, worker, stops>>

CommitIngest(m) ==
  /\ api = m
  /\ IF MessageIsNew(m)
     THEN (\E handled \in Ingested(m) : Record([l \in {m} |-> handled], {})) /\ UNCHANGED attempts
     ELSE UNCHANGED <<messageVars, noteVars>>
  /\ api' = Nothing
  /\ UNCHANGED <<imapVars, worker, stops>>

-----------------------------------------------------------------------------
WorkerStep ==
  \/ Poll \/ StartSending \/ EndSending \/ CommitImap
  \/ \E m \in Msg : TakeMail(m) \/ CommitMail(m) \/ MailFails(m) \/ FetchMail(m) \/ ImapFails(m)
  \/ \E n \in Note : Send(n) \/ CommitSent(n) \/ SendFails(n)

MailNext ==
  \/ WorkerStep \/ StopWorker \/ SwitchOff
  \/ \E m \in Msg : BeginIngest(m) \/ CommitIngest(m) \/ Arrive(m)

MailSpec == MailInit /\ [][MailNext]_mailVars

\* main: the worker runs again and again, and is restarted when it was stopped.  The mailbox
\* and its credential can be had in the end: no more than MaxStops runs fail for want of them.
MailLiveSpec == MailSpec /\ WF_mailVars(WorkerStep)

-----------------------------------------------------------------------------
(* Properties.                                                             *)

\* ADMIN_GUIDE.md: "deduplicated by Message-ID": a message leaves one entry, in a
\* ticket, exactly if its record says so, whatever failed, was retried or was fed to
\* email_ingest at the same time.
HandledOnce ==
  \A m \in Msg : posts[m] = IF email[m].status \in {"created", "threaded"} THEN 1 ELSE 0

\* What has become of a message.
Fate(m) ==
  IF inbox[m] = NoMail THEN "expected"
  ELSE CASE email[m].status = "none" -> "waiting"
         [] email[m].status \in {"created", "threaded"} -> "entered"
         [] OTHER -> "dismissed"

Box == INSTANCE Mailbox WITH Letters <- Msg, fate <- [m \in Msg |-> Fate(m)], entries <- posts

\* Whatever the worker, its retries, its stops and email_ingest do, together they are a
\* mailbox: each message that arrived is judged at most once, for good, and leaves an entry
\* in the very step that records it as entered.
JudgedOnce == Box!BoxSpec

\* Every message of Microsoft 365 is handled in the end, or left to manual review.  One of
\* IMAP is handled unless it was fetched by a run that was rolled back: it stays flagged,
\* and no run fetches it again.
MailIsHandled ==
  <>[](\A m \in Msg :
         \/ MessageIsNew(m) => inbox[m] = NoMail
         \/ inbox[m].via = "Microsoft 365" /\ attempts[m] = MaxAttempts
         \/ inbox[m].via = "IMAP" /\ m \in lost)
=============================================================================
