----------------------------- MODULE SelfService -----------------------------
(***************************************************************************)
(* Smart Self-Service (self_service.py, self_service_api.py and the job of *)
(* worker.py): knowledge articles are edited, published and archived; the  *)
(* worker matches an open ticket with a published article and suggests it  *)
(* to the technician or offers it to the requester; the requester answers, *)
(* or the worker returns the ticket to IT when the time is up.             *)
(*                                                                         *)
(* One ticket, one low-risk article.  Handlers and the job read their rows *)
(* without locks and write, when they commit, the columns whose value they *)
(* changed from what they read: other handlers commit in between.          *)
(***************************************************************************)
EXTENDS Integers

CONSTANTS
  Thread,     \* request threads of the server
  MaxVersion  \* bound on the article's version

ASSUME VersionAssumption == MaxVersion \in Nat \ {0}

VARIABLES
  ticket,      \* who has the ticket
  nextAction,  \* its next_action
  attempt,     \* the SelfServiceAttempt, its text and whether waiting_hours are over
  article,     \* the article; its text is named by the version that wrote it
  versions,    \* versions on record, a unique column
  reviewed,    \* texts published from a page that showed them
  unseen,      \* texts published from a page that showed an older one
  enabled,     \* the policy: whether the feature is on; its delivery mode is left open
  handler,     \* request handlers between their read and their commit
  job          \* the worker's job, likewise

articleVars == <<article, versions, reviewed, unseen>>
vars == <<ticket, nextAction, attempt, articleVars, enabled, handler, job>>

\* WithIT: New, Assigned, In Progress; Ended: Resolved, Closed, Cancelled.
Status == {"WithIT", "WaitingUser", "WaitingApproval", "Ended"}
Answer == {"fixed", "not_fixed"}  \* not_fixed stands for live_help too
AttemptStatus == {"none", "suggested", "offered", "suppressed", "timed_out"} \cup Answer
Article == [status : {"draft", "published", "archived"}, version : 1 .. MaxVersion,
            text : 1 .. MaxVersion, approved : BOOLEAN]
Idle == [op |-> "idle"]

TypeOK ==
  /\ ticket \in Status
  /\ nextAction \in {"other", "try", "followUp"}
  /\ attempt \in [status : AttemptStatus, text : 0 .. MaxVersion, expired : BOOLEAN]
  /\ attempt.status # "none" => attempt.text # 0
  /\ article \in Article
  /\ versions \subseteq 1 .. MaxVersion /\ article.version \in versions
  /\ reviewed \subseteq 1 .. MaxVersion /\ unseen \subseteq 1 .. MaxVersion
  /\ enabled \in BOOLEAN
  /\ \A t \in Thread : handler[t].op \in {"idle", "send", "answer", "edit", "publish", "archive"}
  /\ job.op \in {"idle", "timeout", "evaluate"}

\* create_article or draft_from_ticket; the feature is off by default.
Init ==
  /\ ticket \in {"WithIT", "WaitingApproval"}
  /\ nextAction = "other"
  /\ attempt = [status |-> "none", text |-> 0, expired |-> FALSE]
  /\ article = [status |-> "draft", version |-> 1, text |-> 1, approved |-> FALSE]
  /\ versions = {1}
  /\ reviewed = {}
  /\ unseen = {}
  /\ enabled = FALSE
  /\ handler = [t \in Thread |-> Idle]
  /\ job = Idle

-----------------------------------------------------------------------------
(* What a commit leaves in a column that was read as "read".               *)

Column(read, new, current) == IF read = new THEN current ELSE new

\* The same of the ticket's status; WithIT and Ended stand for several values.
TicketAfter(read, new) ==
  IF read # new THEN {new} ELSE IF new = "WaitingUser" THEN {ticket} ELSE {ticket, new}

Begin(t, h) == handler[t] = Idle /\ handler' = [handler EXCEPT ![t] = h]
Return(t) == handler' = [handler EXCEPT ![t] = Idle]

-----------------------------------------------------------------------------
(* Articles.                                                               *)

\* What an administrator who publishes has on screen: the text as it is, or one that was
\* edited since the page was loaded.  The request does not say which.
PageShowsText == IF article.text = 1 THEN {TRUE} ELSE BOOLEAN

BeginArticle(t, op) ==
  /\ op = "publish" => article.status # "archived"
  /\ op # "archive" => article.version < MaxVersion
  /\ \E shown \in IF op = "publish" THEN PageShowsText ELSE {TRUE} :
       Begin(t, [op |-> op, read |-> article, shown |-> shown])
  /\ UNCHANGED <<ticket, nextAction, attempt, articleVars, enabled, job>>

\* Mutant of VersionTaken: (article_id, version) is not unique.
VersionNeverTaken(v) == FALSE

VersionTaken(v) == v \in versions

\* update_article: a new version, to be reviewed again.
CommitEdit(t, status) ==
  /\ handler[t].op = "edit"
  /\ LET read == handler[t].read
         v == read.version + 1
     IN  /\ ~VersionTaken(v)
         /\ article' = [status |-> Column(read.status, status, article.status),
                        version |-> v, text |-> v,
                        approved |-> Column(read.approved, FALSE, article.approved)]
         /\ versions' = versions \cup {v}
  /\ Return(t)
  /\ UNCHANGED <<ticket, nextAction, attempt, reviewed, unseen, enabled, job>>

\* publish_article: whoever clicked has reviewed the text only if the page showed it.
CommitPublish(t) ==
  /\ handler[t].op = "publish"
  /\ LET read == handler[t].read
         v == read.version + 1
     IN  /\ ~VersionTaken(v)
         /\ article' = [article EXCEPT !.status = Column(read.status, "published", @),
                                       !.version = v, !.approved = TRUE]
         /\ versions' = versions \cup {v}
         /\ reviewed' = IF handler[t].shown THEN reviewed \cup {read.text} ELSE reviewed
         /\ unseen' = IF handler[t].shown THEN unseen ELSE unseen \cup {read.text}
  /\ Return(t)
  /\ UNCHANGED <<ticket, nextAction, attempt, enabled, job>>

\* The second of two handlers inserts a version that is there: its transaction fails.
ArticleConflict(t) ==
  /\ handler[t].op \in {"edit", "publish"}
  /\ VersionTaken(handler[t].read.version + 1)
  /\ Return(t)
  /\ UNCHANGED <<ticket, nextAction, attempt, articleVars, enabled, job>>

\* archive_article records no version.
CommitArchive(t) ==
  /\ handler[t].op = "archive"
  /\ article' = [article EXCEPT !.status = Column(handler[t].read.status, "archived", @)]
  /\ Return(t)
  /\ UNCHANGED <<ticket, nextAction, attempt, versions, reviewed, unseen, enabled, job>>

\* admin_save_policy.
SavePolicy ==
  /\ enabled' = ~enabled
  /\ UNCHANGED <<ticket, nextAction, attempt, articleVars, handler, job>>

-----------------------------------------------------------------------------
(* The technician and the requester.                                       *)

BeginSend(t) ==
  /\ attempt.status = "suggested"
  /\ Begin(t, [op |-> "send", ticket |-> ticket])
  /\ UNCHANGED <<ticket, nextAction, attempt, articleVars, enabled, job>>

\* send_technician_suggestion, whatever the ticket's status is.
CommitSend(t) ==
  /\ handler[t].op = "send"
  /\ attempt' = [attempt EXCEPT !.status = "offered", !.expired = FALSE]
  /\ ticket' \in TicketAfter(handler[t].ticket, "WaitingUser")
  /\ nextAction' = "try"
  /\ Return(t)
  /\ UNCHANGED <<articleVars, enabled, job>>

\* Mutants of Answerable: an offer that timed out; a suggestion nobody sent.
AnswerableLate == attempt.status \in {"offered", "timed_out"}

Answerable == attempt.status = "offered"

\* The outcome endpoints, and record_email_outcome.
BeginAnswer(t, answer) ==
  /\ Answerable
  /\ Begin(t, [op |-> "answer", ticket |-> ticket, answer |-> answer])
  /\ UNCHANGED <<ticket, nextAction, attempt, articleVars, enabled, job>>

\* Mutant of CommitAnswer: next_action is left as it is.
CommitAnswerKeepsAction(t) ==
  /\ handler[t].op = "answer"
  /\ attempt' = [attempt EXCEPT !.status = handler[t].answer]
  /\ ticket' \in TicketAfter(handler[t].ticket, IF handler[t].answer = "fixed" THEN "Ended" ELSE "WithIT")
  /\ Return(t)
  /\ UNCHANGED <<nextAction, articleVars, enabled, job>>

\* record_outcome.
CommitAnswer(t) ==
  /\ handler[t].op = "answer"
  /\ attempt' = [attempt EXCEPT !.status = handler[t].answer]
  /\ IF handler[t].answer = "fixed"
     THEN /\ ticket' \in TicketAfter(handler[t].ticket, "Ended")
          /\ UNCHANGED nextAction
     ELSE /\ ticket' \in TicketAfter(handler[t].ticket, "WithIT")
          /\ nextAction' = "followUp"
  /\ Return(t)
  /\ UNCHANGED <<articleVars, enabled, job>>

-----------------------------------------------------------------------------
(* smart_self_service_job: it returns unanswered offers to IT, and looks   *)
(* at open tickets without an attempt; everything is one transaction.      *)

WaitingTimePasses ==
  /\ attempt.status = "offered" /\ ~attempt.expired
  /\ attempt' = [attempt EXCEPT !.expired = TRUE]
  /\ UNCHANGED <<ticket, nextAction, articleVars, enabled, handler, job>>

\* Mutant of Unanswered: only while the ticket waits for the requester.
UnansweredWaiting == attempt.status = "offered" /\ attempt.expired /\ ticket = "WaitingUser"

Unanswered == attempt.status = "offered" /\ attempt.expired

BeginTimeout ==
  /\ job = Idle /\ enabled
  /\ Unanswered
  /\ job' = [op |-> "timeout", ticket |-> ticket]
  /\ UNCHANGED <<ticket, nextAction, attempt, articleVars, enabled, handler>>

\* return_unanswered_to_it.
CommitTimeout ==
  /\ job.op = "timeout"
  /\ attempt' = [attempt EXCEPT !.status = "timed_out"]
  /\ ticket' \in IF job.ticket = "WaitingUser" THEN {"WithIT"} ELSE {ticket}
  /\ nextAction' = "followUp"
  /\ job' = Idle
  /\ UNCHANGED <<articleVars, enabled, handler>>

\* best_match; whether the article applies and scores enough is left open.
Matching == article.status = "published"

\* auto: the policy and the article allow an automatic offer.
BeginEvaluate ==
  /\ job = Idle /\ enabled
  /\ attempt.status = "none"
  /\ ticket # "Ended"
  /\ Matching
  /\ \E auto \in {FALSE, article.approved} :
       job' = [op |-> "evaluate", ticket |-> ticket, text |-> article.text, auto |-> auto]
  /\ UNCHANGED <<ticket, nextAction, attempt, articleVars, enabled, handler>>

\* evaluate_ticket: an offer goes out when notifications and e-mail are on.
CommitEvaluate(status) ==
  /\ job.op = "evaluate"
  /\ status \in IF job.auto THEN {"offered", "suppressed"} ELSE {"suggested"}
  /\ attempt' = [status |-> status, text |-> job.text, expired |-> FALSE]
  /\ IF status = "offered"
     THEN ticket' \in TicketAfter(job.ticket, "WaitingUser") /\ nextAction' = "try"
     ELSE UNCHANGED <<ticket, nextAction>>
  /\ job' = Idle
  /\ UNCHANGED <<articleVars, enabled, handler>>

\* An error, or a stop of the service, rolls the job back.
JobFails ==
  /\ job # Idle
  /\ job' = Idle
  /\ UNCHANGED <<ticket, nextAction, attempt, articleVars, enabled, handler>>

-----------------------------------------------------------------------------
(* The ticket's other handlers (main.py).                                  *)

\* decide_approval is all that moves a ticket that waits for approval, except
\* for update_ticket, close_ticket_from_requester_message and the like.
ApprovalDecided ==
  /\ ticket = "WaitingApproval"
  /\ ticket' \in {"WithIT", "Ended"}
  /\ UNCHANGED <<nextAction, attempt, articleVars, enabled, handler, job>>

\* update_ticket, bulk_update, add_message, confirm_resolution, reopen.
TicketMoves ==
  /\ ticket # "WaitingApproval"
  /\ ticket' \in {"WithIT", "WaitingUser", "Ended"} \ {ticket}
  /\ nextAction' \in {nextAction, "other"}
  /\ UNCHANGED <<attempt, articleVars, enabled, handler, job>>

ArticleStep(t) ==
  \/ \E op \in {"edit", "publish", "archive"} : BeginArticle(t, op)
  \/ \E status \in {"draft", "archived"} : CommitEdit(t, status)
  \/ CommitPublish(t) \/ ArticleConflict(t) \/ CommitArchive(t)

SuggestionStep(t) ==
  \/ BeginSend(t) \/ CommitSend(t) \/ CommitAnswer(t)
  \/ \E answer \in Answer : BeginAnswer(t, answer)

CommitJob == CommitTimeout \/ \E status \in AttemptStatus : CommitEvaluate(status)

Next ==
  \/ \E t \in Thread : ArticleStep(t) \/ SuggestionStep(t)
  \/ SavePolicy \/ WaitingTimePasses \/ BeginTimeout \/ BeginEvaluate \/ CommitJob \/ JobFails
  \/ ApprovalDecided \/ TicketMoves

Spec == Init /\ [][Next]_vars

(* Time passes, the worker runs every minute, and it does not fail for     *)
(* ever.  Nobody has to answer.                                            *)
LiveSpec ==
  /\ Spec
  /\ WF_vars(WaitingTimePasses)
  /\ SF_vars(BeginTimeout)
  /\ SF_vars(CommitTimeout)

-----------------------------------------------------------------------------
(* Properties.                                                             *)

\* The texts that were published.
Released == reviewed \cup unseen

\* A text is published, and reaches a technician or a requester, only if an administrator
\* clicked Publish while it was the article's text.  An edit, an archiving or a second
\* publication after the click, and a job that works on what it read before, never put out
\* another one.  ADMIN_GUIDE.md says more, "review their requester-facing steps, and
\* publish them", but publish_article is not told which text was on the page, so one that
\* was edited after the page was loaded goes out too (unseen).
OnlyPublishedIsShown ==
  /\ article.status = "published" => article.approved /\ article.text \in Released
  /\ attempt.status # "none" => attempt.text \in Released

\* TECHNICIAN_GUIDE.md: "A failed, declined, or unanswered suggestion returns the
\* ticket to IT": the requester is no longer asked to try it.
ReturnedToIT == attempt.status \in {"not_fixed", "timed_out"} => nextAction # "try"

\* While the feature stays on, no offer stays open for ever.
OfferIsSettled ==
  <>[]enabled => (attempt.status = "offered" ~> attempt.status # "offered")
=============================================================================
