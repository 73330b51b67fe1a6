-------------------------- MODULE SelfService_proofs --------------------------
(***************************************************************************)
(* Proofs about SelfService, for any number of threads and versions: what  *)
(* is published, suggested or offered is a text that an administrator chose*)
(* to publish, although articles are written from what was read before     *)
(* other handlers committed; a failed suggestion returns to IT, and the    *)
(* first answer stands.                                                    *)
(***************************************************************************)
EXTENDS MCSelfService, TLAPS

(* The inductive invariant.                                                *)

\* What a handler, and the job, remember.
Writing == [op : {"edit", "publish", "archive"}, read : Article, shown : BOOLEAN]
Sending == [op : {"send"}, ticket : Status]
Answering == [op : {"answer"}, ticket : Status, answer : Answer]
Suggesting == [op : {"evaluate"}, ticket : Status, text : 1 .. MaxVersion, auto : BOOLEAN]
Returning == [op : {"timeout"}, ticket : Status]

Types ==
  /\ ticket \in Status
  /\ attempt \in [status : AttemptStatus, text : 0 .. MaxVersion, expired : BOOLEAN]
  /\ article \in Article
  /\ reviewed \subseteq 1 .. MaxVersion /\ unseen \subseteq 1 .. MaxVersion
  /\ handler \in [Thread -> {Idle} \cup Writing \cup Sending \cup Answering]
  /\ job \in {Idle} \cup Suggesting \cup Returning

\* Every version up to the article's is on record.
Numbered == versions = 1 .. article.version

\* What a handler has read of an article is behind it, or stands but for an archiving,
\* which makes no version.
Behind(read, current) ==
  /\ read.version <= current.version
  /\ read.version = current.version =>
       /\ read.text = current.text
       /\ current.status \in {read.status, "archived"}

ReadBefore ==
  \A t \in Thread : handler[t].op \in {"edit", "publish", "archive"} =>
    /\ Behind(handler[t].read, article)
    /\ handler[t].op # "archive" => handler[t].read.version < MaxVersion

\* Whoever sends, answers or times out has seen the attempt; what the job suggests was
\* published.
Suggestions ==
  /\ \A t \in Thread : handler[t].op \in {"send", "answer"} => attempt.status # "none"
  /\ job.op = "timeout" => attempt.status # "none"
  /\ job.op = "evaluate" => job.text \in Released

Inv == Types /\ Numbered /\ ReadBefore /\ Suggestions /\ OnlyPublishedIsShown

LEMMA InitInv == Init => Inv
<1> SUFFICES ASSUME Init PROVE Inv
  OBVIOUS
<1>0. MaxVersion \in Nat \ {0}
  BY VersionAssumption DEF VersionAssumption
<1>1. Types
  BY <1>0 DEF Init, Types, Status, AttemptStatus, Article, Idle
<1>2. Numbered
  BY DEF Init, Numbered
<1>3. ReadBefore /\ Suggestions
  BY DEF Init, ReadBefore, Suggestions, Idle
<1>4. OnlyPublishedIsShown
  BY DEF Init, OnlyPublishedIsShown
<1> QED BY <1>1, <1>2, <1>3, <1>4 DEF Inv

(* What every step keeps.                                                  *)

\* A handler that begins.
LEMMA Begins ==
  ASSUME Inv, NEW t \in Thread, NEW h \in Writing \cup Sending \cup Answering, Begin(t, h),
         UNCHANGED <<ticket, nextAction, attempt, articleVars, enabled, job>>,
         h.op \in {"edit", "publish", "archive"} =>
           h.read = article /\ (h.op # "archive" => article.version < MaxVersion),
         h.op \in {"send", "answer"} => attempt.status # "none"
  PROVE  Inv'
<1>0. MaxVersion \in Nat \ {0}
  BY VersionAssumption DEF VersionAssumption
<1>1. handler' = [handler EXCEPT ![t] = h]
  BY DEF Begin
<1>2. ticket' = ticket /\ attempt' = attempt /\ article' = article /\ versions' = versions /\ reviewed' = reviewed /\ unseen' = unseen /\ job' = job
  BY DEF articleVars
<1>3. handler' \in [Thread -> {Idle} \cup Writing \cup Sending \cup Answering]
  BY <1>1 DEF Inv, Types
<1>4. \A u \in Thread : handler'[u] = IF u = t THEN h ELSE handler[u]
  BY <1>1 DEF Inv, Types
<1>5. Types' /\ Numbered' /\ OnlyPublishedIsShown'
  BY <1>2, <1>3 DEF Inv, Types, Numbered, OnlyPublishedIsShown, Released
<1>6. ReadBefore'
  <2>1. Behind(article, article)
    BY <1>0 DEF Behind, Inv, Types, Article
  <2> SUFFICES ASSUME NEW u \in Thread, handler'[u].op \in {"edit", "publish", "archive"}
               PROVE  /\ Behind(handler'[u].read, article)
                      /\ handler'[u].op # "archive" => handler'[u].read.version < MaxVersion
    BY <1>2 DEF ReadBefore, Behind
  <2>2. CASE u = t
    BY <1>4, <2>1, <2>2
  <2>3. CASE u # t
    BY <1>4, <2>3 DEF ReadBefore, Inv
  <2> QED BY <2>2, <2>3
<1>7. Suggestions'
  BY <1>2, <1>4 DEF Inv, Suggestions, Released
<1> QED BY <1>5, <1>6, <1>7 DEF Inv

\* A handler that returns remembers nothing, and the others what they did.
LEMMA Returns ==
  ASSUME Types, NEW t \in Thread, Return(t)
  PROVE  /\ handler' \in [Thread -> {Idle} \cup Writing \cup Sending \cup Answering]
         /\ \A u \in Thread : handler'[u].op # "idle" => handler'[u] = handler[u]
<1>1. Idle.op = "idle"
  BY DEF Idle
<1> QED BY <1>1 DEF Types, Return

(* Articles.                                                               *)

\* Versions on record tell whether what was read still stands: a version that is free is
\* the next one.
LEMMA FreeIsNext ==
  ASSUME Inv, NEW t \in Thread, handler[t].op \in {"edit", "publish"},
         ~VersionTaken(handler[t].read.version + 1)
  PROVE  /\ handler[t].read \in Article
         /\ handler[t].read.version = article.version
         /\ handler[t].read.text = article.text
         /\ article.status \in {handler[t].read.status, "archived"}
         /\ article.version + 1 \in 1 .. MaxVersion
<1>0. MaxVersion \in Nat \ {0}
  BY VersionAssumption DEF VersionAssumption
<1>1. handler[t].read \in Article
  <2>1. handler[t] \in {Idle} \cup Writing \cup Sending \cup Answering
    BY DEF Inv, Types
  <2> QED BY <2>1 DEF Idle, Writing, Sending, Answering
<1>2. Behind(handler[t].read, article) /\ handler[t].read.version < MaxVersion
  BY DEF Inv, ReadBefore
<1>3. handler[t].read.version \in 1 .. MaxVersion /\ article.version \in 1 .. MaxVersion
  BY <1>1 DEF Inv, Types, Article
<1>4. handler[t].read.version + 1 \notin 1 .. article.version
  BY DEF VersionTaken, Inv, Numbered
<1>5. handler[t].read.version = article.version
  BY <1>0, <1>2, <1>3, <1>4 DEF Behind
<1> QED BY <1>0, <1>1, <1>2, <1>3, <1>5 DEF Behind

\* A new version puts all handlers behind.
LEMMA NewVersion ==
  ASSUME Inv, NEW t \in Thread, Return(t), article' \in Article, article'.version = article.version + 1,
         versions' = versions \cup {article'.version},
         Released \subseteq Released', reviewed' \subseteq 1 .. MaxVersion, unseen' \subseteq 1 .. MaxVersion,
         UNCHANGED <<ticket, attempt, job>>,
         article'.status = "published" => article'.approved /\ article'.text \in Released'
  PROVE  Inv'
<1>0. MaxVersion \in Nat \ {0}
  BY VersionAssumption DEF VersionAssumption
<1>1. Types'
  BY Returns DEF Inv, Types
<1>2. article.version \in 1 .. MaxVersion
  BY DEF Inv, Types, Article
<1>3. Numbered'
  BY <1>0, <1>2 DEF Inv, Numbered
<1>4. ReadBefore'
  <2> SUFFICES ASSUME NEW u \in Thread, handler'[u].op \in {"edit", "publish", "archive"}
               PROVE  /\ Behind(handler'[u].read, article')
                      /\ handler'[u].op # "archive" => handler'[u].read.version < MaxVersion
    BY DEF ReadBefore
  <2>1. handler'[u] = handler[u]
    BY Returns DEF Inv
  <2>2. /\ Behind(handler[u].read, article)
        /\ handler[u].op # "archive" => handler[u].read.version < MaxVersion
    BY <2>1 DEF Inv, ReadBefore
  <2>3. handler[u].read.version \in 1 .. MaxVersion
    <3>1. handler[u] \in {Idle} \cup Writing \cup Sending \cup Answering
      BY DEF Inv, Types
    <3> QED BY <2>1, <3>1 DEF Idle, Writing, Sending, Answering, Article
  <2>4. Behind(handler[u].read, article')
    BY <1>0, <1>2, <2>2, <2>3 DEF Behind
  <2> QED BY <2>1, <2>2, <2>4
<1>5. Suggestions'
  BY Returns DEF Inv, Suggestions
<1>6. OnlyPublishedIsShown'
  BY DEF Inv, OnlyPublishedIsShown
<1> QED BY <1>1, <1>3, <1>4, <1>5, <1>6 DEF Inv

\* An edited article is not published.
LEMMA Edited == ASSUME Inv, NEW t \in Thread, NEW status \in {"draft", "archived"}, CommitEdit(t, status) PROVE Inv'
<1> DEFINE read == handler[t].read
           s == Column(read.status, status, article.status)
           a == Column(read.approved, FALSE, article.approved)
<1>1. /\ ~VersionTaken(read.version + 1)
      /\ article' = [status |-> s, version |-> read.version + 1, text |-> read.version + 1, approved |-> a]
      /\ versions' = versions \cup {read.version + 1}
      /\ Return(t) /\ UNCHANGED <<ticket, nextAction, attempt, reviewed, unseen, enabled, job>>
  BY DEF CommitEdit
<1>2. /\ read \in Article /\ read.version = article.version
      /\ article.status \in {read.status, "archived"} /\ article.version + 1 \in 1 .. MaxVersion
  BY <1>1, FreeIsNext DEF CommitEdit
<1>3. s \in {"draft", "archived"}
  BY <1>2 DEF Column
<1>4. a \in BOOLEAN
  BY Zenon, <1>2 DEF Column, Inv, Types, Article
<1> HIDE DEF s, a, read
<1>5. article' \in Article /\ article'.version = article.version + 1 /\ article'.status # "published"
  BY <1>1, <1>2, <1>3, <1>4 DEF Article
<1> QED BY <1>1, <1>2, <1>5, NewVersion DEF Inv, Types, Released

\* What is published is the text that was read.
LEMMA Published == ASSUME Inv, NEW t \in Thread, CommitPublish(t) PROVE Inv'
<1> DEFINE read == handler[t].read
           s == Column(read.status, "published", article.status)
<1>1. /\ ~VersionTaken(read.version + 1)
      /\ article' = [article EXCEPT !.status = s, !.version = read.version + 1, !.approved = TRUE]
      /\ versions' = versions \cup {read.version + 1}
      /\ reviewed' = IF handler[t].shown THEN reviewed \cup {read.text} ELSE reviewed
      /\ unseen' = IF handler[t].shown THEN unseen ELSE unseen \cup {read.text}
      /\ Return(t) /\ UNCHANGED <<ticket, nextAction, attempt, enabled, job>>
  BY DEF CommitPublish
<1>2. /\ read \in Article /\ read.version = article.version /\ read.text = article.text
      /\ article.version + 1 \in 1 .. MaxVersion
  BY <1>1, FreeIsNext DEF CommitPublish
<1>3. article \in Article
  BY DEF Inv, Types
<1>4. s \in {"draft", "published", "archived"}
  BY <1>3 DEF Column, Article
<1> HIDE DEF s, read
<1>5. /\ article' \in Article /\ article'.version = article.version + 1
      /\ article'.approved /\ article'.text = article.text
  BY <1>1, <1>2, <1>3, <1>4 DEF Article
<1>6. /\ reviewed' \subseteq 1 .. MaxVersion /\ unseen' \subseteq 1 .. MaxVersion
      /\ Released' = Released \cup {read.text}
  BY <1>1, <1>2 DEF Inv, Types, Article, Released
<1> QED BY <1>1, <1>2, <1>5, <1>6, NewVersion

\* Archiving leaves the version, and what was read of it stands but for the status.
LEMMA Archived == ASSUME Inv, NEW t \in Thread, CommitArchive(t) PROVE Inv'
<1>1. article \in Article
  BY DEF Inv, Types
<1>2. /\ article' = [article EXCEPT !.status = Column(handler[t].read.status, "archived", article.status)]
      /\ Return(t) /\ UNCHANGED <<ticket, nextAction, attempt, versions, reviewed, unseen, enabled, job>>
  BY DEF CommitArchive
<1>3. /\ article' \in Article /\ article'.version = article.version /\ article'.text = article.text
      /\ article'.approved = article.approved
      /\ article'.status \in {article.status, "archived"}
  BY <1>1, <1>2 DEF Column, Article
<1>4. Types' /\ Numbered'
  BY <1>2, <1>3, Returns DEF Inv, Types, Numbered
<1>5. ReadBefore'
  <2> SUFFICES ASSUME NEW u \in Thread, handler'[u].op \in {"edit", "publish", "archive"}
               PROVE  /\ Behind(handler'[u].read, article')
                      /\ handler'[u].op # "archive" => handler'[u].read.version < MaxVersion
    BY DEF ReadBefore
  <2>1. handler'[u] = handler[u]
    BY <1>2, Returns DEF Inv
  <2>2. /\ Behind(handler[u].read, article)
        /\ handler[u].op # "archive" => handler[u].read.version < MaxVersion
    BY <2>1 DEF Inv, ReadBefore
  <2> QED BY <1>3, <2>1, <2>2 DEF Behind
<1>6. Suggestions'
  BY <1>2, Returns DEF Inv, Suggestions, Released
<1>7. OnlyPublishedIsShown'
  BY <1>2, <1>3 DEF Inv, OnlyPublishedIsShown, Released
<1> QED BY <1>4, <1>5, <1>6, <1>7 DEF Inv

(* Everything else leaves the article.                                     *)

LEMMA ArticleKept ==
  ASSUME Inv, ticket' \in Status, UNCHANGED articleVars,
         attempt' \in [status : AttemptStatus, text : 0 .. MaxVersion, expired : BOOLEAN],
         attempt.status # "none" => attempt'.status # "none",
         attempt'.status # "none" => attempt'.text \in Released,
         handler' \in [Thread -> {Idle} \cup Writing \cup Sending \cup Answering],
         \A u \in Thread : handler'[u].op # "idle" => handler'[u] = handler[u],
         job' \in {Idle} \cup Suggesting \cup Returning,
         job'.op = "timeout" => attempt'.status # "none",
         job'.op = "evaluate" => job'.text \in Released
  PROVE  Inv'
<1>1. article' = article /\ versions' = versions /\ reviewed' = reviewed /\ unseen' = unseen
  BY DEF articleVars
<1>2. Types' /\ Numbered'
  BY <1>1 DEF Inv, Types, Numbered
<1>3. ReadBefore'
  BY <1>1 DEF Inv, ReadBefore, Behind
<1>4. Suggestions'
  BY <1>1 DEF Inv, Suggestions, Released
<1>5. OnlyPublishedIsShown'
  BY <1>1 DEF Inv, OnlyPublishedIsShown, Released
<1> QED BY <1>2, <1>3, <1>4, <1>5 DEF Inv

LEMMA AfterIsStatus ==
  ASSUME ticket \in Status, NEW read, NEW new \in Status, NEW after \in TicketAfter(read, new)
  PROVE  after \in Status
BY DEF TicketAfter

\* The attempt in hand.
LEMMA Seen ==
  ASSUME Inv
  PROVE  /\ attempt \in [status : AttemptStatus, text : 0 .. MaxVersion, expired : BOOLEAN]
         /\ ticket \in Status
         /\ attempt.status # "none" => attempt.text \in Released
         /\ Released \subseteq 1 .. MaxVersion
         /\ handler \in [Thread -> {Idle} \cup Writing \cup Sending \cup Answering]
         /\ job \in {Idle} \cup Suggesting \cup Returning
         /\ Idle.op = "idle"
         /\ job.op = "timeout" => attempt.status # "none"
         /\ job.op = "evaluate" => job.text \in Released
BY DEF Inv, Types, OnlyPublishedIsShown, Suggestions, Idle, Released

LEMMA Sent == ASSUME Inv, NEW t \in Thread, CommitSend(t) PROVE Inv'
<1>1. /\ attempt' = [attempt EXCEPT !.status = "offered", !.expired = FALSE]
      /\ ticket' \in TicketAfter(handler[t].ticket, "WaitingUser")
      /\ Return(t) /\ UNCHANGED <<articleVars, enabled, job>>
  BY DEF CommitSend
<1>2. attempt.status # "none"
  BY DEF CommitSend, Inv, Suggestions
<1>3. /\ attempt' \in [status : AttemptStatus, text : 0 .. MaxVersion, expired : BOOLEAN]
      /\ attempt'.status = "offered" /\ attempt'.text = attempt.text
  BY <1>1, Seen DEF AttemptStatus
<1>4. ticket' \in Status
  BY <1>1, Seen, AfterIsStatus DEF Status
<1>5. UNCHANGED articleVars /\ job' = job
  BY <1>1
<1>6. /\ handler' \in [Thread -> {Idle} \cup Writing \cup Sending \cup Answering]
      /\ \A u \in Thread : handler'[u].op # "idle" => handler'[u] = handler[u]
  BY <1>1, Returns DEF Inv
<1> QED BY <1>2, <1>3, <1>4, <1>5, <1>6, Seen, ArticleKept

LEMMA Answered == ASSUME Inv, NEW t \in Thread, CommitAnswer(t) PROVE Inv'
<1>1. /\ attempt' = [attempt EXCEPT !.status = handler[t].answer]
      /\ Return(t) /\ UNCHANGED <<articleVars, enabled, job>>
  BY DEF CommitAnswer
<1>2. attempt.status # "none"
  BY DEF CommitAnswer, Inv, Suggestions
<1>3. handler[t].answer \in Answer
  <2>1. handler[t] \in {Idle} \cup Writing \cup Sending \cup Answering /\ handler[t].op = "answer"
    BY DEF Inv, Types, CommitAnswer
  <2> QED BY <2>1 DEF Idle, Writing, Sending, Answering
<1>4. /\ attempt' \in [status : AttemptStatus, text : 0 .. MaxVersion, expired : BOOLEAN]
      /\ attempt'.status # "none" /\ attempt'.text = attempt.text
  BY <1>1, <1>3, Seen DEF AttemptStatus, Answer
<1>5. ticket' \in Status
  <2>1. \E new \in Status : ticket' \in TicketAfter(handler[t].ticket, new)
    BY DEF CommitAnswer, Status
  <2> QED BY <2>1, Seen, AfterIsStatus
<1>6. UNCHANGED articleVars /\ job' = job
  BY <1>1
<1>7. /\ handler' \in [Thread -> {Idle} \cup Writing \cup Sending \cup Answering]
      /\ \A u \in Thread : handler'[u].op # "idle" => handler'[u] = handler[u]
  BY <1>1, Returns DEF Inv
<1> QED BY <1>2, <1>4, <1>5, <1>6, <1>7, Seen, ArticleKept

LEMMA Quiet ==
  ASSUME Inv, SavePolicy \/ ApprovalDecided \/ TicketMoves \/ UNCHANGED vars
  PROVE  Inv'
<1>1. UNCHANGED <<attempt, articleVars, handler, job>>
  BY DEF SavePolicy, ApprovalDecided, TicketMoves, vars
<1>2. ticket' \in Status
  BY Seen DEF SavePolicy, ApprovalDecided, TicketMoves, vars, Status
<1>3. attempt' = attempt /\ UNCHANGED articleVars /\ handler' = handler /\ job' = job
  BY <1>1
<1> QED BY <1>2, <1>3, Seen, ArticleKept

LEMMA TimePasses == ASSUME Inv, WaitingTimePasses PROVE Inv'
<1>1. /\ attempt' = [attempt EXCEPT !.expired = TRUE]
      /\ ticket' = ticket /\ UNCHANGED articleVars /\ handler' = handler /\ job' = job
  BY DEF WaitingTimePasses
<1>2. /\ attempt' \in [status : AttemptStatus, text : 0 .. MaxVersion, expired : BOOLEAN]
      /\ attempt'.status = attempt.status /\ attempt'.text = attempt.text
  BY <1>1, Seen
<1> QED BY <1>1, <1>2, Seen, ArticleKept

\* The job suggests the text of a published article.
LEMMA JobBegins == ASSUME Inv, BeginTimeout \/ BeginEvaluate PROVE Inv'
<1>1. attempt' = attempt /\ ticket' = ticket /\ UNCHANGED articleVars /\ handler' = handler
  BY DEF BeginTimeout, BeginEvaluate
<1>2. CASE BeginTimeout
  <2>1. job' = [op |-> "timeout", ticket |-> ticket] /\ attempt.status # "none"
    BY <1>2 DEF BeginTimeout, Unanswered
  <2>2. job' \in Returning
    BY <2>1, Seen DEF Returning
  <2> QED BY <1>1, <2>1, <2>2, Seen, ArticleKept
<1>3. CASE BeginEvaluate
  <2>1. article.text \in Released /\ article.approved \in BOOLEAN
    BY <1>3 DEF BeginEvaluate, Matching, Inv, OnlyPublishedIsShown, Types, Article
  <2>2. PICK auto \in {FALSE, article.approved} :
          job' = [op |-> "evaluate", ticket |-> ticket, text |-> article.text, auto |-> auto]
    BY <1>3 DEF BeginEvaluate
  <2>3. auto \in BOOLEAN /\ article.text \in 1 .. MaxVersion
    BY Zenon, <2>1, Seen
  <2>4. job' \in Suggesting /\ job'.text = article.text /\ job'.op = "evaluate"
    BY <2>2, <2>3, Seen DEF Suggesting
  <2> QED BY <1>1, <2>1, <2>4, Seen, ArticleKept
<1> QED BY <1>2, <1>3

LEMMA TimedOut == ASSUME Inv, CommitTimeout PROVE Inv'
<1>1. /\ attempt' = [attempt EXCEPT !.status = "timed_out"] /\ job.op = "timeout"
      /\ ticket' \in IF job.ticket = "WaitingUser" THEN {"WithIT"} ELSE {ticket}
      /\ UNCHANGED articleVars /\ handler' = handler /\ job' = Idle
  BY DEF CommitTimeout
<1>2. /\ attempt' \in [status : AttemptStatus, text : 0 .. MaxVersion, expired : BOOLEAN]
      /\ attempt'.status # "none" /\ attempt'.text = attempt.text
  BY <1>1, Seen DEF AttemptStatus
<1>3. ticket' \in Status
  BY <1>1, Seen DEF Status
<1> QED BY <1>1, <1>2, <1>3, Seen, ArticleKept

LEMMA Evaluated == ASSUME Inv, NEW status \in AttemptStatus, CommitEvaluate(status) PROVE Inv'
<1>1. /\ attempt' = [status |-> status, text |-> job.text, expired |-> FALSE] /\ job.op = "evaluate"
      /\ status \in {"offered", "suppressed", "suggested"}
      /\ UNCHANGED articleVars /\ handler' = handler /\ job' = Idle
  BY DEF CommitEvaluate
<1>2. job.text \in Released /\ job.text \in 0 .. MaxVersion
  <2>1. job.text \in Released /\ job.text \in 1 .. MaxVersion
    BY <1>1, Seen
  <2>2. MaxVersion \in Nat
    BY VersionAssumption DEF VersionAssumption
  <2> QED BY <2>1, <2>2
<1>3. /\ attempt' \in [status : AttemptStatus, text : 0 .. MaxVersion, expired : BOOLEAN]
      /\ attempt'.status # "none" /\ attempt'.text = job.text
  BY <1>1, <1>2
<1>4. ticket' \in Status
  <2>1. ticket' = ticket \/ ticket' \in TicketAfter(job.ticket, "WaitingUser")
    BY DEF CommitEvaluate
  <2> QED BY <2>1, Seen, AfterIsStatus DEF Status
<1> QED BY <1>1, <1>2, <1>3, <1>4, Seen, ArticleKept

LEMMA Stopped == ASSUME Inv, JobFails PROVE Inv'
<1>1. attempt' = attempt /\ ticket' = ticket /\ UNCHANGED articleVars /\ handler' = handler /\ job' = Idle
  BY DEF JobFails
<1> QED BY <1>1, Seen, ArticleKept

LEMMA Conflict == ASSUME Inv, NEW t \in Thread, ArticleConflict(t) PROVE Inv'
<1>1. attempt' = attempt /\ ticket' = ticket /\ UNCHANGED articleVars /\ job' = job /\ Return(t)
  BY DEF ArticleConflict
<1>2. /\ handler' \in [Thread -> {Idle} \cup Writing \cup Sending \cup Answering]
      /\ \A u \in Thread : handler'[u].op # "idle" => handler'[u] = handler[u]
  BY <1>1, Returns DEF Inv
<1> QED BY <1>1, <1>2, Seen, ArticleKept

LEMMA ArticleBegins ==
  ASSUME Inv, NEW t \in Thread, NEW op \in {"edit", "publish", "archive"}, BeginArticle(t, op)
  PROVE  Inv'
<1>1. PICK shown \in BOOLEAN : Begin(t, [op |-> op, read |-> article, shown |-> shown])
  BY DEF BeginArticle, PageShowsText
<1>2. [op |-> op, read |-> article, shown |-> shown] \in Writing
  BY DEF Inv, Types, Writing
<1>3. /\ op # "archive" => article.version < MaxVersion
      /\ UNCHANGED <<ticket, nextAction, attempt, articleVars, enabled, job>>
  BY DEF BeginArticle
<1> QED BY <1>1, <1>2, <1>3, Begins

LEMMA SuggestionBegins ==
  ASSUME Inv, NEW t \in Thread, BeginSend(t) \/ \E answer \in Answer : BeginAnswer(t, answer)
  PROVE  Inv'
<1>1. UNCHANGED <<ticket, nextAction, attempt, articleVars, enabled, job>> /\ attempt.status # "none"
  BY DEF BeginSend, BeginAnswer, Answerable
<1>2. CASE BeginSend(t)
  <2>1. [op |-> "send", ticket |-> ticket] \in Sending
    BY Seen DEF Sending
  <2> QED BY <1>1, <1>2, <2>1, Begins DEF BeginSend
<1>3. ASSUME NEW answer \in Answer, BeginAnswer(t, answer) PROVE Inv'
  <2>1. [op |-> "answer", ticket |-> ticket, answer |-> answer] \in Answering
    BY Seen DEF Answering
  <2> QED BY <1>1, <1>3, <2>1, Begins DEF BeginAnswer
<1> QED BY <1>2, <1>3

LEMMA StepInv == Inv /\ [Next]_vars => Inv'
<1> SUFFICES ASSUME Inv, [Next]_vars PROVE Inv'
  OBVIOUS
<1>1. ASSUME NEW t \in Thread, ArticleStep(t) PROVE Inv'
  BY <1>1, ArticleBegins, Edited, Published, Conflict, Archived DEF ArticleStep
<1>2. ASSUME NEW t \in Thread, SuggestionStep(t) PROVE Inv'
  BY <1>2, SuggestionBegins, Sent, Answered DEF SuggestionStep
<1>3. CommitJob => Inv'
  BY TimedOut, Evaluated DEF CommitJob
<1> QED BY <1>1, <1>2, <1>3, Quiet, TimePasses, JobBegins, Stopped DEF Next

-----------------------------------------------------------------------------
(* The answer.                                                             *)

\* The job looks for a suggestion only while there is none.
Unsuggested == job.op = "evaluate" => attempt.status = "none"

LEMMA UnsuggestedStep == Inv /\ Unsuggested /\ [Next]_vars => Unsuggested'
<1> SUFFICES ASSUME Inv, Unsuggested, [Next]_vars PROVE Unsuggested'
  OBVIOUS
<1>1. \A t \in Thread : handler[t].op \in {"send", "answer"} => attempt.status # "none"
  BY DEF Inv, Suggestions
<1>2. ASSUME NEW t \in Thread, ArticleStep(t) PROVE Unsuggested'
  BY <1>2 DEF ArticleStep, BeginArticle, CommitEdit, CommitPublish, ArticleConflict, CommitArchive, Unsuggested
<1>3. ASSUME NEW t \in Thread, SuggestionStep(t) PROVE Unsuggested'
  BY <1>1, <1>3 DEF SuggestionStep, BeginSend, CommitSend, CommitAnswer, BeginAnswer, Unsuggested
<1>4. CASE SavePolicy \/ ApprovalDecided \/ TicketMoves \/ UNCHANGED vars
  BY <1>4 DEF SavePolicy, ApprovalDecided, TicketMoves, vars, Unsuggested
<1>5. CASE WaitingTimePasses
  BY <1>5 DEF WaitingTimePasses, Unsuggested
<1>6. CASE BeginTimeout \/ BeginEvaluate
  BY <1>6 DEF BeginTimeout, BeginEvaluate, Unsuggested
<1>7. CASE CommitJob \/ JobFails
  BY <1>7 DEF CommitJob, CommitTimeout, CommitEvaluate, JobFails, Unsuggested, Idle
<1> QED BY <1>2, <1>3, <1>4, <1>5, <1>6, <1>7 DEF Next

\* Of the requester and the clock, the first to be recorded has the last word: whoever is
\* to change the suggestion must have found it open.
LEMMA SettledStays ==
  ASSUME Inv, Unsuggested, [Next]_vars, Settled
  PROVE  Settled' /\ attempt'.status = attempt.status
<1>1. /\ attempt.status \notin {"none", "suggested", "offered"} /\ job.op \notin {"timeout", "evaluate"}
      /\ \A t \in Thread : handler[t].op \notin {"send", "answer"}
  BY DEF Settled, Answer, Unsuggested
<1>2. handler \in [Thread -> {Idle} \cup Writing \cup Sending \cup Answering]
  BY DEF Inv, Types
<1>3. ASSUME attempt' = attempt, job' = job, NEW t \in Thread, NEW h, handler' = [handler EXCEPT ![t] = h],
             h.op \notin {"send", "answer"}
      PROVE  Settled' /\ attempt'.status = attempt.status
  <2>1. \A u \in Thread : handler'[u] = IF u = t THEN h ELSE handler[u]
    BY <1>2, <1>3
  <2> QED BY <1>3, <2>1 DEF Settled
<1>4. ASSUME NEW t \in Thread, ArticleStep(t) PROVE Settled' /\ attempt'.status = attempt.status
  <2>1. attempt' = attempt /\ job' = job
    BY <1>4 DEF ArticleStep, BeginArticle, CommitEdit, CommitPublish, ArticleConflict, CommitArchive
  <2>2. CASE Return(t)
    BY <1>3, <2>1, <2>2 DEF Return, Idle
  <2>3. CASE \E op \in {"edit", "publish", "archive"} : BeginArticle(t, op)
    BY <1>3, <2>1, <2>3 DEF BeginArticle, Begin
  <2> QED BY <1>4, <2>2, <2>3 DEF ArticleStep, CommitEdit, CommitPublish, ArticleConflict, CommitArchive
<1>5. ASSUME NEW t \in Thread, SuggestionStep(t) PROVE FALSE
  BY <1>1, <1>5 DEF SuggestionStep, BeginSend, CommitSend, CommitAnswer, BeginAnswer, Answerable
<1>6. CASE SavePolicy \/ ApprovalDecided \/ TicketMoves \/ UNCHANGED vars
  BY <1>6 DEF SavePolicy, ApprovalDecided, TicketMoves, vars, Settled
<1>7. CASE WaitingTimePasses \/ BeginTimeout \/ BeginEvaluate
  BY <1>1, <1>7 DEF WaitingTimePasses, BeginTimeout, Unanswered, BeginEvaluate
<1>8. CASE CommitJob
  BY <1>1, <1>8 DEF CommitJob, CommitTimeout, CommitEvaluate
<1>9. CASE JobFails
  BY <1>9 DEF JobFails, Settled, Idle
<1> QED BY <1>4, <1>5, <1>6, <1>7, <1>8, <1>9 DEF Next

\* The answer that was recorded settles the suggestion.
Recorded == answered # "none" => Settled /\ attempt.status = answered

LEMMA RecordedStep == Inv /\ Unsuggested /\ Recorded /\ [HNext]_<<vars, answered>> => Recorded'
<1> SUFFICES ASSUME Inv, Unsuggested, Recorded, [HNext]_<<vars, answered>> PROVE Recorded'
  OBVIOUS
<1>1. [Next]_vars
  BY DEF HNext
<1>2. CASE HNext
  <2>1. answered' = IF answered = "none" /\ Settled' THEN attempt'.status ELSE answered
    BY <1>2 DEF HNext
  <2>2. CASE answered = "none"
    BY <2>1, <2>2 DEF Recorded
  <2>3. CASE answered # "none"
    BY <1>1, <2>1, <2>3, SettledStays DEF Recorded
  <2> QED BY <2>2, <2>3
<1>3. CASE UNCHANGED <<vars, answered>>
  BY <1>3 DEF Recorded, Settled, vars, articleVars
<1> QED BY <1>2, <1>3

(* What the ticket asks the requester to do.                               *)

LEMMA ReturnedStep == Inv /\ ReturnedToIT /\ [Next]_vars => ReturnedToIT'
<1> SUFFICES ASSUME Inv, ReturnedToIT, [Next]_vars PROVE ReturnedToIT'
  OBVIOUS
<1>0. attempt \in [status : AttemptStatus, text : 0 .. MaxVersion, expired : BOOLEAN]
  BY DEF Inv, Types
<1>1. ASSUME NEW t \in Thread, ArticleStep(t) PROVE ReturnedToIT'
  BY <1>1 DEF ArticleStep, BeginArticle, CommitEdit, CommitPublish, ArticleConflict, CommitArchive, ReturnedToIT
<1>2. ASSUME NEW t \in Thread, CommitSend(t) PROVE ReturnedToIT'
  BY <1>0, <1>2 DEF CommitSend, ReturnedToIT
<1>3. ASSUME NEW t \in Thread, CommitAnswer(t) PROVE ReturnedToIT'
  BY <1>0, <1>3 DEF CommitAnswer, ReturnedToIT
<1>4. ASSUME NEW t \in Thread, BeginSend(t) \/ \E answer \in Answer : BeginAnswer(t, answer) PROVE ReturnedToIT'
  BY <1>4 DEF BeginSend, BeginAnswer, ReturnedToIT
<1>5. CASE SavePolicy \/ ApprovalDecided \/ TicketMoves \/ BeginTimeout \/ BeginEvaluate \/ JobFails \/ UNCHANGED vars
  BY <1>5 DEF SavePolicy, ApprovalDecided, TicketMoves, BeginTimeout, BeginEvaluate, JobFails, vars, ReturnedToIT
<1>6. CASE WaitingTimePasses
  BY <1>0, <1>6 DEF WaitingTimePasses, ReturnedToIT
<1>7. CASE CommitJob
  BY <1>0, <1>7 DEF CommitJob, CommitTimeout, CommitEvaluate, ReturnedToIT
<1> QED BY <1>1, <1>2, <1>3, <1>4, <1>5, <1>6, <1>7 DEF Next, SuggestionStep

-----------------------------------------------------------------------------
(* Theorems.                                                               *)

\* The ticket, its suggestion, the article and its versions, handlers and job hold what
\* their columns and code hold: the article's version is on record, and a suggestion has
\* the text it was made with.
THEOREM SelfServiceTypeCorrect == Spec => []TypeOK
<1> DEFINE Rest == nextAction \in {"other", "try", "followUp"} /\ enabled \in BOOLEAN
<1>1. Init => Inv /\ Rest
  BY InitInv DEF Init
<1>2. Inv /\ Rest /\ [Next]_vars => Inv' /\ Rest'
  <2> SUFFICES ASSUME Inv, Rest, [Next]_vars PROVE Rest'
    BY StepInv
  <2>1. ASSUME NEW t \in Thread, ArticleStep(t) PROVE Rest'
    BY <2>1 DEF ArticleStep, BeginArticle, CommitEdit, CommitPublish, ArticleConflict, CommitArchive
  <2>2. ASSUME NEW t \in Thread, SuggestionStep(t) PROVE Rest'
    BY <2>2 DEF SuggestionStep, BeginSend, CommitSend, CommitAnswer, BeginAnswer
  <2>3. CASE CommitJob
    BY <2>3 DEF CommitJob, CommitTimeout, CommitEvaluate
  <2>4. CASE SavePolicy \/ WaitingTimePasses \/ BeginTimeout \/ BeginEvaluate \/ JobFails \/ ApprovalDecided
             \/ TicketMoves \/ UNCHANGED vars
    BY <2>4 DEF SavePolicy, WaitingTimePasses, BeginTimeout, BeginEvaluate, JobFails, ApprovalDecided, TicketMoves, vars
  <2> QED BY <2>1, <2>2, <2>3, <2>4 DEF Next
<1>3. Inv /\ Rest => TypeOK
  <2> SUFFICES ASSUME Inv, Rest PROVE TypeOK
    OBVIOUS
  <2>1. \A t \in Thread : handler[t].op \in {"idle", "send", "answer", "edit", "publish", "archive"}
    BY DEF Inv, Types, Idle, Writing, Sending, Answering
  <2>2. job.op \in {"idle", "timeout", "evaluate"}
    BY DEF Inv, Types, Idle, Suggesting, Returning
  <2>3. versions \subseteq 1 .. MaxVersion /\ article.version \in versions
    BY VersionAssumption DEF VersionAssumption, Inv, Types, Numbered, Article
  <2>4. attempt.status # "none" => attempt.text # 0
    BY VersionAssumption DEF VersionAssumption, Inv, Types, OnlyPublishedIsShown, Released
  <2> QED BY <2>1, <2>2, <2>3, <2>4 DEF Inv, Types, TypeOK
<1> QED BY <1>1, <1>2, <1>3, PTL DEF Spec

\* Whatever is edited, published and archived at the same time, a text is published,
\* suggested to a technician or offered to a requester only if it stood when an
\* administrator clicked Publish, and was on the page clicked on unless that page had been
\* loaded before the edit that wrote it (publish_article, update_article, evaluate_ticket).
THEOREM PublishedOnly == Spec => []OnlyPublishedIsShown
<1>1. Init => Inv
  BY InitInv
<1>2. Inv /\ [Next]_vars => Inv'
  BY StepInv
<1>3. Inv => OnlyPublishedIsShown
  BY DEF Inv
<1> QED BY <1>1, <1>2, <1>3, PTL DEF Spec

\* A suggestion that failed, was declined or was not answered in time leaves no request to
\* try it with the ticket, whoever moves the ticket meanwhile (record_outcome,
\* return_unanswered_to_it).
THEOREM FailuresReturn == Spec => []ReturnedToIT
<1>1. Init => Inv /\ ReturnedToIT
  BY InitInv DEF Init, ReturnedToIT
<1>2. Inv /\ ReturnedToIT /\ [Next]_vars => Inv' /\ ReturnedToIT'
  BY StepInv, ReturnedStep
<1> QED BY <1>1, <1>2, PTL DEF Spec

\* The first answer, or the time limit, settles a suggestion: a later answer by web or
\* e-mail changes nothing, once those that overlapped are through (record_outcome,
\* return_unanswered_to_it).
THEOREM FirstAnswerStands == HSpec => []AnswerIsFinal
<1>1. HInit => Inv /\ Unsuggested /\ Recorded
  BY InitInv DEF HInit, Init, Unsuggested, Recorded, Idle
<1>2. Inv /\ Unsuggested /\ Recorded /\ [HNext]_<<vars, answered>> => Inv' /\ Unsuggested' /\ Recorded'
  <2>1. [HNext]_<<vars, answered>> => [Next]_vars
    BY DEF HNext
  <2> QED BY <2>1, StepInv, UnsuggestedStep, RecordedStep
<1>3. Recorded => AnswerIsFinal
  BY DEF Recorded, AnswerIsFinal
<1> QED BY <1>1, <1>2, <1>3, PTL DEF HSpec

=============================================================================
