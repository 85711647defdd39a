-------------------------- MODULE ResponseRecorder --------------------------
(***************************************************************************)
(* ms-response: the answers and the verdicts on the topic quizz.events     *)
(* become rows of table response.  An event is handled under an entry in   *)
(* processed_events; the question an answer is for and the quiz it is      *)
(* judged by are read from Valkey, and recovered from ms-session and       *)
(* ms-quizz-management when they are missing there.                        *)
(*                                                                         *)
(* The same handleAnswer serves POST /responses/response beside the        *)
(* consumer.  ms-session appears as far as its row and its events go: a    *)
(* request of the host decides on the row it has found, updates the row as *)
(* it is by then, and publishes.  One session, one partition.              *)
(***************************************************************************)
EXTENDS Integers, Sequences, FiniteSets

CONSTANTS
  Players,      \* participants of the session
  Requests,     \* concurrent HTTP handlers of ms-response
  HostRequests, \* concurrent requests of the host to ms-session
  HostOps,      \* what the host does in this instance
  MaxQuestion,  \* questions of the quiz
  Buzzers,      \* the questions of type buzzer
  Multiple,     \* the questions of type multiple: several choices at once
  MaxEvents,    \* bound on the events of the topic
  MaxPosts,     \* bound on HTTP requests
  MaxFaults,    \* bound on failed PostgreSQL, HTTP and Kafka operations
  MaxOutages,   \* bound on failed Valkey commands
  MaxExpired,   \* bound on expired keys and on copies left by the quiz service
  MaxCrashes    \* bound on crashes of ms-response

Questions == 1..MaxQuestion
None      == 0               \* no question

ASSUME RequestsType == "consumer" \notin Requests
ASSUME HostOpsType == HostOps \subseteq {"start", "next", "end", "delete", "judge"}
ASSUME QuizType ==
  /\ MaxQuestion \in Nat \ {0}
  /\ Buzzers \subseteq Questions
  /\ Multiple \subseteq Questions
ASSUME BoundsType ==
  /\ MaxEvents \in Nat \ {0}
  /\ MaxPosts \in Nat
  /\ MaxFaults \in Nat
  /\ MaxOutages \in Nat
  /\ MaxExpired \in Nat
  /\ MaxCrashes \in Nat

VARIABLES
  session,    \* the row of ms-session
  shown,      \* history: the questions the row has had
  host,       \* host[r]: what request r of the host still has to do
  pending,    \* pending[p]: choices p's submitResponse still has to publish
  asked,      \* who has answered or pressed, per question
  topic,      \* quizz.events
  work,       \* work[h]: the event handler h works on
  resolved,   \* offset up to which the running consumer has got
  committed,  \* offset a restarted consumer resumes from
  processed,  \* table processed_events: offsets
  responses,  \* table response
  quizKey,    \* is sessionQuizId:<session> set
  current,    \* currentSessionQuestion:<session>, None when unset
  copy,       \* quiz:<id>, which ms-quizz-management writes as well
  missed,     \* history: offsets passed over by a restart
  cleared,    \* history: have the rows of the session been deleted
  posts, faults, outages, expired, crashes   \* counters for the bounds

upstream == <<session, shown, host, pending, asked, topic>>
offsets  == <<resolved, committed, processed, missed>>
table    == <<responses, cleared>>
valkey   == <<quizKey, current, copy>>
bounds   == <<posts, faults, outages, expired, crashes>>
vars     == <<upstream, work, offsets, table, valkey, bounds>>

Handlers == {"consumer"} \cup Requests

Choice   == [question : Questions, correct : BOOLEAN]
NoChoice == [question |-> None, correct |-> FALSE]     \* a verdict's choice
Answer   == [type : {"answer"}, player : Players, choice : Choice]
Verdict  == [type : {"verdict"}, player : Players, correct : BOOLEAN]
Event ==
  [type : {"created", "started", "ended", "deleted"}]
  \cup [type : {"next"}, question : Questions]
  \cup Answer \cup Verdict
Asked == [type : {"clear", "fetch"}]      \* HTTP requests of other kinds

Response == [offset   : Nat,              \* history: 0 for an HTTP request
             player   : Players,
             question : Questions,
             choice   : Choice \cup {NoChoice},
             correct  : BOOLEAN]

\* Steps are named for the await the handler is at.
Step == {"setQuiz", "setFirst", "setNext", "delRows", "delQuiz", "delCurrent",
         "getCurrent", "getSession", "getCopy", "getQuiz", "keepQuiz",
         "keepCurrent", "getAgain", "findExisting", "getQuizKey", "judge",
         "create", "record"}
Idle == [step |-> "idle"]
Work == [step     : Step,
         event    : Event \cup Asked,
         offset   : Nat,
         question : Questions \cup {None},    \* questionId
         found    : Questions \cup {None},    \* the session's question
         back     : {"getAgain", "judge", "throw"}]  \* after handleQuizNotFound

Status == {"LOBBY", "QUESTION_ACTIVE", "FINISHED", "ABSENT"}
SessionRow == [status : Status, question : Questions \cup {None}]

\* A request of the host: the update it makes, None where it leaves the
\* question alone, and the events it publishes then.
Resting == [step |-> "idle"]
HostWork == [step : {"save", "publish"}, status : Status,
             question : Questions \cup {None}, events : Seq(Event)]

TypeOK ==
  /\ session \in SessionRow
  /\ shown \subseteq Questions
  /\ host \in [HostRequests -> HostWork \cup {Resting}]
  /\ pending \in [Players -> SUBSET Choice]
  /\ asked \subseteq Questions \X Players
  /\ topic \in Seq(Event)
  /\ work \in [Handlers -> Work \cup {Idle}]
  /\ resolved \in Nat
  /\ committed \in Nat
  /\ processed \subseteq Nat
  /\ responses \in Seq(Response)
  /\ quizKey \in BOOLEAN
  /\ current \in Questions \cup {None}
  /\ copy \in {"none", "full", "plain"}
  /\ missed \subseteq Nat
  /\ cleared \in BOOLEAN
  /\ posts \in 0..MaxPosts
  /\ faults \in 0..MaxFaults
  /\ outages \in 0..MaxOutages
  /\ expired \in 0..MaxExpired
  /\ crashes \in 0..MaxCrashes

\* createSession has published SESSION_CREATED.
Init ==
  /\ session = [status |-> "LOBBY", question |-> None]
  /\ shown = {}
  /\ host = [r \in HostRequests |-> Resting]
  /\ pending = [p \in Players |-> {}]
  /\ asked = {}
  /\ topic = <<[type |-> "created"]>>
  /\ work = [h \in Handlers |-> Idle]
  /\ resolved = 0
  /\ committed = 0
  /\ processed = {}
  /\ responses = <<>>
  /\ quizKey = FALSE
  /\ current = None
  /\ copy = "none"
  /\ missed = {}
  /\ cleared = FALSE
  /\ posts = 0
  /\ faults = 0
  /\ outages = 0
  /\ expired = 0
  /\ crashes = 0

----------------------------------------------------------------------------
\* A PostgreSQL, HTTP or Kafka operation fails; a Valkey command fails.
Fault  == faults < MaxFaults /\ faults' = faults + 1
Outage == outages < MaxOutages /\ outages' = outages + 1
NoOutage == UNCHANGED outages
otherBounds == <<posts, faults, expired, crashes>>

----------------------------------------------------------------------------
(* ms-session: a request of the host finds the row, updates it without     *)
(* looking again and publishes its events then, with other requests in     *)
(* between; a player's submission captures the question and publishes one  *)
(* event per choice, whatever has happened meanwhile.                      *)

HostFind(r, op, step, status, question, events) ==
  /\ op \in HostOps
  /\ Len(topic) < MaxEvents
  /\ host[r] = Resting
  /\ host' = [host EXCEPT ![r] = [step |-> step, status |-> status,
                                 question |-> question, events |-> events]]
  /\ UNCHANGED <<session, shown, pending, topic, work, offsets, table, valkey,
                 bounds>>

HostStart(r) ==
  /\ session.status = "LOBBY"
  /\ HostFind(r, "start", "save", "QUESTION_ACTIVE", 1,
              <<[type |-> "started"], [type |-> "next", question |-> 1]>>)
  /\ UNCHANGED asked

\* The event that announces the question after the one found.
NextEvent == [type |-> "next", question |-> session.question + 1]

\* Mutant: no look at the number of questions.
HostPastLast(r) ==
  /\ session.status = "QUESTION_ACTIVE"
  /\ HostFind(r, "next", "save", "QUESTION_ACTIVE", session.question + 1,
              <<NextEvent>>)
  /\ UNCHANGED asked

\* Mutant: announced without the row being updated.
HostNextUnsaved(r) ==
  /\ session.status = "QUESTION_ACTIVE"
  /\ session.question < MaxQuestion
  /\ HostFind(r, "next", "publish", "QUESTION_ACTIVE", session.question + 1,
              <<NextEvent>>)
  /\ UNCHANGED asked

\* At the last question it goes on as an end, which finds the session again.
HostNext(r) ==
  /\ session.status = "QUESTION_ACTIVE"
  /\ session.question < MaxQuestion
  /\ HostFind(r, "next", "save", "QUESTION_ACTIVE", session.question + 1,
              <<NextEvent>>)
  /\ UNCHANGED asked

\* Whatever its status.
HostEnd(r) ==
  /\ session.status # "ABSENT"
  /\ HostFind(r, "end", "save", "FINISHED", None, <<[type |-> "ended"]>>)
  /\ UNCHANGED asked

HostDelete(r) ==
  /\ session.status # "ABSENT"
  /\ HostFind(r, "delete", "save", "ABSENT", None, <<[type |-> "deleted"]>>)
  /\ UNCHANGED asked

\* The verdict names no question, and changes nothing of the row.
HostJudge(r, p, correct) ==
  /\ session.status = "QUESTION_ACTIVE"
  /\ session.question \in Buzzers
  /\ <<session.question, p>> \notin asked
  /\ asked' = asked \cup {<<session.question, p>>}
  /\ HostFind(r, "judge", "publish", session.status, None,
              <<[type |-> "verdict", player |-> p, correct |-> correct]>>)

\* The row as the update leaves it; the update of a deleted row has no effect.
Updated(update) ==
  IF session.status = "ABSENT" THEN session
  ELSE [status   |-> update.status,
        question |-> IF update.question = None THEN session.question
                     ELSE update.question]

\* Nothing is published when the reply is lost after the commit, or when the
\* clearing of the buzzer queue beside it is rejected.
HostSave(r) ==
  /\ host[r] # Resting /\ host[r].step = "save"
  /\ session' = Updated(host[r])
  /\ shown' = shown \cup ({session'.question} \ {None})
  /\ \/ host' = [host EXCEPT ![r].step = "publish"] /\ UNCHANGED faults
     \/ host' = [host EXCEPT ![r] = Resting] /\ Fault
  /\ UNCHANGED <<pending, asked, topic, work, offsets, table, valkey, posts,
                 outages, expired, crashes>>

HostPublish(r) ==
  /\ host[r] # Resting /\ host[r].step = "publish"
  /\ Len(topic) < MaxEvents
  /\ topic' = Append(topic, Head(host[r].events))
  /\ LET rest == Tail(host[r].events)
     IN host' = [host EXCEPT ![r] = IF rest = <<>> THEN Resting
                                   ELSE [host[r] EXCEPT !.events = rest]]
  /\ UNCHANGED <<session, shown, pending, asked, work, offsets, table, valkey,
                 bounds>>

\* An update is refused, or an event cannot be published.
HostFails(r) ==
  /\ host[r] # Resting
  /\ host' = [host EXCEPT ![r] = Resting]
  /\ Fault
  /\ UNCHANGED <<session, shown, pending, asked, topic, work, offsets, table,
                 valkey, posts, outages, expired, crashes>>

Answers(q) ==
  LET choices == {choice \in Choice : choice.question = q}
  IN {some \in SUBSET choices :
        some # {} /\ (q \in Multiple \/ Cardinality(some) = 1)}

PlayerSubmit(p) ==
  /\ session.status = "QUESTION_ACTIVE"
  /\ session.question \notin Buzzers
  /\ <<session.question, p>> \notin asked
  /\ pending[p] = {}
  /\ Len(topic) < MaxEvents
  /\ \E some \in Answers(session.question) :
       pending' = [pending EXCEPT ![p] = some]
  /\ asked' = asked \cup {<<session.question, p>>}
  /\ UNCHANGED <<session, shown, host, topic, work, offsets, table, valkey,
                 bounds>>

PlayerPublish(p) ==
  /\ Len(topic) < MaxEvents
  /\ \E choice \in pending[p] :
       /\ topic' = Append(topic, [type |-> "answer", player |-> p,
                                  choice |-> choice])
       /\ pending' = [pending EXCEPT ![p] = @ \ {choice}]
  /\ UNCHANGED <<session, shown, host, asked, work, offsets, table, valkey,
                 bounds>>

----------------------------------------------------------------------------
(* Handlers                                                                *)

At(h, step) == work[h] # Idle /\ work[h].step = step
Goto(h, step) == work' = [work EXCEPT ![h].step = step]
Throw(h)      == work' = [work EXCEPT ![h] = Idle]

\* What an event, or a request, is first at.
FirstStep(type) ==
  CASE type = "created"               -> "setQuiz"
    [] type = "next"                  -> "setNext"
    [] type = "ended"                 -> "delQuiz"
    [] type \in {"answer", "verdict"} -> "getCurrent"
    [] type = "clear"                 -> "delRows"
    [] type = "fetch"                 -> "getCopy"
    [] OTHER                          -> "record"

Started(event, offset) ==
  [step |-> FirstStep(event.type), event |-> event, offset |-> offset,
   question |-> None, found |-> None, back |-> "getAgain"]

Pending == resolved + 1      \* offset of the event being handled

\* The next event, unless it is in processed_events.  A failed look-up
\* rethrows and changes nothing.
Deliver ==
  /\ work["consumer"] = Idle
  /\ resolved < Len(topic)
  /\ IF Pending \in processed
     THEN resolved' = Pending /\ UNCHANGED work
     ELSE /\ work' = [work EXCEPT !["consumer"] =
                        Started(topic[Pending], Pending)]
          /\ UNCHANGED resolved
  /\ UNCHANGED <<upstream, committed, processed, missed, table, valkey,
                 bounds>>

\* HTTP: an answer or a verdict, DELETE of the session's rows, or the fetching
\* of a quiz.
Post(r) ==
  /\ work[r] = Idle
  /\ posts < MaxPosts
  /\ posts' = posts + 1
  /\ \E event \in Answer \cup Verdict \cup Asked :
       work' = [work EXCEPT ![r] = Started(event, 0)]
  /\ UNCHANGED <<upstream, offsets, table, valkey, faults, outages, expired,
                 crashes>>

\* Mutant: the error is logged and not rethrown.
FailLogged(h) ==
  /\ \E step \in {"getQuiz", "delRows", "getSession", "findExisting",
                  "create", "record"} : At(h, step)
  /\ Fault
  /\ Throw(h)
  /\ resolved' = IF h = "consumer" THEN Pending ELSE resolved
  /\ UNCHANGED <<upstream, committed, processed, missed, table, valkey, posts,
                 outages, expired, crashes>>

\* A failed operation ends the handler; the consumer will be given the same
\* event again.
Fail(h) ==
  /\ \E step \in {"getQuiz", "delRows", "getSession", "findExisting",
                  "create", "record"} : At(h, step)
  /\ Fault
  /\ Throw(h)
  /\ UNCHANGED <<upstream, offsets, table, valkey, posts, outages, expired,
                 crashes>>

----------------------------------------------------------------------------
(* startNewSession, gotoNextQuestion, clearSessionCache, clearSession.     *)
(* ValkeyRepository swallows the failures of set and del.                  *)

SetQuiz(h) ==
  /\ At(h, "setQuiz")
  /\ Goto(h, "getCopy")
  /\ \/ quizKey' = TRUE /\ NoOutage
     \/ Outage /\ UNCHANGED quizKey
  /\ UNCHANGED <<upstream, offsets, table, current, copy, otherBounds>>

\* The types of the questions, which only the leaderboard reads, and the
\* first question.
SetFirst(h) ==
  /\ At(h, "setFirst")
  /\ Goto(h, "record")
  /\ \/ current' = 1 /\ NoOutage
     \/ Outage /\ UNCHANGED current
  /\ UNCHANGED <<upstream, offsets, table, quizKey, copy, otherBounds>>

SetNext(h) ==
  /\ At(h, "setNext")
  /\ Goto(h, "record")
  /\ \/ current' = work[h].event.question /\ NoOutage
     \/ Outage /\ UNCHANGED current
  /\ UNCHANGED <<upstream, offsets, table, quizKey, copy, otherBounds>>

DelRows(h) ==
  /\ At(h, "delRows")
  /\ responses' = <<>>
  /\ cleared' = TRUE
  /\ Goto(h, "delQuiz")
  /\ UNCHANGED <<upstream, offsets, valkey, bounds>>

DelQuiz(h) ==
  /\ At(h, "delQuiz")
  /\ Goto(h, "delCurrent")
  /\ \/ quizKey' = FALSE /\ NoOutage
     \/ Outage /\ UNCHANGED quizKey
  /\ UNCHANGED <<upstream, offsets, table, current, copy, otherBounds>>

DelCurrent(h) ==
  /\ At(h, "delCurrent")
  /\ IF h = "consumer" THEN Goto(h, "record") ELSE Throw(h)
  /\ \/ current' = None /\ NoOutage
     \/ Outage /\ UNCHANGED current
  /\ UNCHANGED <<upstream, offsets, table, quizKey, copy, otherBounds>>

----------------------------------------------------------------------------
(* fetchQuizz, on behalf of startNewSession, handleQuizNotFound or a       *)
(* request                                                                 *)

Fetched(h) ==
  CASE work[h].event.type = "created" -> Goto(h, "setFirst")
    [] work[h].event.type = "fetch"   -> Throw(h)
    [] OTHER                          -> Goto(h, "keepQuiz")

GetCopy(h) ==
  /\ At(h, "getCopy")
  /\ \/ copy = "full" /\ Fetched(h) /\ NoOutage
     \/ copy # "full" /\ Goto(h, "getQuiz") /\ NoOutage
     \/ Goto(h, "getQuiz") /\ Outage
  /\ UNCHANGED <<upstream, offsets, table, valkey, otherBounds>>

\* Mutant: the quiz fetched is not kept.
GetQuizOnly(h) ==
  /\ At(h, "getQuiz")
  /\ Fetched(h)
  /\ UNCHANGED <<upstream, offsets, table, valkey, bounds>>

GetQuiz(h) ==
  /\ At(h, "getQuiz")
  /\ Fetched(h)
  /\ \/ copy' = "full" /\ NoOutage
     \/ Outage /\ UNCHANGED copy
  /\ UNCHANGED <<upstream, offsets, table, quizKey, current, otherBounds>>

----------------------------------------------------------------------------
(* handleQuizNotFound                                                      *)

Recover(h, back) ==
  work' = [work EXCEPT ![h].step = "getSession", ![h].back = back]

\* The session as ms-session has it now; a deleted one is an error.
GetSession(h) ==
  /\ At(h, "getSession")
  /\ IF session.status = "ABSENT"
     THEN Throw(h)
     ELSE work' = [work EXCEPT ![h].found = session.question,
                               ![h].step = "getCopy"]
  /\ UNCHANGED <<upstream, offsets, table, valkey, bounds>>

KeepQuiz(h) ==
  /\ At(h, "keepQuiz")
  /\ Goto(h, "keepCurrent")
  /\ \/ quizKey' = TRUE /\ NoOutage
     \/ Outage /\ UNCHANGED quizKey
  /\ UNCHANGED <<upstream, offsets, table, current, copy, otherBounds>>

KeepCurrent(h) ==
  /\ At(h, "keepCurrent")
  /\ IF work[h].back = "throw" THEN Throw(h) ELSE Goto(h, work[h].back)
  /\ \/ current' = work[h].found /\ NoOutage
     \/ Outage /\ UNCHANGED current
  /\ UNCHANGED <<upstream, offsets, table, quizKey, copy, otherBounds>>

----------------------------------------------------------------------------
(* handleAnswer                                                            *)

\* The question is the current one; a verdict goes straight to its row.
WithQuestion(h) ==
  work' = [work EXCEPT ![h].question = current,
                       ![h].step = IF work[h].event.type = "verdict"
                                   THEN "create" ELSE "findExisting"]

GetCurrent(h) ==
  /\ At(h, "getCurrent")
  /\ \/ current # None /\ WithQuestion(h) /\ NoOutage
     \/ current = None /\ Recover(h, "getAgain") /\ NoOutage
     \/ Outage /\ Recover(h, "getAgain")
  /\ UNCHANGED <<upstream, offsets, table, valkey, otherBounds>>

\* QUIZ_NOT_FOUND when recovery did not help.
GetAgain(h) ==
  /\ At(h, "getAgain")
  /\ \/ current # None /\ WithQuestion(h) /\ NoOutage
     \/ current = None /\ Throw(h) /\ NoOutage
     \/ Outage /\ Throw(h)
  /\ UNCHANGED <<upstream, offsets, table, valkey, otherBounds>>

\* Mutant: the duplicate is not looked for.
FindNothing(h) ==
  /\ At(h, "findExisting")
  /\ Goto(h, "getQuizKey")
  /\ UNCHANGED <<upstream, offsets, table, valkey, bounds>>

\* ALREADY_ANSWERED is an error as any other.
FindExisting(h) ==
  /\ At(h, "findExisting")
  /\ IF \E i \in DOMAIN responses :
          /\ responses[i].player = work[h].event.player
          /\ responses[i].question = work[h].question
     THEN Throw(h)
     ELSE Goto(h, "getQuizKey")
  /\ UNCHANGED <<upstream, offsets, table, valkey, bounds>>

GetQuizKey(h) ==
  /\ At(h, "getQuizKey")
  /\ \/ quizKey /\ Goto(h, "judge") /\ NoOutage
     \/ ~ quizKey /\ Recover(h, "judge") /\ NoOutage
     \/ Outage /\ Recover(h, "judge")
  /\ UNCHANGED <<upstream, offsets, table, valkey, otherBounds>>

\* Mutant: the choice is looked for in the whole quiz.
JudgeAnywhere(h) ==
  /\ At(h, "judge")
  /\ \/ copy = "full" /\ Goto(h, "create") /\ NoOutage
     \/ copy = "plain" /\ Throw(h) /\ NoOutage
     \/ copy = "none" /\ Recover(h, "throw") /\ NoOutage
     \/ Outage /\ Recover(h, "throw")
  /\ UNCHANGED <<upstream, offsets, table, valkey, otherBounds>>

\* The choice must be one of the question.  A copy without questions is an
\* error; for a missing one handleQuizNotFound returns the id of the quiz,
\* which has no questions either.
Judge(h) ==
  LET fits == work[h].event.choice.question = work[h].question
  IN /\ At(h, "judge")
     /\ \/ copy = "full" /\ fits /\ Goto(h, "create") /\ NoOutage
        \/ copy = "full" /\ ~ fits /\ Throw(h) /\ NoOutage
        \/ copy = "plain" /\ Throw(h) /\ NoOutage
        \/ copy = "none" /\ Recover(h, "throw") /\ NoOutage
        \/ Outage /\ Recover(h, "throw")
     /\ UNCHANGED <<upstream, offsets, table, valkey, otherBounds>>

ResponseOf(w) ==
  [offset |-> w.offset, player |-> w.event.player, question |-> w.question,
   choice |-> IF w.event.type = "answer" THEN w.event.choice ELSE NoChoice,
   correct |-> IF w.event.type = "answer" THEN w.event.choice.correct
               ELSE w.event.correct]

Create(h) ==
  /\ At(h, "create")
  /\ responses' = Append(responses, ResponseOf(work[h]))
  /\ IF h = "consumer" THEN Goto(h, "record") ELSE Throw(h)
  /\ UNCHANGED <<upstream, offsets, cleared, valkey, bounds>>

\* The entry in processed_events; the client goes on to the next event.
Record ==
  /\ At("consumer", "record")
  /\ processed' = processed \cup {Pending}
  /\ resolved' = Pending
  /\ Throw("consumer")
  /\ UNCHANGED <<upstream, committed, missed, table, valkey, bounds>>

----------------------------------------------------------------------------
(* What happens around the handlers                                        *)

\* Only a restart reads the committed offset.
CommitOffset ==
  /\ crashes < MaxCrashes
  /\ committed # resolved
  /\ committed' = resolved
  /\ UNCHANGED <<upstream, work, resolved, processed, missed, table, valkey,
                 bounds>>

\* Keys expire, and ms-quizz-management deletes quiz:<id> on an edit.
Expired == expired < MaxExpired /\ expired' = expired + 1

ExpireQuizKey ==
  /\ quizKey /\ quizKey' = FALSE
  /\ Expired
  /\ UNCHANGED <<upstream, work, offsets, table, current, copy, posts, faults,
                 outages, crashes>>

ExpireCurrent ==
  /\ current # None /\ current' = None
  /\ Expired
  /\ UNCHANGED <<upstream, work, offsets, table, quizKey, copy, posts, faults,
                 outages, crashes>>

ExpireCopy ==
  /\ copy # "none" /\ copy' = "none"
  /\ IF copy = "plain" THEN UNCHANGED expired ELSE Expired
  /\ UNCHANGED <<upstream, work, offsets, table, quizKey, current, posts,
                 faults, outages, crashes>>

\* ms-quizz-management keeps its own quiz, without questions, under the same
\* key (getQuizById, when it finds nothing there).
OtherCopy ==
  /\ copy = "none" /\ copy' = "plain"
  /\ Expired
  /\ UNCHANGED <<upstream, work, offsets, table, quizKey, current, posts,
                 faults, outages, crashes>>

\* ms-response dies and restarts: from the committed offset, or from the end
\* of the topic when there is none (fromBeginning: false).
Crash ==
  /\ crashes < MaxCrashes
  /\ crashes' = crashes + 1
  /\ work' = [h \in Handlers |-> Idle]
  /\ resolved' = IF committed = 0 THEN Len(topic) ELSE committed
  /\ missed' = missed \cup (Pending..resolved')
  /\ UNCHANGED <<upstream, committed, processed, table, valkey, posts, faults,
                 outages, expired>>

SessionService ==
  \/ \E r \in HostRequests :
       \/ HostStart(r) \/ HostNext(r) \/ HostEnd(r) \/ HostDelete(r)
       \/ \E p \in Players, correct \in BOOLEAN : HostJudge(r, p, correct)
       \/ HostSave(r) \/ HostPublish(r) \/ HostFails(r)
  \/ \E p \in Players : PlayerSubmit(p) \/ PlayerPublish(p)

Session(h) == SetQuiz(h) \/ SetFirst(h) \/ SetNext(h)
Clearing(h) == DelRows(h) \/ DelQuiz(h) \/ DelCurrent(h)
Recovery(h) == GetCopy(h) \/ GetQuiz(h) \/ GetSession(h) \/ KeepQuiz(h)
                 \/ KeepCurrent(h)
Answering(h) == GetCurrent(h) \/ GetAgain(h) \/ FindExisting(h) \/ GetQuizKey(h)
                  \/ Judge(h) \/ Create(h)
Advance(h) == Session(h) \/ Clearing(h) \/ Recovery(h) \/ Answering(h)

Around == CommitOffset \/ ExpireQuizKey \/ ExpireCurrent \/ ExpireCopy
            \/ OtherCopy \/ Crash

Next ==
  \/ SessionService
  \/ Deliver \/ Record
  \/ \E r \in Requests : Post(r)
  \/ \E h \in Handlers : Advance(h) \/ Fail(h)
  \/ Around

Spec == Init /\ [][Next]_vars

\* The client keeps delivering, handlers run to their end, and the copy left
\* by ms-quizz-management expires.
FairSpec ==
  /\ Spec
  /\ WF_vars(Deliver \/ Record \/ Advance("consumer"))
  /\ WF_vars(copy = "plain" /\ ExpireCopy)

----------------------------------------------------------------------------
(* Safety                                                                  *)

\* However often an answer is delivered, judged and retried, a participant has
\* one row from the topic per question: handleAnswer looks for it first.
AnsweredOnce ==
  \A i, j \in DOMAIN responses :
    LET a == responses[i]
        b == responses[j]
    IN /\ a.offset # 0 /\ a.choice # NoChoice
       /\ b.offset # 0 /\ b.choice # NoChoice
       /\ a.player = b.player /\ a.question = b.question
       => i = j

\* A row's choice is a choice of the row's question, which is read from Valkey
\* and not from the event: late answers, recovered keys and overlapping
\* requests never put an answer under another question, or judge it by one.
JudgedOnItsQuestion ==
  \A i \in DOMAIN responses :
    responses[i].choice # NoChoice =>
      /\ responses[i].choice.question = responses[i].question
      /\ responses[i].choice.correct = responses[i].correct

\* The consumer leaves no answer and no verdict behind without a row, unless a
\* restart passed it over or the rows of the session were deleted.
HasRow(offset) == \E i \in DOMAIN responses : responses[i].offset = offset
Scores(event)  == event.type \in {"answer", "verdict"}
NothingLost ==
  \A i \in 1..resolved :
    Scores(topic[i]) => HasRow(i) \/ cleared \/ i \in missed

\* Valkey's current question is the first one, set when the session is created,
\* or one that ms-session's row has had: answers are not put under a question
\* that has not been shown, although the topic and recovery set the key in any
\* order and overlapping requests of the host may put the row itself back.  (An
\* update of a deleted row has no effect and is announced none the less.)
NeverAhead ==
  session.status # "ABSENT" => current \in shown \cup {None, 1}

----------------------------------------------------------------------------
(* What the documentation says and these steps do not guarantee            *)

\* An event counts once (exactly-once: the entry in processed_events and the
\* row are said to be written in the same transaction).  It counts twice when
\* the entry cannot be saved: a verdict is recorded again without being looked
\* for.
CountedOnce ==
  \A i, j \in DOMAIN responses :
    responses[i].offset = responses[j].offset /\ responses[i].offset # 0 => i = j

----------------------------------------------------------------------------
(* Liveness                                                                *)

\* Every event is eventually dealt with.  It is while a session keeps to one
\* question and nothing but Valkey loses or fails; an answer that is rejected
\* when it is handled - it comes after the next question was announced, or is
\* the second choice of the same submission - is retried for ever.
EveryEventProcessed ==
  \A i \in 1..MaxEvents : (Len(topic) >= i) ~> (resolved >= i)

=============================================================================
