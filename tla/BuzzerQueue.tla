---------------------------- MODULE BuzzerQueue ----------------------------
(***************************************************************************)
(* The buzzer of ms-session: players press it through submitResponse, the  *)
(* press travels over the Kafka topic FEED_BUZZER_QUEUE, FeedBuzzerConsumer*)
(* pushes it on the session's Valkey list, and the host judges the head of *)
(* that list through answerBuzzer.  Every await of the code separates two  *)
(* actions, because any other handler of the process may run there.        *)
(*                                                                         *)
(* A message is identified by its offset in the topic (1, 2, ...): the     *)
(* payload pushed on the list is the message, so an entry is an offset.    *)
(***************************************************************************)
EXTENDS Integers, Sequences, FiniteSets

CONSTANTS
  Sessions,      \* sessions being played
  Participants,  \* players
  SessionOf,     \* the session a player joined (participants.session_id)
  Requests,      \* concurrent submitResponse handlers
  Calls,         \* concurrent answerBuzzer handlers
  MaxQuestion,   \* questions of the quiz: bounds nextQuestion
  MaxFeed,       \* bound on the messages of the topic
  MaxFaults,     \* bound on failed database, Valkey and Kafka operations
  MaxCrashes     \* bound on crashes of the process

ASSUME SessionOfType == SessionOf \in [Participants -> Sessions]
ASSUME BoundsType ==
  /\ MaxQuestion \in Nat \ {0}
  /\ MaxFeed \in Nat
  /\ MaxFaults \in Nat
  /\ MaxCrashes \in Nat

VARIABLES
  current,    \* current[s]: number of the active question
  advancing,  \* advancing[s]: commands nextQuestion still has in flight
  responded,  \* Valkey keys "...:question:q:participant:p:responded"
  submit,     \* submit[r]: where handler r of submitResponse is
  feed,       \* the topic FEED_BUZZER_QUEUE, one partition
  handler,    \* which handler KafkaConsumer.handlers has for the topic
  step,       \* where handleFeed is in the message at offset resolved + 1
  wasEmpty,   \* handleFeed's local queueWasEmpty
  resolved,   \* offset up to which the running consumer has got
  committed,  \* offset a restarted consumer resumes from
  queue,      \* queue[s]: Valkey list session:s:buzzer_queue
  pushed,     \* history: offsets ever pushed on a list
  missed,     \* history: offsets passed over without the feed handler
  announced,  \* history: offsets published as USER_PRESSED_BUZZER
  verdicts,   \* history: the BUZZER_ANSWER_SUBMITTED events
  call,       \* call[c]: where handler c of answerBuzzer is
  faults,     \* failures so far
  crashes     \* crashes so far

sessionVars  == <<current, advancing>>
submitVars   == <<responded, submit, feed>>
workerVars   == <<handler, step, wasEmpty, resolved, committed>>
historyVars  == <<pushed, missed, verdicts>>
vars == <<sessionVars, submitVars, workerVars, queue, historyVars,
          announced, call, faults, crashes>>

Questions == 1..MaxQuestion
Offsets   == Nat \ {0}
None      == 0      \* the null that peek returns on an empty list

Message == [question : Questions, participant : Participants]
NoSubmit == [step |-> "idle"]
Submit == {NoSubmit} \cup
          [step : {"check", "mark", "publish"},
           question : Questions, participant : Participants]
NoCall == [step |-> "idle"]
Call == {NoCall} \cup
        [step : {"clear", "pop", "peekNext", "announce", "publish"},
         session : Sessions, entry : Nat, correct : BOOLEAN, next : Nat]
Verdict == [entry : Nat, correct : BOOLEAN]

TypeOK ==
  /\ current \in [Sessions -> Questions]
  /\ advancing \in [Sessions -> SUBSET {"update", "clear"}]
  /\ responded \subseteq Questions \X Participants
  /\ submit \in [Requests -> Submit]
  /\ feed \in Seq(Message)
  /\ handler \in {"demo", "feed"}
  /\ step \in {"idle", "peek", "push", "announce", "resolve"}
  /\ wasEmpty \in BOOLEAN
  /\ resolved \in Nat
  /\ committed \in Nat
  /\ queue \in [Sessions -> Seq(Offsets)]
  /\ pushed \subseteq Offsets
  /\ missed \subseteq Offsets
  /\ announced \subseteq Nat
  /\ verdicts \subseteq Verdict
  /\ call \in [Calls -> Call]
  /\ faults \in 0..MaxFaults
  /\ crashes \in 0..MaxCrashes

\* The sessions have been started: question 1 is active, the queue is cleared.
Init ==
  /\ current = [s \in Sessions |-> 1]
  /\ advancing = [s \in Sessions |-> {}]
  /\ responded = {}
  /\ submit = [r \in Requests |-> NoSubmit]
  /\ feed = <<>>
  /\ handler = "demo"
  /\ step = "idle"
  /\ wasEmpty = FALSE
  /\ resolved = 0
  /\ committed = 0
  /\ queue = [s \in Sessions |-> <<>>]
  /\ pushed = {}
  /\ missed = {}
  /\ announced = {}
  /\ verdicts = {}
  /\ call = [c \in Calls |-> NoCall]
  /\ faults = 0
  /\ crashes = 0

\* A database update, a Valkey command or a Kafka publication fails.
Fault ==
  /\ faults < MaxFaults
  /\ faults' = faults + 1

----------------------------------------------------------------------------
(* BuzzerRepository                                                        *)

\* Mutant: only the head of the list is compared.
HeadHasBuzzed(s, p) ==
  queue[s] # <<>> /\ feed[Head(queue[s])].participant = p

HasBuzzed(s, p) ==
  \E i \in DOMAIN queue[s] : feed[queue[s][i]].participant = p

Peek(s) == IF queue[s] = <<>> THEN None ELSE Head(queue[s])

\* Mutant: lPush for rPush.
PushFront(s, offset) == queue' = [queue EXCEPT ![s] = <<offset>> \o @]

Push(s, offset) == queue' = [queue EXCEPT ![s] = Append(@, offset)]

\* Mutant: lIndex for lPop, the entry stays.
PopNothing(s) == queue' = [queue EXCEPT ![s] = @]

Pop(s) ==
  queue' = [queue EXCEPT ![s] = IF @ = <<>> THEN <<>> ELSE Tail(@)]

Clear(s) == queue' = [queue EXCEPT ![s] = <<>>]

----------------------------------------------------------------------------
(* nextQuestion, as far as the buzzer goes: the row update and the clearing *)
(* of the list are started together and complete in either order           *)
(* (Promise.all).                                                          *)

\* Mutant: the last question is not recognised.
AdvancePastLast(s) ==
  /\ advancing[s] = {}
  /\ current[s] <= MaxQuestion
  /\ advancing' = [advancing EXCEPT ![s] = {"update", "clear"}]
  /\ UNCHANGED <<current, submitVars, workerVars, queue, historyVars,
                 announced, call, faults, crashes>>

AdvanceBegin(s) ==
  /\ advancing[s] = {}
  /\ current[s] < MaxQuestion
  /\ advancing' = [advancing EXCEPT ![s] = {"update", "clear"}]
  /\ UNCHANGED <<current, submitVars, workerVars, queue, historyVars,
                 announced, call, faults, crashes>>

AdvanceRow(s) ==
  /\ "update" \in advancing[s]
  /\ advancing' = [advancing EXCEPT ![s] = @ \ {"update"}]
  /\ \/ current' = [current EXCEPT ![s] = @ + 1] /\ UNCHANGED faults
     \/ Fault /\ UNCHANGED current
  /\ UNCHANGED <<submitVars, workerVars, queue, historyVars, announced,
                 call, crashes>>

\* A failing command rejects the request but does not undo the other.
AdvanceClear(s) ==
  /\ "clear" \in advancing[s]
  /\ advancing' = [advancing EXCEPT ![s] = @ \ {"clear"}]
  /\ \/ Clear(s) /\ UNCHANGED faults
     \/ Fault /\ UNCHANGED queue
  /\ UNCHANGED <<current, submitVars, workerVars, historyVars, announced,
                 call, crashes>>

----------------------------------------------------------------------------
(* submitResponse on a question of type BUZZER                             *)

InFlight == {r \in Requests : submit[r] # NoSubmit}

\* The session is found and its question captured.
SubmitFind(r, p) ==
  /\ submit[r] = NoSubmit
  /\ Len(feed) + Cardinality(InFlight) < MaxFeed
  /\ submit' = [submit EXCEPT ![r] = [step |-> "check", participant |-> p,
                                      question |-> current[SessionOf[p]]]]
  /\ UNCHANGED <<sessionVars, responded, feed, workerVars, queue,
                 historyVars, announced, call, faults, crashes>>

\* The key of an earlier response stops the handler; a failed read (which
\* ValkeyRepository.get turns into null) lets it go on.
SubmitCheck(r) ==
  LET key == <<submit[r].question, submit[r].participant>>
  IN /\ submit[r].step = "check"
     /\ \/ /\ key \in responded
           /\ submit' = [submit EXCEPT ![r] = NoSubmit]
           /\ UNCHANGED faults
        \/ /\ \/ key \notin responded /\ UNCHANGED faults
              \/ Fault
           /\ submit' = [submit EXCEPT ![r].step = "mark"]
     /\ UNCHANGED <<sessionVars, responded, feed, workerVars, queue,
                    historyVars, announced, call, crashes>>

\* ValkeyRepository.set swallows its errors: the key may stay unset.
SubmitMark(r) ==
  LET key == <<submit[r].question, submit[r].participant>>
  IN /\ submit[r].step = "mark"
     /\ submit' = [submit EXCEPT ![r].step = "publish"]
     /\ \/ responded' = responded \cup {key} /\ UNCHANGED faults
        \/ Fault /\ UNCHANGED responded
     /\ UNCHANGED <<sessionVars, feed, workerVars, queue, historyVars,
                    announced, call, crashes>>

\* A failed publication ends the request with an error; the key stays set.
SubmitPublish(r) ==
  /\ submit[r].step = "publish"
  /\ submit' = [submit EXCEPT ![r] = NoSubmit]
  /\ \/ /\ feed' = Append(feed, [question |-> submit[r].question,
                                 participant |-> submit[r].participant])
        /\ UNCHANGED faults
     \/ Fault /\ UNCHANGED feed
  /\ UNCHANGED <<sessionVars, responded, workerVars, queue, historyVars,
                 announced, call, crashes>>

----------------------------------------------------------------------------
(* The consumer of FEED_BUZZER_QUEUE.  Its handler throws on a participant *)
(* who is already queued and on any failed command; the consumer then      *)
(* retries the same message, so a throw leaves resolved where it is.       *)

Pending == resolved + 1      \* offset of the message being handled
Buzzer  == feed[Pending].participant
BuzzerSession == SessionOf[Buzzer]

\* services.plugin replaces the demo logger, after kafka.plugin started the
\* consumer with it.
RegisterFeedHandler ==
  /\ handler = "demo"
  /\ handler' = "feed"
  /\ UNCHANGED <<sessionVars, submitVars, step, wasEmpty, resolved,
                 committed, queue, historyVars, announced, call, faults,
                 crashes>>

\* A message delivered before that is logged and done with.
DemoLog ==
  /\ handler = "demo"
  /\ resolved < Len(feed)
  /\ missed' = missed \cup {Pending}
  /\ resolved' = Pending
  /\ UNCHANGED <<sessionVars, submitVars, handler, step, wasEmpty,
                 committed, queue, pushed, verdicts, announced, call,
                 faults, crashes>>

\* hasBuzzed; when it holds the handler throws PARTICIPANT_ALREADY_BUZZED
\* and nothing changes.
FeedCheck ==
  /\ handler = "feed"
  /\ step = "idle"
  /\ resolved < Len(feed)
  /\ ~ HasBuzzed(BuzzerSession, Buzzer)
  /\ step' = "peek"
  /\ UNCHANGED <<sessionVars, submitVars, handler, wasEmpty, resolved,
                 committed, queue, historyVars, announced, call, faults,
                 crashes>>

FeedPeek ==
  /\ step = "peek"
  /\ wasEmpty' = (Peek(BuzzerSession) = None)
  /\ step' = "push"
  /\ UNCHANGED <<sessionVars, submitVars, handler, resolved, committed,
                 queue, historyVars, announced, call, faults, crashes>>

FeedPush ==
  /\ step = "push"
  /\ Push(BuzzerSession, Pending)
  /\ pushed' = pushed \cup {Pending}
  /\ step' = IF wasEmpty THEN "announce" ELSE "resolve"
  /\ UNCHANGED <<sessionVars, submitVars, handler, wasEmpty, resolved,
                 committed, missed, verdicts, announced, call, faults,
                 crashes>>

\* USER_PRESSED_BUZZER for the first of the queue.
FeedAnnounce ==
  /\ step = "announce"
  /\ announced' = announced \cup {Pending}
  /\ step' = "resolve"
  /\ UNCHANGED <<sessionVars, submitVars, handler, wasEmpty, resolved,
                 committed, queue, historyVars, call, faults, crashes>>

\* The handler returns and the client moves to the next message.
FeedResolve ==
  /\ step = "resolve"
  /\ step' = "idle"
  /\ wasEmpty' = FALSE
  /\ resolved' = Pending
  /\ UNCHANGED <<sessionVars, submitVars, handler, committed,
                 queue, historyVars, announced, call, faults, crashes>>

\* Mutant: the failure is logged and not rethrown.
FeedFailSwallowed ==
  /\ step # "idle"
  /\ Fault
  /\ step' = "idle"
  /\ wasEmpty' = FALSE
  /\ resolved' = Pending
  /\ UNCHANGED <<sessionVars, submitVars, handler, committed,
                 queue, historyVars, announced, call, crashes>>

\* A command fails, possibly after it took effect: the handler rethrows and
\* the same message is delivered again.
FeedFail ==
  /\ step # "idle"
  /\ Fault
  /\ step' = "idle"
  /\ wasEmpty' = FALSE
  /\ UNCHANGED <<sessionVars, submitVars, handler, resolved, committed,
                 queue, historyVars, announced, call, crashes>>

\* The Kafka client commits the resolved offset from time to time.
CommitOffset ==
  /\ committed # resolved
  /\ committed' = resolved
  /\ UNCHANGED <<sessionVars, submitVars, handler, step, wasEmpty,
                 resolved, queue, historyVars, announced, call, faults,
                 crashes>>

----------------------------------------------------------------------------
(* answerBuzzer                                                            *)

StartAnswer(c, s, entry, correct) ==
  /\ call[c] = NoCall
  /\ call' = [call EXCEPT ![c] =
                [step |-> IF correct THEN "clear" ELSE "pop",
                 session |-> s, entry |-> entry, correct |-> correct,
                 next |-> None]]

\* The host names the participant at the head; naming another one, or
\* answering an empty queue, is refused without effect.
AnswerPeek(c, s, correct) ==
  /\ Peek(s) # None
  /\ StartAnswer(c, s, Peek(s), correct)
  /\ UNCHANGED <<sessionVars, submitVars, workerVars, queue, historyVars,
                 announced, faults, crashes>>

\* When peek fails the answer proceeds without the consistency check.
AnswerUnchecked(c, s, correct) ==
  /\ Fault
  /\ StartAnswer(c, s, None, correct)
  /\ UNCHANGED <<sessionVars, submitVars, workerVars, queue, historyVars,
                 announced, crashes>>

\* A failure to clear is logged and ignored.
AnswerClear(c) ==
  /\ call[c].step = "clear"
  /\ call' = [call EXCEPT ![c].step = "publish"]
  /\ \/ Clear(call[c].session) /\ UNCHANGED faults
     \/ Fault /\ UNCHANGED queue
  /\ UNCHANGED <<sessionVars, submitVars, workerVars, historyVars,
                 announced, crashes>>

AnswerPop(c) ==
  /\ call[c].step = "pop"
  /\ call' = [call EXCEPT ![c].step = "peekNext"]
  /\ Pop(call[c].session)
  /\ UNCHANGED <<sessionVars, submitVars, workerVars, historyVars,
                 announced, faults, crashes>>

\* Mutant: USER_PRESSED_BUZZER without looking whether there is a next one.
AnswerPeekNextUnchecked(c) ==
  /\ call[c].step = "peekNext"
  /\ call' = [call EXCEPT ![c].next = Peek(call[c].session),
                          ![c].step = "announce"]
  /\ UNCHANGED <<sessionVars, submitVars, workerVars, queue, historyVars,
                 announced, faults, crashes>>

AnswerPeekNext(c) ==
  LET next == Peek(call[c].session)
  IN /\ call[c].step = "peekNext"
     /\ call' = [call EXCEPT ![c].next = next,
                             ![c].step = IF next = None THEN "publish"
                                         ELSE "announce"]
     /\ UNCHANGED <<sessionVars, submitVars, workerVars, queue, historyVars,
                    announced, faults, crashes>>

\* USER_PRESSED_BUZZER for the next of the queue.
AnswerAnnounce(c) ==
  /\ call[c].step = "announce"
  /\ call' = [call EXCEPT ![c].step = "publish"]
  /\ announced' = announced \cup {call[c].next}
  /\ UNCHANGED <<sessionVars, submitVars, workerVars, queue, historyVars,
                 faults, crashes>>

\* A failure while popping, peeking or announcing is logged and ignored.
AnswerFail(c) ==
  /\ call[c].step \in {"pop", "peekNext", "announce"}
  /\ Fault
  /\ call' = [call EXCEPT ![c].step = "publish"]
  /\ UNCHANGED <<sessionVars, submitVars, workerVars, queue, historyVars,
                 announced, crashes>>

\* BUZZER_ANSWER_SUBMITTED is published, or its failure returned to the host.
AnswerPublish(c) ==
  /\ call[c].step = "publish"
  /\ call' = [call EXCEPT ![c] = NoCall]
  /\ \/ /\ verdicts' = verdicts \cup {[entry |-> call[c].entry,
                                       correct |-> call[c].correct]}
        /\ UNCHANGED faults
     \/ Fault /\ UNCHANGED verdicts
  /\ UNCHANGED <<sessionVars, submitVars, workerVars, queue, pushed, missed,
                 announced, crashes>>

----------------------------------------------------------------------------
\* The process dies and restarts: handlers in flight are gone, and the demo
\* logger is back until the feed handler is registered again.  The consumer
\* resumes from the committed offset; while the group has not committed any,
\* fromBeginning: false makes it start from the end of the topic.
Crash ==
  /\ crashes < MaxCrashes
  /\ crashes' = crashes + 1
  /\ advancing' = [s \in Sessions |-> {}]
  /\ submit' = [r \in Requests |-> NoSubmit]
  /\ call' = [c \in Calls |-> NoCall]
  /\ handler' = "demo"
  /\ step' = "idle"
  /\ wasEmpty' = FALSE
  /\ resolved' = IF committed = 0 THEN Len(feed) ELSE committed
  /\ missed' = missed \cup (Pending..resolved')
  /\ UNCHANGED <<current, responded, feed, committed, queue, pushed,
                 verdicts, announced, faults>>

Host ==
  \/ \E s \in Sessions :
       AdvanceBegin(s) \/ AdvanceRow(s) \/ AdvanceClear(s)
  \/ \E c \in Calls, s \in Sessions, correct \in BOOLEAN :
       AnswerPeek(c, s, correct) \/ AnswerUnchecked(c, s, correct)
  \/ \E c \in Calls :
       \/ AnswerClear(c) \/ AnswerPop(c) \/ AnswerPeekNext(c)
       \/ AnswerAnnounce(c) \/ AnswerFail(c) \/ AnswerPublish(c)

Player ==
  \E r \in Requests :
    \/ \E p \in Participants : SubmitFind(r, p)
    \/ SubmitCheck(r) \/ SubmitMark(r) \/ SubmitPublish(r)

Consumer ==
  \/ RegisterFeedHandler \/ DemoLog
  \/ FeedCheck \/ FeedPeek \/ FeedPush \/ FeedAnnounce \/ FeedResolve
  \/ FeedFail \/ CommitOffset

Next == Host \/ Player \/ Consumer \/ Crash

Spec == Init /\ [][Next]_vars

----------------------------------------------------------------------------
(* Fairness: the event loop runs every started handler to its end and the  *)
(* Kafka client keeps delivering; hosts keep answering the participant at  *)
(* the head of the queue.  Nobody is obliged to buzz, to advance, to fail. *)
ConsumerFairness ==
  /\ WF_vars(RegisterFeedHandler)
  /\ WF_vars(FeedCheck \/ FeedPeek \/ FeedPush \/ FeedAnnounce \/ FeedResolve)

HostFairness ==
  /\ \A c \in Calls :
       WF_vars(\/ AnswerClear(c) \/ AnswerPop(c) \/ AnswerPeekNext(c)
               \/ AnswerAnnounce(c) \/ AnswerPublish(c))
  /\ \A s \in Sessions :
       WF_vars(\E c \in Calls, correct \in BOOLEAN : AnswerPeek(c, s, correct))

FairSpec == Spec /\ ConsumerFairness /\ HostFairness

----------------------------------------------------------------------------
(* Safety                                                                  *)

\* No participant is twice in a buzzer queue: hasBuzzed is checked before the
\* push, and answers, clears, redeliveries and crashes may fall in between.
NoDuplicateBuzzer ==
  \A s \in Sessions : \A i, j \in DOMAIN queue[s] :
    feed[queue[s][i]].participant = feed[queue[s][j]].participant => i = j

\* Until the process crashes, a queue holds its buzzes in the order in which
\* they were published, retries of a failed message included.
BuzzOrder ==
  crashes = 0 =>
    \A s \in Sessions : \A i, j \in DOMAIN queue[s] :
      i < j => queue[s][i] < queue[s][j]

\* The consumer never goes past a buzz that was not put on a queue, unless the
\* feed handler never got it: handleFeed rethrows every failure.
NoBuzzSkipped == \A i \in 1..resolved : i \in pushed \cup missed

\* Whoever is announced with USER_PRESSED_BUZZER has been in the queue: the
\* event follows the push, in the consumer and in answerBuzzer.
AnnouncedWasQueued == announced \subseteq pushed

\* Whom the host has judged, or is judging: the entries answerBuzzer found at
\* the head of a queue.
Judged ==
  ({call[c].entry : c \in {d \in Calls : call[d].step # "idle"}}
     \cup {v.entry : v \in verdicts}) \ {None}

\* Until the process crashes nobody is judged before their turn: whoever is
\* waiting in the session of a buzz that was judged has buzzed after it or is
\* that same buzz, although the head is looked at and popped in two steps and
\* verdicts, clears and retries of the consumer fall in between.
JudgedInOrder ==
  crashes = 0 =>
    \A e \in Judged : \A s \in Sessions : \A i \in DOMAIN queue[s] :
      SessionOf[feed[e].participant] = s => e <= queue[s][i]

\* The consumer, the hosts and nextQuestion make one line of the list that they
\* share, come what may: BuzzerLine.
Waiting(s) == [i \in DOMAIN queue[s] |-> feed[queue[s][i]].participant]

Line == INSTANCE BuzzerLine WITH line <- [s \in Sessions |-> Waiting(s)]
KeepsLine == Line!Spec

----------------------------------------------------------------------------
(* The inductive invariant behind them                                     *)

\* A row update in flight has a next question to go to.
AdvanceInRange ==
  \A s \in Sessions : "update" \in advancing[s] => current[s] < MaxQuestion

\* The consumer stays within the topic, and handles a message with the feed
\* handler only.
ConsumerInTopic ==
  /\ resolved <= Len(feed)
  /\ committed <= resolved
  /\ step # "idle" => resolved < Len(feed) /\ handler = "feed"

\* Queues hold messages of the topic that were pushed and are not ahead of the
\* one being handled, unless a crash set the consumer back.
QueueFromTopic ==
  \A s \in Sessions : \A i \in DOMAIN queue[s] :
    /\ queue[s][i] \in 1..Len(feed)
    /\ queue[s][i] \in pushed
    /\ crashes = 0 => queue[s][i] <= Pending

\* Between the check and the push the participant stays out of the queue: only
\* this consumer adds to it.
CheckStillHolds ==
  step \in {"peek", "push"} => ~ HasBuzzed(BuzzerSession, Buzzer)

\* What is announced next has been pushed.
AnnounceAfterPush ==
  /\ step \in {"announce", "resolve"} => Pending \in pushed
  /\ \A c \in Calls : call[c].step = "announce" => call[c].next \in pushed

BuzzerInv ==
  /\ ConsumerInTopic
  /\ QueueFromTopic
  /\ CheckStillHolds
  /\ AnnounceAfterPush
  /\ NoDuplicateBuzzer
  /\ BuzzOrder
  /\ NoBuzzSkipped
  /\ AnnouncedWasQueued

\* What makes JudgedInOrder inductive: a queue holds buzzes of its session, as
\* do the calls over it, and what was judged is not ahead of the consumer.
InOwnLine ==
  \A s \in Sessions : \A i \in DOMAIN queue[s] :
    SessionOf[feed[queue[s][i]].participant] = s

JudgedInTopic ==
  \A e \in Judged : e \in 1..Len(feed) /\ (crashes = 0 => e <= Pending)

JudgedHere ==
  \A c \in Calls :
    call[c].step # "idle" /\ call[c].entry # None =>
      SessionOf[feed[call[c].entry].participant] = call[c].session

TurnsOK == InOwnLine /\ JudgedInTopic /\ JudgedHere /\ JudgedInOrder

----------------------------------------------------------------------------
(* Liveness                                                                 *)

\* Every published buzz is dealt with, in whatever session: a message the
\* handler keeps rejecting holds up the topic only until the host has judged
\* the participant's earlier entry.
EveryBuzzHandled ==
  \A i \in 1..MaxFeed : (Len(feed) >= i) ~> (resolved >= i)

============================================================================
