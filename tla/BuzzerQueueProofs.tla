------------------------- MODULE BuzzerQueueProofs -------------------------
(***************************************************************************)
(* Proofs about BuzzerQueue, for any number of sessions, players, handlers,*)
(* messages, failures and crashes.                                         *)
(***************************************************************************)
EXTENDS BuzzerQueue, SequenceTheorems, TLAPS

----------------------------------------------------------------------------
(* Typing                                                                   *)

\* A handler of submitResponse that has begun holds a question and a player.
LEMMA SubmitFields ==
  ASSUME TypeOK, NEW r \in Requests, submit[r].step # "idle"
  PROVE  submit[r] \in [step : {"check", "mark", "publish"},
                        question : Questions, participant : Participants]
BY DEF TypeOK, Submit, NoSubmit

\* A handler of answerBuzzer that has begun holds a session and its entries.
LEMMA CallFields ==
  ASSUME TypeOK, NEW c \in Calls, call[c].step # "idle"
  PROVE  call[c] \in [step : {"clear", "pop", "peekNext", "announce", "publish"},
                      session : Sessions, entry : Nat, correct : BOOLEAN,
                      next : Nat]
BY DEF TypeOK, Call, NoCall

\* Failures and crashes stay within their bounds.
LEMMA FaultType ==
  ASSUME TypeOK, Fault
  PROVE  faults' \in 0..MaxFaults
BY BoundsType DEF TypeOK, Fault

\* peek returns the null value or an offset.
LEMMA PeekType ==
  ASSUME TypeOK, NEW s \in Sessions
  PROVE  Peek(s) \in Nat
BY DEF TypeOK, Peek, None, Offsets

\* pop and clear leave lists of offsets.
LEMMA PopType ==
  ASSUME TypeOK, NEW s \in Sessions, Pop(s) \/ Clear(s)
  PROVE  queue' \in [Sessions -> Seq(Offsets)]
<1>1. queue[s] \in Seq(Offsets) /\ <<>> \in Seq(Offsets)
  BY EmptySeq DEF TypeOK
<1>2. queue[s] # <<>> => Tail(queue[s]) \in Seq(Offsets)
  BY <1>1, HeadTailProperties
<1> QED BY <1>1, <1>2 DEF TypeOK, Pop, Clear

\* The players' steps keep the types.
LEMMA PlayerType == TypeOK /\ Player => TypeOK'
<1> SUFFICES ASSUME TypeOK, NEW r \in Requests,
                    \/ \E p \in Participants : SubmitFind(r, p)
                    \/ SubmitCheck(r) \/ SubmitMark(r) \/ SubmitPublish(r)
             PROVE  TypeOK'
  BY DEF Player
<1> USE DEF sessionVars, workerVars, historyVars
<1>1. ASSUME NEW p \in Participants, SubmitFind(r, p) PROVE TypeOK'
  <2>1. current[SessionOf[p]] \in Questions
    BY SessionOfType DEF TypeOK
  <2>2. submit' \in [Requests -> Submit]
    BY <1>1, <2>1 DEF TypeOK, SubmitFind, Submit
  <2> QED BY <1>1, <2>2 DEF TypeOK, SubmitFind
<1>2. CASE SubmitCheck(r)
  <2>1. submit[r] \in [step : {"check", "mark", "publish"},
                       question : Questions, participant : Participants]
    BY <1>2, SubmitFields DEF SubmitCheck
  <2>2. [submit[r] EXCEPT !.step = "mark"] \in Submit /\ NoSubmit \in Submit
    BY <2>1 DEF Submit
  <2>3. submit' \in [Requests -> Submit]
    BY <1>2, <2>2 DEF TypeOK, SubmitCheck
  <2>4. faults' \in 0..MaxFaults
    BY <1>2, FaultType DEF TypeOK, SubmitCheck
  <2> QED BY <1>2, <2>3, <2>4 DEF TypeOK, SubmitCheck
<1>3. CASE SubmitMark(r)
  <2>1. submit[r] \in [step : {"check", "mark", "publish"},
                       question : Questions, participant : Participants]
    BY <1>3, SubmitFields DEF SubmitMark
  <2>2. submit' \in [Requests -> Submit]
    BY <1>3, <2>1 DEF TypeOK, SubmitMark, Submit
  <2>3. responded' \subseteq Questions \X Participants
    BY <1>3, <2>1 DEF TypeOK, SubmitMark
  <2>4. faults' \in 0..MaxFaults
    BY <1>3, FaultType DEF TypeOK, SubmitMark
  <2> QED BY <1>3, <2>2, <2>3, <2>4 DEF TypeOK, SubmitMark
<1>4. CASE SubmitPublish(r)
  <2>1. submit[r] \in [step : {"check", "mark", "publish"},
                       question : Questions, participant : Participants]
    BY <1>4, SubmitFields DEF SubmitPublish
  <2>2. submit' \in [Requests -> Submit]
    BY <1>4 DEF TypeOK, SubmitPublish, Submit
  <2>3. feed' \in Seq(Message)
    <3> DEFINE m == [question |-> submit[r].question,
                     participant |-> submit[r].participant]
    <3>1. m \in Message /\ feed \in Seq(Message)
      BY <2>1 DEF Message, TypeOK
    <3>2. Append(feed, m) \in Seq(Message)
      BY <3>1, AppendProperties
    <3>3. feed' = Append(feed, m) \/ feed' = feed
      BY <1>4 DEF SubmitPublish
    <3> QED BY <3>1, <3>2, <3>3
  <2>4. faults' \in 0..MaxFaults
    BY <1>4, FaultType DEF TypeOK, SubmitPublish
  <2> QED BY <1>4, <2>2, <2>3, <2>4 DEF TypeOK, SubmitPublish
<1> QED BY <1>1, <1>2, <1>3, <1>4

\* The consumer's steps keep the types.
LEMMA ConsumerType == TypeOK /\ Consumer => TypeOK'
<1> SUFFICES ASSUME TypeOK, Consumer PROVE TypeOK'
  OBVIOUS
<1> USE DEF sessionVars, submitVars, historyVars
<1>1. CASE RegisterFeedHandler
  BY <1>1 DEF TypeOK, RegisterFeedHandler
<1>2. CASE DemoLog
  BY <1>2 DEF TypeOK, DemoLog, Pending, Offsets
<1>3. CASE FeedCheck
  BY <1>3 DEF TypeOK, FeedCheck
<1>4. CASE FeedPeek
  BY <1>4 DEF TypeOK, FeedPeek
<1>5. CASE FeedPush
  <2>1. Pending \in Offsets
    BY DEF TypeOK, Pending, Offsets
  <2>2. queue' \in [Sessions -> Seq(Offsets)]
    BY <1>5, <2>1, AppendProperties DEF TypeOK, FeedPush, Push
  <2>3. step' \in {"announce", "resolve"} /\ pushed' \subseteq Offsets
    BY <1>5, <2>1 DEF TypeOK, FeedPush
  <2> QED BY <1>5, <2>2, <2>3 DEF TypeOK, FeedPush
<1>6. CASE FeedAnnounce
  BY <1>6 DEF TypeOK, FeedAnnounce, Pending, Offsets
<1>7. CASE FeedResolve
  <2>1. wasEmpty' \in BOOLEAN
    BY <1>7, Zenon DEF FeedResolve
  <2> QED BY <1>7, <2>1 DEF TypeOK, FeedResolve, Pending
<1>8. CASE FeedFail
  <2>1. faults' \in 0..MaxFaults
    BY <1>8, FaultType DEF FeedFail
  <2>2. wasEmpty' \in BOOLEAN
    BY <1>8, Zenon DEF FeedFail
  <2> QED BY <1>8, <2>1, <2>2 DEF TypeOK, FeedFail
<1>9. CASE CommitOffset
  BY <1>9 DEF TypeOK, CommitOffset
<1> QED BY <1>1, <1>2, <1>3, <1>4, <1>5, <1>6, <1>7, <1>8, <1>9 DEF Consumer

\* nextQuestion keeps the types and the bound.
LEMMA AdvanceType ==
  ASSUME TypeOK, AdvanceInRange, NEW s \in Sessions,
         AdvanceBegin(s) \/ AdvanceRow(s) \/ AdvanceClear(s)
  PROVE  TypeOK' /\ AdvanceInRange'
<1> USE DEF submitVars, workerVars, historyVars
<1>1. CASE AdvanceBegin(s)
  BY <1>1 DEF TypeOK, AdvanceInRange, AdvanceBegin
<1>2. CASE AdvanceRow(s)
  <2>1. faults' \in 0..MaxFaults
    BY <1>2, FaultType DEF TypeOK, AdvanceRow
  <2>2. current[s] \in Questions /\ current[s] < MaxQuestion
    BY <1>2 DEF TypeOK, AdvanceInRange, AdvanceRow
  <2>3. current[s] + 1 \in Questions
    BY <2>2, BoundsType DEF Questions
  <2>4. current' \in [Sessions -> Questions]
    BY <1>2, <2>3 DEF TypeOK, AdvanceRow
  <2>5. advancing' \in [Sessions -> SUBSET {"update", "clear"}]
    BY <1>2 DEF TypeOK, AdvanceRow
  <2>6. AdvanceInRange'
    BY <1>2, <2>4 DEF TypeOK, AdvanceInRange, AdvanceRow
  <2> QED BY <1>2, <2>1, <2>4, <2>5, <2>6 DEF TypeOK, AdvanceRow
<1>3. CASE AdvanceClear(s)
  <2>1. queue' \in [Sessions -> Seq(Offsets)]
    BY <1>3, PopType DEF AdvanceClear, TypeOK
  <2>2. faults' \in 0..MaxFaults
    BY <1>3, FaultType DEF TypeOK, AdvanceClear
  <2>3. AdvanceInRange'
    BY <1>3 DEF TypeOK, AdvanceInRange, AdvanceClear
  <2> QED BY <1>3, <2>1, <2>2, <2>3 DEF TypeOK, AdvanceClear
<1> QED BY <1>1, <1>2, <1>3

\* The steps of answerBuzzer keep the types.
LEMMA AnswerType ==
  ASSUME TypeOK, NEW c \in Calls,
         \/ \E s \in Sessions, correct \in BOOLEAN :
              AnswerPeek(c, s, correct) \/ AnswerUnchecked(c, s, correct)
         \/ AnswerClear(c) \/ AnswerPop(c) \/ AnswerPeekNext(c)
         \/ AnswerAnnounce(c) \/ AnswerFail(c) \/ AnswerPublish(c)
  PROVE  TypeOK'
<1> USE DEF sessionVars, submitVars, workerVars, historyVars
<1>a. ASSUME NEW s \in Sessions, NEW entry \in Nat, NEW correct \in BOOLEAN,
             StartAnswer(c, s, entry, correct)
      PROVE  call' \in [Calls -> Call]
  BY <1>a DEF TypeOK, StartAnswer, Call, None
<1>1. ASSUME NEW s \in Sessions, NEW correct \in BOOLEAN,
             AnswerPeek(c, s, correct)
      PROVE  TypeOK'
  BY <1>1, <1>a, PeekType DEF TypeOK, AnswerPeek
<1>2. ASSUME NEW s \in Sessions, NEW correct \in BOOLEAN,
             AnswerUnchecked(c, s, correct)
      PROVE  TypeOK'
  <2>1. call' \in [Calls -> Call]
    BY <1>2, <1>a DEF AnswerUnchecked, None
  <2>2. faults' \in 0..MaxFaults
    BY <1>2, FaultType DEF AnswerUnchecked
  <2> QED BY <1>2, <2>1, <2>2 DEF TypeOK, AnswerUnchecked
<1> DEFINE Begun == [step : {"clear", "pop", "peekNext", "announce", "publish"},
                     session : Sessions, entry : Nat, correct : BOOLEAN,
                     next : Nat]
<1>b. call[c].step # "idle" => call[c] \in Begun
  BY CallFields
<1>3. CASE AnswerClear(c)
  <2>1. call[c] \in Begun
    BY <1>3, <1>b DEF AnswerClear
  <2>2. call' \in [Calls -> Call]
    BY <1>3, <2>1 DEF TypeOK, AnswerClear, Call
  <2>3. queue' \in [Sessions -> Seq(Offsets)]
    BY <1>3, <2>1, PopType DEF TypeOK, AnswerClear
  <2>4. faults' \in 0..MaxFaults
    BY <1>3, FaultType DEF TypeOK, AnswerClear
  <2> QED BY <1>3, <2>2, <2>3, <2>4 DEF TypeOK, AnswerClear
<1>4. CASE AnswerPop(c)
  <2>1. call[c] \in Begun
    BY <1>4, <1>b DEF AnswerPop
  <2>2. call' \in [Calls -> Call]
    BY <1>4, <2>1 DEF TypeOK, AnswerPop, Call
  <2>3. queue' \in [Sessions -> Seq(Offsets)]
    BY <1>4, <2>1, PopType DEF AnswerPop
  <2> QED BY <1>4, <2>2, <2>3 DEF TypeOK, AnswerPop
<1>5. CASE AnswerPeekNext(c)
  <2>1. call[c] \in Begun
    BY <1>5, <1>b DEF AnswerPeekNext
  <2>2. Peek(call[c].session) \in Nat
    BY <2>1, PeekType
  <2>3. call' \in [Calls -> Call]
    BY <1>5, <2>1, <2>2 DEF TypeOK, AnswerPeekNext, Call
  <2> QED BY <1>5, <2>3 DEF TypeOK, AnswerPeekNext
<1>6. CASE AnswerAnnounce(c)
  <2>1. call[c] \in Begun
    BY <1>6, <1>b DEF AnswerAnnounce
  <2>2. call' \in [Calls -> Call]
    BY <1>6, <2>1 DEF TypeOK, AnswerAnnounce, Call
  <2> QED BY <1>6, <2>1, <2>2 DEF TypeOK, AnswerAnnounce
<1>7. CASE AnswerFail(c)
  <2>1. call[c] \in Begun
    BY <1>7, <1>b DEF AnswerFail
  <2>2. call' \in [Calls -> Call]
    BY <1>7, <2>1 DEF TypeOK, AnswerFail, Call
  <2>3. faults' \in 0..MaxFaults
    BY <1>7, FaultType DEF AnswerFail
  <2> QED BY <1>7, <2>2, <2>3 DEF TypeOK, AnswerFail
<1>8. CASE AnswerPublish(c)
  <2>1. call[c] \in Begun
    BY <1>8, <1>b DEF AnswerPublish
  <2>2. call' \in [Calls -> Call]
    BY <1>8 DEF TypeOK, AnswerPublish, Call
  <2>3. faults' \in 0..MaxFaults
    BY <1>8, FaultType DEF TypeOK, AnswerPublish
  <2>4. verdicts' \subseteq Verdict
    BY <1>8, <2>1 DEF TypeOK, AnswerPublish, Verdict
  <2> QED BY <1>8, <2>2, <2>3, <2>4 DEF TypeOK, AnswerPublish
<1> QED BY <1>1, <1>2, <1>3, <1>4, <1>5, <1>6, <1>7, <1>8

\* A crash keeps the types.
LEMMA CrashType == TypeOK /\ Crash => TypeOK'
<1> SUFFICES ASSUME TypeOK, Crash PROVE TypeOK'
  OBVIOUS
<1>1. Len(feed) \in Nat
  BY LenProperties DEF TypeOK
<1>2. resolved' \in Nat
  BY <1>1 DEF TypeOK, Crash
<1>3. Pending..resolved' \subseteq Offsets
  BY <1>2 DEF TypeOK, Pending, Offsets
<1>4. missed' \subseteq Offsets
  BY <1>3 DEF TypeOK, Crash
<1>5. submit' \in [Requests -> Submit] /\ call' \in [Calls -> Call]
  BY DEF Crash, Submit, Call
<1>6. advancing' \in [Sessions -> SUBSET {"update", "clear"}]
  BY DEF Crash
<1>7. wasEmpty' \in BOOLEAN
  BY Zenon DEF Crash
<1>8. crashes' \in 0..MaxCrashes
  BY BoundsType DEF TypeOK, Crash
<1> QED
  BY <1>2, <1>4, <1>5, <1>6, <1>7, <1>8
  DEF TypeOK, Crash

\* TypeOK is an invariant: every variable keeps its type, whatever the numbers
\* of sessions, players, handlers, failures and crashes.
THEOREM TypeCorrect == Spec => [](TypeOK /\ AdvanceInRange)
<1>1. Init => TypeOK /\ AdvanceInRange
  <2> SUFFICES ASSUME Init PROVE TypeOK /\ AdvanceInRange
    OBVIOUS
  <2>1. wasEmpty \in BOOLEAN
    BY Zenon DEF Init
  <2>2. feed \in Seq(Message) /\ queue \in [Sessions -> Seq(Offsets)]
    BY EmptySeq DEF Init
  <2> QED
    BY <2>1, <2>2, BoundsType
    DEF Init, TypeOK, AdvanceInRange, Questions, Submit, Call
<1>2. TypeOK /\ AdvanceInRange /\ [Next]_vars => TypeOK' /\ AdvanceInRange'
  <2> SUFFICES ASSUME TypeOK, AdvanceInRange, [Next]_vars
               PROVE  TypeOK' /\ AdvanceInRange'
    OBVIOUS
  <2>1. CASE Player
    <3>1. AdvanceInRange'
      BY <2>1 DEF Player, SubmitFind, SubmitCheck, SubmitMark, SubmitPublish,
                  AdvanceInRange, sessionVars
    <3> QED BY <2>1, <3>1, PlayerType
  <2>2. CASE Consumer
    <3>1. AdvanceInRange'
      BY <2>2 DEF Consumer, RegisterFeedHandler, DemoLog, FeedCheck, FeedPeek,
                  FeedPush, FeedAnnounce, FeedResolve, FeedFail, CommitOffset,
                  AdvanceInRange, sessionVars
    <3> QED BY <2>2, <3>1, ConsumerType
  <2>3. CASE Host
    <3>1. ASSUME NEW s \in Sessions,
                 AdvanceBegin(s) \/ AdvanceRow(s) \/ AdvanceClear(s)
          PROVE  TypeOK' /\ AdvanceInRange'
      BY <3>1, AdvanceType
    <3>2. ASSUME NEW c \in Calls,
                 \/ \E s \in Sessions, correct \in BOOLEAN :
                      AnswerPeek(c, s, correct) \/ AnswerUnchecked(c, s, correct)
                 \/ AnswerClear(c) \/ AnswerPop(c) \/ AnswerPeekNext(c)
                 \/ AnswerAnnounce(c) \/ AnswerFail(c) \/ AnswerPublish(c)
          PROVE  TypeOK' /\ AdvanceInRange'
      <4>1. TypeOK'
        BY <3>2, AnswerType
      <4>2. AdvanceInRange'
        BY <3>2 DEF AnswerPeek, AnswerUnchecked, AnswerClear, AnswerPop,
                    AnswerPeekNext, AnswerAnnounce, AnswerFail, AnswerPublish,
                    AdvanceInRange, sessionVars
      <4> QED BY <4>1, <4>2
    <3> QED BY <2>3, <3>1, <3>2 DEF Host
  <2>4. CASE Crash
    <3>1. AdvanceInRange'
      BY <2>4 DEF Crash, AdvanceInRange
    <3> QED BY <2>4, <3>1, CrashType
  <2>5. CASE UNCHANGED vars
    BY <2>5 DEF vars, TypeOK, AdvanceInRange, sessionVars, submitVars,
                workerVars, historyVars
  <2> QED BY <2>1, <2>2, <2>3, <2>4, <2>5 DEF Next
<1> QED BY <1>1, <1>2, PTL DEF Spec

----------------------------------------------------------------------------
(* Safety of the queue                                                      *)

\* Every queue keeps a suffix of what it held: nothing is added or reordered.
Shrinks ==
  \A t \in Sessions : \E k \in Nat : \A i \in DOMAIN queue'[t] :
    /\ i + k \in DOMAIN queue[t]
    /\ queue'[t][i] = queue[t][i + k]

LEMMA SameQueueShrinks ==
  ASSUME TypeOK, UNCHANGED queue
  PROVE  Shrinks
<1> SUFFICES ASSUME NEW t \in Sessions
             PROVE  \E k \in Nat : \A i \in DOMAIN queue'[t] :
                      /\ i + k \in DOMAIN queue[t]
                      /\ queue'[t][i] = queue[t][i + k]
  BY DEF Shrinks
<1>1. \A i \in DOMAIN queue[t] : i + 0 = i
  BY LenProperties DEF TypeOK
<1> QED BY <1>1

LEMMA PopShrinks ==
  ASSUME TypeOK, NEW s \in Sessions, Pop(s) \/ Clear(s)
  PROVE  Shrinks
<1> SUFFICES ASSUME NEW t \in Sessions
             PROVE  \E k \in Nat : \A i \in DOMAIN queue'[t] :
                      /\ i + k \in DOMAIN queue[t]
                      /\ queue'[t][i] = queue[t][i + k]
  BY DEF Shrinks
<1>1. queue[t] \in Seq(Offsets) /\ DOMAIN queue[t] = 1..Len(queue[t])
  BY LenProperties DEF TypeOK
<1>2. CASE queue'[t] = queue[t]
  <2>1. \A i \in DOMAIN queue[t] : i + 0 = i
    BY <1>1
  <2> QED BY <1>2, <2>1
<1>3. CASE queue'[t] = <<>>
  BY <1>3
<1>4. CASE queue[t] # <<>> /\ queue'[t] = Tail(queue[t])
  <2>1. /\ Len(queue[t]) \in Nat
        /\ Tail(queue[t]) \in Seq(Offsets)
        /\ Len(Tail(queue[t])) = Len(queue[t]) - 1
        /\ \A i \in 1..Len(Tail(queue[t])) : Tail(queue[t])[i] = queue[t][i + 1]
    BY <1>1, <1>4, HeadTailProperties, LenProperties
  <2>2. DOMAIN queue'[t] = 1..(Len(queue[t]) - 1)
    BY <1>4, <2>1, LenProperties
  <2>3. \A i \in DOMAIN queue'[t] : i + 1 \in DOMAIN queue[t]
                                   /\ queue'[t][i] = queue[t][i + 1]
    BY <1>1, <1>4, <2>1, <2>2
  <2> QED BY <2>3
<1> QED BY <1>2, <1>3, <1>4 DEF TypeOK, Pop, Clear

\* What a step must leave alone for its effect on the queues to be harmless.
consumerState == <<feed, handler, step, resolved, committed, pushed, missed,
                   announced, crashes>>

\* Removing from a queue disturbs no part of the invariant.
LEMMA ShrinkInv ==
  ASSUME TypeOK, TypeOK', BuzzerInv, Shrinks, UNCHANGED consumerState,
         \A c \in Calls : call'[c].step = "announce" => call'[c].next \in pushed
  PROVE  BuzzerInv'
<1> USE DEF BuzzerInv, consumerState
<1>1. ASSUME NEW t \in Sessions
      PROVE  \E k \in Nat : \A i \in DOMAIN queue'[t] :
               /\ i + k \in DOMAIN queue[t]
               /\ queue'[t][i] = queue[t][i + k]
  BY DEF Shrinks
<1>2. QueueFromTopic'
  BY <1>1 DEF QueueFromTopic, Pending
<1>3. CheckStillHolds'
  <2>1. ASSUME step \in {"peek", "push"}, HasBuzzed(BuzzerSession, Buzzer)'
        PROVE  HasBuzzed(BuzzerSession, Buzzer)
    <3>1. resolved < Len(feed) /\ Len(feed) \in Nat /\ resolved \in Nat
      BY <2>1, LenProperties DEF TypeOK, ConsumerInTopic
    <3>2. feed[Pending] \in Message
      BY <3>1, LenProperties DEF TypeOK, Pending
    <3>3. BuzzerSession \in Sessions
      BY <3>2, SessionOfType DEF Message, BuzzerSession, Buzzer
    <3> QED BY <1>1, <2>1, <3>3 DEF HasBuzzed, BuzzerSession, Buzzer, Pending
  <2> QED BY <2>1 DEF CheckStillHolds
<1>4. NoDuplicateBuzzer'
  <2> SUFFICES ASSUME NEW t \in Sessions,
                      NEW i \in DOMAIN queue'[t], NEW j \in DOMAIN queue'[t],
                      feed[queue'[t][i]].participant = feed[queue'[t][j]].participant
               PROVE  i = j
    BY DEF NoDuplicateBuzzer
  <2>1. PICK k \in Nat : \A n \in DOMAIN queue'[t] :
               /\ n + k \in DOMAIN queue[t]
               /\ queue'[t][n] = queue[t][n + k]
    BY <1>1
  <2>2. i \in Nat /\ j \in Nat
    BY LenProperties DEF TypeOK
  <2>3. i + k = j + k
    BY <2>1 DEF NoDuplicateBuzzer
  <2> QED BY <2>1, <2>2, <2>3
<1>5. BuzzOrder'
  <2> SUFFICES ASSUME crashes = 0, NEW t \in Sessions,
                      NEW i \in DOMAIN queue'[t], NEW j \in DOMAIN queue'[t],
                      i < j
               PROVE  queue'[t][i] < queue'[t][j]
    BY DEF BuzzOrder
  <2>1. PICK k \in Nat : \A n \in DOMAIN queue'[t] :
               /\ n + k \in DOMAIN queue[t]
               /\ queue'[t][n] = queue[t][n + k]
    BY <1>1
  <2>2. i \in Nat /\ j \in Nat
    BY LenProperties DEF TypeOK
  <2>3. i + k < j + k
    BY <2>1, <2>2
  <2> QED BY <2>1, <2>3 DEF BuzzOrder
<1>6. ConsumerInTopic' /\ NoBuzzSkipped' /\ AnnouncedWasQueued'
  BY DEF ConsumerInTopic, NoBuzzSkipped, AnnouncedWasQueued
<1>7. AnnounceAfterPush'
  BY DEF AnnounceAfterPush, Pending
<1> QED BY <1>2, <1>3, <1>4, <1>5, <1>6, <1>7

\* A new message at the end of the topic disturbs no part of the invariant.
LEMMA PublishInv ==
  ASSUME TypeOK, TypeOK', BuzzerInv, NEW m \in Message,
         feed' = Append(feed, m),
         UNCHANGED <<queue, handler, step, resolved, committed, pushed, missed,
                     announced, call, crashes>>
  PROVE  BuzzerInv'
<1> USE DEF BuzzerInv
<1>1. /\ Len(feed) \in Nat
      /\ Len(feed') = Len(feed) + 1
      /\ \A i \in 1..Len(feed) : feed'[i] = feed[i]
  BY AppendProperties, LenProperties DEF TypeOK
<1>2. QueueFromTopic'
  BY <1>1 DEF QueueFromTopic, Pending
<1>3. ASSUME NEW t \in Sessions, NEW i \in DOMAIN queue[t]
      PROVE  feed'[queue[t][i]] = feed[queue[t][i]]
  BY <1>1 DEF QueueFromTopic
<1>4. CheckStillHolds'
  <2>1. ASSUME step \in {"peek", "push"}
        PROVE  ~ HasBuzzed(BuzzerSession, Buzzer)'
    <3>1. resolved < Len(feed) /\ resolved \in Nat
      BY <2>1 DEF TypeOK, ConsumerInTopic
    <3>2. feed'[Pending] = feed[Pending]
      BY <1>1, <3>1 DEF Pending
    <3>3. feed[Pending] \in Message
      BY <1>1, <3>1, LenProperties DEF TypeOK, Pending
    <3>4. BuzzerSession \in Sessions /\ BuzzerSession' = BuzzerSession
          /\ Buzzer' = Buzzer
      BY <3>2, <3>3, SessionOfType DEF Message, BuzzerSession, Buzzer, Pending
    <3>5. ~ HasBuzzed(BuzzerSession, Buzzer)
      BY <2>1 DEF CheckStillHolds
    <3> QED BY <1>3, <3>4, <3>5 DEF HasBuzzed
  <2> QED BY <2>1 DEF CheckStillHolds
<1>5. NoDuplicateBuzzer'
  <2> SUFFICES ASSUME NEW t \in Sessions,
                      NEW i \in DOMAIN queue[t], NEW j \in DOMAIN queue[t],
                      feed'[queue[t][i]].participant = feed'[queue[t][j]].participant
               PROVE  i = j
    BY DEF NoDuplicateBuzzer
  <2>1. /\ feed'[queue[t][i]] = feed[queue[t][i]]
        /\ feed'[queue[t][j]] = feed[queue[t][j]]
    BY <1>3
  <2> QED BY <2>1 DEF NoDuplicateBuzzer
<1>6. BuzzOrder' /\ NoBuzzSkipped' /\ AnnouncedWasQueued' /\ AnnounceAfterPush'
  BY DEF BuzzOrder, NoBuzzSkipped, AnnouncedWasQueued, AnnounceAfterPush, Pending
<1>7. ConsumerInTopic'
  BY <1>1 DEF ConsumerInTopic, TypeOK
<1> QED BY <1>2, <1>4, <1>5, <1>6, <1>7

\* The message being handled belongs to a player and hence to a session.
LEMMA PendingMessage ==
  ASSUME TypeOK, ConsumerInTopic, step # "idle" \/ resolved < Len(feed)
  PROVE  /\ Pending \in 1..Len(feed)
         /\ Buzzer \in Participants
         /\ BuzzerSession \in Sessions
<1>1. resolved < Len(feed) /\ Len(feed) \in Nat /\ resolved \in Nat
  BY LenProperties DEF TypeOK, ConsumerInTopic
<1>2. Pending \in 1..Len(feed)
  BY <1>1 DEF Pending
<1>3. feed[Pending] \in Message
  BY <1>1, <1>2, LenProperties DEF TypeOK
<1> QED BY <1>2, <1>3, SessionOfType DEF Message, Buzzer, BuzzerSession

\* The consumer's push keeps the invariant: the participant is not in the
\* queue, and every entry is older than the message being handled.
LEMMA PushInv ==
  ASSUME TypeOK, TypeOK', BuzzerInv, FeedPush
  PROVE  BuzzerInv'
<1> USE DEF BuzzerInv
<1> DEFINE s == BuzzerSession
           q == queue[s]
           n == Len(q)
<1>1. /\ Pending \in 1..Len(feed) /\ s \in Sessions
      /\ Len(feed) \in Nat /\ resolved \in Nat /\ Pending = resolved + 1
  BY PendingMessage, LenProperties DEF FeedPush, TypeOK, Pending
<1>2. /\ q \in Seq(Offsets) /\ n \in Nat /\ DOMAIN q = 1..n
      /\ Pending \in Offsets
  BY <1>1, LenProperties DEF TypeOK, Offsets
<1>3. /\ queue'[s] = Append(q, Pending)
      /\ DOMAIN queue'[s] = 1..(n + 1)
      /\ \A i \in 1..n : queue'[s][i] = q[i]
      /\ queue'[s][n + 1] = Pending
  <2>1. queue'[s] = Append(q, Pending)
    BY <1>1 DEF TypeOK, FeedPush, Push
  <2>2. /\ Append(q, Pending) \in Seq(Offsets)
        /\ Len(Append(q, Pending)) = n + 1
        /\ \A i \in 1..n : Append(q, Pending)[i] = q[i]
        /\ Append(q, Pending)[n + 1] = Pending
    BY <1>2, AppendProperties
  <2> QED BY <2>1, <2>2, LenProperties
<1>4. \A t \in Sessions : t # s => queue'[t] = queue[t]
  BY DEF TypeOK, FeedPush, Push
<1>5. /\ feed' = feed /\ resolved' = resolved /\ committed' = committed
      /\ handler' = handler /\ crashes' = crashes /\ missed' = missed
      /\ announced' = announced /\ call' = call
      /\ pushed' = pushed \cup {Pending}
      /\ step = "push" /\ step' \in {"announce", "resolve"}
  BY DEF FeedPush, sessionVars, submitVars
<1>6. \A i \in 1..n : feed[q[i]].participant # Buzzer
  BY <1>2, <1>5 DEF CheckStillHolds, HasBuzzed
<1>7. \A i \in 1..n : q[i] \in 1..Len(feed) /\ q[i] # Pending
                     /\ (crashes = 0 => q[i] < Pending)
  <2> SUFFICES ASSUME NEW i \in 1..n
               PROVE  q[i] \in 1..Len(feed) /\ q[i] # Pending
                      /\ (crashes = 0 => q[i] < Pending)
    OBVIOUS
  <2>1. q[i] \in 1..Len(feed) /\ (crashes = 0 => q[i] <= Pending)
    BY <1>1, <1>2 DEF QueueFromTopic
  <2>2. q[i] # Pending
    BY <1>6 DEF Buzzer
  <2> QED BY <1>1, <2>1, <2>2
<1>8. QueueFromTopic'
  <2> SUFFICES ASSUME NEW t \in Sessions, NEW i \in DOMAIN queue'[t]
               PROVE  /\ queue'[t][i] \in 1..Len(feed)
                      /\ queue'[t][i] \in pushed'
                      /\ crashes = 0 => queue'[t][i] <= Pending
    BY <1>5 DEF QueueFromTopic, Pending
  <2>1. CASE t # s
    BY <1>4, <1>5, <2>1 DEF QueueFromTopic
  <2>2. CASE t = s /\ i \in 1..n
    <3>1. queue'[t][i] = q[i] /\ i \in DOMAIN q
      BY <1>2, <1>3, <2>2
    <3> QED BY <1>1, <1>5, <3>1 DEF QueueFromTopic
  <2>3. CASE t = s /\ i = n + 1
    BY <1>1, <1>3, <1>5, <2>3
  <2> QED BY <1>2, <1>3, <2>1, <2>2, <2>3
<1>9. NoDuplicateBuzzer'
  <2> SUFFICES ASSUME NEW t \in Sessions,
                      NEW i \in DOMAIN queue'[t], NEW j \in DOMAIN queue'[t],
                      feed[queue'[t][i]].participant = feed[queue'[t][j]].participant
               PROVE  i = j
    BY <1>5 DEF NoDuplicateBuzzer
  <2>1. CASE t # s
    BY <1>4, <2>1 DEF NoDuplicateBuzzer
  <2>2. CASE t = s /\ i \in 1..n /\ j \in 1..n
    <3>1. queue'[t][i] = q[i] /\ i \in DOMAIN q
      BY <1>2, <1>3, <2>2
    <3>2. queue'[t][j] = q[j] /\ j \in DOMAIN q
      BY <1>2, <1>3, <2>2
    <3> QED BY <1>1, <2>2, <3>1, <3>2 DEF NoDuplicateBuzzer
  <2>3. CASE t = s /\ i = n + 1 /\ j \in 1..n
    BY <1>3, <1>6, <2>3 DEF Buzzer
  <2>4. CASE t = s /\ i \in 1..n /\ j = n + 1
    BY <1>3, <1>6, <2>4 DEF Buzzer
  <2>5. CASE t = s /\ i = n + 1 /\ j = n + 1
    BY <2>5
  <2> QED BY <1>2, <1>3, <2>1, <2>2, <2>3, <2>4, <2>5
<1>10. BuzzOrder'
  <2> SUFFICES ASSUME crashes = 0, NEW t \in Sessions,
                      NEW i \in DOMAIN queue'[t], NEW j \in DOMAIN queue'[t],
                      i < j
               PROVE  queue'[t][i] < queue'[t][j]
    BY <1>5 DEF BuzzOrder
  <2>1. CASE t # s
    BY <1>4, <2>1 DEF BuzzOrder
  <2>2. CASE t = s /\ i \in 1..n /\ j \in 1..n
    <3>1. queue'[t][i] = q[i] /\ i \in DOMAIN q
      BY <1>2, <1>3, <2>2
    <3>2. queue'[t][j] = q[j] /\ j \in DOMAIN q
      BY <1>2, <1>3, <2>2
    <3> QED BY <1>1, <2>2, <3>1, <3>2 DEF BuzzOrder
  <2>3. CASE t = s /\ i \in 1..n /\ j = n + 1
    BY <1>3, <1>7, <2>3
  <2> QED BY <1>2, <1>3, <2>1, <2>2, <2>3
<1>11. ConsumerInTopic' /\ NoBuzzSkipped' /\ AnnouncedWasQueued'
  BY <1>5 DEF ConsumerInTopic, NoBuzzSkipped, AnnouncedWasQueued
<1>12. AnnounceAfterPush' /\ CheckStillHolds'
  BY <1>5 DEF AnnounceAfterPush, CheckStillHolds, Pending
<1> QED BY <1>8, <1>9, <1>10, <1>11, <1>12

\* The consumer keeps the invariant.
LEMMA ConsumerInv ==
  ASSUME TypeOK, TypeOK', BuzzerInv, Consumer
  PROVE  BuzzerInv'
<1> USE DEF BuzzerInv, sessionVars, submitVars, historyVars
<1> DEFINE Rest == <<feed, queue, pushed, missed, announced, call, crashes>>
<1>0. Len(feed) \in Nat /\ resolved \in Nat /\ committed \in Nat
  BY LenProperties DEF TypeOK
\* A step that only moves the consumer within its message.
<1>a. ASSUME UNCHANGED Rest, UNCHANGED <<resolved, committed>>,
             ConsumerInTopic', CheckStillHolds', AnnounceAfterPush'
      PROVE  BuzzerInv'
  BY <1>a DEF QueueFromTopic, NoDuplicateBuzzer, BuzzOrder, NoBuzzSkipped,
              AnnouncedWasQueued, Pending
<1>1. CASE RegisterFeedHandler
  <2>1. ConsumerInTopic' /\ CheckStillHolds' /\ AnnounceAfterPush'
    BY <1>1 DEF RegisterFeedHandler, ConsumerInTopic, CheckStillHolds,
                AnnounceAfterPush, HasBuzzed, BuzzerSession, Buzzer, Pending
  <2> QED BY <1>1, <1>a, <2>1 DEF RegisterFeedHandler
<1>2. CASE DemoLog
  <2>1. step = "idle" /\ step' = "idle"
    BY <1>2 DEF DemoLog, ConsumerInTopic
  <2>2. ConsumerInTopic' /\ CheckStillHolds' /\ AnnounceAfterPush'
    BY <1>0, <1>2, <2>1 DEF DemoLog, ConsumerInTopic, CheckStillHolds,
                            AnnounceAfterPush, Pending
  <2>3. NoBuzzSkipped'
    BY <1>0, <1>2 DEF DemoLog, NoBuzzSkipped, Pending
  <2>4. QueueFromTopic'
    BY <1>0, <1>2 DEF DemoLog, QueueFromTopic, Pending
  <2> QED BY <1>2, <2>2, <2>3, <2>4
          DEF DemoLog, NoDuplicateBuzzer, BuzzOrder, AnnouncedWasQueued
<1>3. CASE FeedCheck
  <2>1. ConsumerInTopic' /\ CheckStillHolds' /\ AnnounceAfterPush'
    BY <1>3 DEF FeedCheck, ConsumerInTopic, CheckStillHolds,
                AnnounceAfterPush, HasBuzzed, BuzzerSession, Buzzer, Pending
  <2> QED BY <1>3, <1>a, <2>1 DEF FeedCheck
<1>4. CASE FeedPeek
  <2>1. ConsumerInTopic' /\ CheckStillHolds' /\ AnnounceAfterPush'
    BY <1>4 DEF FeedPeek, ConsumerInTopic, CheckStillHolds,
                AnnounceAfterPush, HasBuzzed, BuzzerSession, Buzzer, Pending
  <2> QED BY <1>4, <1>a, <2>1 DEF FeedPeek
<1>5. CASE FeedPush
  BY <1>5, PushInv
<1>6. CASE FeedAnnounce
  <2>1. ConsumerInTopic' /\ CheckStillHolds' /\ AnnounceAfterPush'
    BY <1>6 DEF FeedAnnounce, ConsumerInTopic, CheckStillHolds,
                AnnounceAfterPush, Pending
  <2>2. AnnouncedWasQueued'
    BY <1>6 DEF FeedAnnounce, AnnouncedWasQueued, AnnounceAfterPush
  <2> QED BY <1>6, <2>1, <2>2
          DEF FeedAnnounce, QueueFromTopic, NoDuplicateBuzzer, BuzzOrder,
              NoBuzzSkipped, Pending
<1>7. CASE FeedResolve
  <2>1. ConsumerInTopic' /\ CheckStillHolds' /\ AnnounceAfterPush'
    BY <1>0, <1>7 DEF FeedResolve, ConsumerInTopic, CheckStillHolds,
                      AnnounceAfterPush, Pending
  <2>2. NoBuzzSkipped'
    BY <1>0, <1>7 DEF FeedResolve, NoBuzzSkipped, AnnounceAfterPush, Pending
  <2>3. QueueFromTopic'
    BY <1>0, <1>7 DEF FeedResolve, QueueFromTopic, Pending
  <2> QED BY <1>7, <2>1, <2>2, <2>3
          DEF FeedResolve, NoDuplicateBuzzer, BuzzOrder, AnnouncedWasQueued
<1>8. CASE FeedFail
  <2>1. ConsumerInTopic' /\ CheckStillHolds' /\ AnnounceAfterPush'
    BY <1>8 DEF FeedFail, ConsumerInTopic, CheckStillHolds,
                AnnounceAfterPush, Pending
  <2> QED BY <1>8, <1>a, <2>1 DEF FeedFail
<1>9. CASE CommitOffset
  <2>1. ConsumerInTopic' /\ CheckStillHolds' /\ AnnounceAfterPush'
    BY <1>0, <1>9 DEF CommitOffset, ConsumerInTopic, CheckStillHolds,
                AnnounceAfterPush, HasBuzzed, BuzzerSession, Buzzer, Pending
  <2> QED BY <1>9, <2>1
          DEF CommitOffset, QueueFromTopic, NoDuplicateBuzzer, BuzzOrder,
              NoBuzzSkipped, AnnouncedWasQueued, Pending
<1> QED BY <1>1, <1>2, <1>3, <1>4, <1>5, <1>6, <1>7, <1>8, <1>9 DEF Consumer

\* The players keep the invariant: only a publication touches what it is about.
LEMMA PlayerInv ==
  ASSUME TypeOK, TypeOK', BuzzerInv, Player
  PROVE  BuzzerInv'
<1> PICK r \in Requests :
      \/ \E p \in Participants : SubmitFind(r, p)
      \/ SubmitCheck(r) \/ SubmitMark(r) \/ SubmitPublish(r)
  BY DEF Player
<1>0. \A c \in Calls : call[c].step = "announce" => call[c].next \in pushed
  BY DEF BuzzerInv, AnnounceAfterPush
<1>1. ASSUME UNCHANGED <<queue, call>>, UNCHANGED consumerState
      PROVE  BuzzerInv'
  BY <1>0, <1>1, SameQueueShrinks, ShrinkInv
<1>2. CASE (\E p \in Participants : SubmitFind(r, p))
           \/ SubmitCheck(r) \/ SubmitMark(r)
  BY <1>1, <1>2 DEF SubmitFind, SubmitCheck, SubmitMark, consumerState,
                    workerVars, historyVars
<1>3. CASE SubmitPublish(r)
  <2> DEFINE m == [question |-> submit[r].question,
                   participant |-> submit[r].participant]
  <2>1. m \in Message
    BY <1>3, SubmitFields DEF SubmitPublish, Message
  <2>2. CASE feed' = Append(feed, m)
    BY <1>3, <2>1, <2>2, PublishInv
    DEF SubmitPublish, workerVars, historyVars
  <2>3. CASE feed' = feed
    BY <1>1, <1>3, <2>3 DEF SubmitPublish, consumerState, workerVars, historyVars
  <2> QED BY <1>3, <2>2, <2>3 DEF SubmitPublish
<1> QED BY <1>2, <1>3

\* The host keeps the invariant: it only removes from the queues, and announces
\* what it found there.
LEMMA HostInv ==
  ASSUME TypeOK, TypeOK', BuzzerInv, Host
  PROVE  BuzzerInv'
<1> USE DEF consumerState, sessionVars, submitVars, workerVars, historyVars
<1> DEFINE Begun == [step : {"clear", "pop", "peekNext", "announce", "publish"},
                     session : Sessions, entry : Nat, correct : BOOLEAN,
                     next : Nat]
<1>0. \A c \in Calls : call[c].step = "announce" => call[c].next \in pushed
  BY DEF BuzzerInv, AnnounceAfterPush
<1>1. ASSUME NEW s \in Sessions, AdvanceBegin(s) \/ AdvanceRow(s)
      PROVE  BuzzerInv'
  BY <1>0, <1>1, SameQueueShrinks, ShrinkInv DEF AdvanceBegin, AdvanceRow
<1>2. ASSUME NEW s \in Sessions, AdvanceClear(s)
      PROVE  BuzzerInv'
  <2>1. Shrinks
    BY <1>2, SameQueueShrinks, PopShrinks DEF AdvanceClear
  <2> QED BY <1>0, <1>2, <2>1, ShrinkInv DEF AdvanceClear
<1>3. ASSUME NEW c \in Calls, NEW s \in Sessions, NEW correct \in BOOLEAN,
             AnswerPeek(c, s, correct) \/ AnswerUnchecked(c, s, correct)
      PROVE  BuzzerInv'
  <2>1. \A d \in Calls : call'[d].step = "announce" => call'[d].next \in pushed
    BY <1>0, <1>3 DEF AnswerPeek, AnswerUnchecked, StartAnswer, TypeOK
  <2> QED BY <1>3, <2>1, SameQueueShrinks, ShrinkInv
          DEF AnswerPeek, AnswerUnchecked
<1>4. ASSUME NEW c \in Calls, AnswerClear(c) \/ AnswerPop(c)
      PROVE  BuzzerInv'
  <2>1. call[c].session \in Sessions
    BY <1>4, CallFields DEF AnswerClear, AnswerPop
  <2>2. Shrinks
    BY <1>4, <2>1, SameQueueShrinks, PopShrinks DEF AnswerClear, AnswerPop
  <2>3. call'[c].step # "announce"
    <3>1. call[c] \in Begun
      BY <1>4, CallFields DEF AnswerClear, AnswerPop
    <3> QED BY <1>4, <3>1 DEF AnswerClear, AnswerPop, TypeOK
  <2>4. \A d \in Calls : call'[d].step = "announce" => call'[d].next \in pushed
    BY <1>0, <1>4, <2>3 DEF AnswerClear, AnswerPop, TypeOK
  <2> QED BY <1>4, <2>2, <2>4, ShrinkInv DEF AnswerClear, AnswerPop
<1>5. ASSUME NEW c \in Calls, AnswerPeekNext(c)
      PROVE  BuzzerInv'
  <2> DEFINE next == Peek(call[c].session)
  <2>1. call[c].session \in Sessions
    BY <1>5, CallFields DEF AnswerPeekNext
  <2>2. next # None => next \in pushed
    <3>1. ASSUME queue[call[c].session] # <<>>
          PROVE  Head(queue[call[c].session]) = queue[call[c].session][1]
                 /\ 1 \in DOMAIN queue[call[c].session]
      BY <2>1, <3>1, EmptySeq, LenProperties DEF TypeOK
    <3> QED BY <2>1, <3>1 DEF Peek, BuzzerInv, QueueFromTopic
  <2>3. call[c] \in Begun
    BY <1>5, CallFields DEF AnswerPeekNext
  <2>4. call'[c].step = "announce" => call'[c].next \in pushed
    BY <1>5, <2>2, <2>3 DEF AnswerPeekNext, TypeOK
  <2>5. \A d \in Calls : call'[d].step = "announce" => call'[d].next \in pushed
    BY <1>0, <1>5, <2>4 DEF AnswerPeekNext, TypeOK
  <2> QED BY <1>5, <2>5, SameQueueShrinks, ShrinkInv DEF AnswerPeekNext
<1>6. ASSUME NEW c \in Calls, AnswerAnnounce(c)
      PROVE  BuzzerInv'
  <2>1. call[c].next \in pushed
    BY <1>0, <1>6 DEF AnswerAnnounce
  <2>2. AnnouncedWasQueued'
    BY <1>6, <2>1 DEF AnswerAnnounce, AnnouncedWasQueued, BuzzerInv
  <2>3. \A d \in Calls : call'[d].step = "announce" => call'[d].next \in pushed
    BY <1>0, <1>6, CallFields DEF AnswerAnnounce, TypeOK
  <2>4. AnnounceAfterPush'
    BY <1>6, <2>3 DEF AnswerAnnounce, AnnounceAfterPush, BuzzerInv, Pending
  <2> QED BY <1>6, <2>2, <2>4
          DEF AnswerAnnounce, BuzzerInv, ConsumerInTopic, QueueFromTopic,
              CheckStillHolds, HasBuzzed, BuzzerSession, Buzzer, Pending,
              NoDuplicateBuzzer, BuzzOrder, NoBuzzSkipped
<1>7. ASSUME NEW c \in Calls, AnswerFail(c) \/ AnswerPublish(c)
      PROVE  BuzzerInv'
  <2>1. call'[c].step # "announce"
    <3>1. call[c] \in Begun
      BY <1>7, CallFields DEF AnswerFail, AnswerPublish
    <3> QED BY <1>7, <3>1 DEF AnswerFail, AnswerPublish, NoCall, TypeOK
  <2>2. \A d \in Calls : call'[d].step = "announce" => call'[d].next \in pushed
    BY <1>0, <1>7, <2>1 DEF AnswerFail, AnswerPublish, TypeOK
  <2> QED BY <1>7, <2>2, SameQueueShrinks, ShrinkInv DEF AnswerFail, AnswerPublish
<1> QED BY <1>1, <1>2, <1>3, <1>4, <1>5, <1>6, <1>7 DEF Host

\* A crash keeps the invariant: the queues stay, the consumer goes back to a
\* committed offset or, with none, to the end of the topic.
LEMMA CrashInv ==
  ASSUME TypeOK, TypeOK', BuzzerInv, Crash
  PROVE  BuzzerInv'
<1> USE DEF BuzzerInv
<1>0. /\ Len(feed) \in Nat /\ resolved \in Nat /\ committed \in Nat
      /\ resolved <= Len(feed) /\ committed <= resolved
  BY LenProperties DEF TypeOK, ConsumerInTopic
<1>1. /\ resolved' \in Nat /\ resolved' <= Len(feed) /\ committed <= resolved'
      /\ resolved' <= resolved \/ resolved' = Len(feed)
  BY <1>0 DEF Crash
<1>2. ConsumerInTopic' /\ CheckStillHolds'
  BY <1>1 DEF Crash, ConsumerInTopic, CheckStillHolds
<1>3. NoBuzzSkipped'
  <2> SUFFICES ASSUME NEW i \in 1..resolved' PROVE i \in pushed \cup missed'
    BY DEF NoBuzzSkipped, Crash
  <2>1. CASE i <= resolved
    BY <1>0, <1>1, <2>1 DEF NoBuzzSkipped, Crash
  <2>2. CASE resolved < i
    BY <1>0, <1>1, <2>2 DEF Crash, Pending
  <2> QED BY <1>0, <1>1, <2>1, <2>2
<1>4. crashes' # 0
  BY DEF Crash, TypeOK
<1>5. QueueFromTopic' /\ BuzzOrder'
  BY <1>4 DEF Crash, QueueFromTopic, BuzzOrder
<1>6. NoDuplicateBuzzer' /\ AnnouncedWasQueued'
  BY DEF Crash, NoDuplicateBuzzer, AnnouncedWasQueued
<1>7. AnnounceAfterPush'
  BY DEF Crash, AnnounceAfterPush, NoCall
<1> QED BY <1>2, <1>3, <1>5, <1>6, <1>7

\* BuzzerInv is an invariant.
THEOREM BuzzerSafety == Spec => []BuzzerInv
<1>1. Init => BuzzerInv
  BY EmptySeq
  DEF Init, BuzzerInv, ConsumerInTopic, QueueFromTopic, CheckStillHolds,
      AnnounceAfterPush, NoDuplicateBuzzer, BuzzOrder, NoBuzzSkipped,
      AnnouncedWasQueued, NoCall
<1>2. TypeOK /\ TypeOK' /\ BuzzerInv /\ [Next]_vars => BuzzerInv'
  <2> SUFFICES ASSUME TypeOK, TypeOK', BuzzerInv, [Next]_vars PROVE BuzzerInv'
    OBVIOUS
  <2>1. CASE Host
    BY <2>1, HostInv
  <2>2. CASE Player
    BY <2>2, PlayerInv
  <2>3. CASE Consumer
    BY <2>3, ConsumerInv
  <2>4. CASE Crash
    BY <2>4, CrashInv
  <2>5. CASE UNCHANGED vars
    <3>1. \A c \in Calls : call'[c].step = "announce" => call'[c].next \in pushed
      BY <2>5 DEF vars, BuzzerInv, AnnounceAfterPush
    <3>2. Shrinks
      BY <2>5, SameQueueShrinks DEF vars
    <3> QED BY <2>5, <3>1, <3>2, ShrinkInv
            DEF vars, consumerState, submitVars, workerVars, historyVars
  <2> QED BY <2>1, <2>2, <2>3, <2>4, <2>5 DEF Next
<1> QED BY <1>1, <1>2, TypeCorrect, PTL DEF Spec

\* No participant is ever twice in a buzzer queue.
THEOREM NeverQueuedTwice == Spec => []NoDuplicateBuzzer
<1>1. BuzzerInv => NoDuplicateBuzzer
  BY DEF BuzzerInv
<1> QED BY <1>1, BuzzerSafety, PTL

\* Without a crash the queues are in the order of the topic.
THEOREM QueuedInOrder == Spec => []BuzzOrder
<1>1. BuzzerInv => BuzzOrder
  BY DEF BuzzerInv
<1> QED BY <1>1, BuzzerSafety, PTL

\* The consumer passes no message it received without having queued it.
THEOREM NothingSkipped == Spec => []NoBuzzSkipped
<1>1. BuzzerInv => NoBuzzSkipped
  BY DEF BuzzerInv
<1> QED BY <1>1, BuzzerSafety, PTL

\* USER_PRESSED_BUZZER names only participants that have been queued.
THEOREM AnnouncedQueued == Spec => []AnnouncedWasQueued
<1>1. BuzzerInv => AnnouncedWasQueued
  BY DEF BuzzerInv
<1> QED BY <1>1, BuzzerSafety, PTL

----------------------------------------------------------------------------
(* Turns: nobody is judged before their turn                                *)

\* A step that lets no handler of answerBuzzer find an entry, and publishes no
\* verdict but on an entry one has.
NoneNewlyJudged ==
  /\ \A c \in Calls :
       call'[c].step # "idle" /\ call'[c].entry # None =>
         /\ call[c].step # "idle"
         /\ call'[c].entry = call[c].entry
         /\ call'[c].session = call[c].session
  /\ \A v \in verdicts' :
       v.entry # None =>
         \/ v \in verdicts
         \/ \E c \in Calls : call[c].step # "idle" /\ call[c].entry = v.entry

LEMMA JudgedStays ==
  ASSUME NoneNewlyJudged
  PROVE  Judged' \subseteq Judged
<1> SUFFICES ASSUME NEW e \in Judged' PROVE e \in Judged
  OBVIOUS
<1>1. e # None
  BY DEF Judged
<1>2. CASE \E c \in Calls : call'[c].step # "idle" /\ call'[c].entry = e
  <2>1. PICK c \in Calls : call'[c].step # "idle" /\ call'[c].entry = e
    BY <1>2
  <2>2. call[c].step # "idle" /\ call[c].entry = e
    BY <1>1, <2>1 DEF NoneNewlyJudged
  <2> QED BY <1>1, <2>2 DEF Judged
<1>3. CASE \E v \in verdicts' : v.entry = e
  <2>1. PICK v \in verdicts' : v.entry = e
    BY <1>3
  <2>2. CASE v \in verdicts
    BY <1>1, <2>1, <2>2 DEF Judged
  <2>3. CASE \E c \in Calls : call[c].step # "idle" /\ call[c].entry = e
    BY <1>1, <2>3 DEF Judged
  <2> QED BY <1>1, <2>1, <2>2, <2>3 DEF NoneNewlyJudged
<1> QED BY <1>2, <1>3 DEF Judged

\* Removing from the queues takes nobody's turn, nor does a consumer that goes
\* on or a crash.
LEMMA ShrinkTurns ==
  ASSUME TypeOK, TypeOK', TurnsOK, Shrinks, NoneNewlyJudged, feed' = feed,
         crashes' = 0 => crashes = 0 /\ resolved <= resolved'
  PROVE  TurnsOK'
<1>1. Judged' \subseteq Judged
  BY JudgedStays
<1>2. ASSUME NEW s \in Sessions, NEW i \in DOMAIN queue'[s]
      PROVE  \E j \in DOMAIN queue[s] : queue'[s][i] = queue[s][j]
  BY DEF Shrinks
<1>3. InOwnLine'
  BY <1>2 DEF TurnsOK, InOwnLine
<1>4. JudgedInTopic'
  <2> SUFFICES ASSUME NEW e \in Judged'
               PROVE  e \in 1..Len(feed) /\ (crashes' = 0 => e <= resolved' + 1)
    BY DEF JudgedInTopic, Pending
  <2>1. e \in 1..Len(feed) /\ (crashes = 0 => e <= resolved + 1)
    BY <1>1 DEF TurnsOK, JudgedInTopic, Pending
  <2>2. resolved \in Nat /\ resolved' \in Nat /\ Len(feed) \in Nat
    BY LenProperties DEF TypeOK
  <2>3. CASE crashes' = 0
    <3>1. crashes = 0 /\ resolved <= resolved'
      BY <2>3
    <3>2. e <= resolved + 1 /\ e \in Nat
      BY <2>1, <2>2, <3>1
    <3>3. \A i, m, n \in Nat : i <= m + 1 /\ m <= n => i <= n + 1
      OBVIOUS
    <3>4. e <= resolved' + 1
      BY <2>2, <3>1, <3>2, <3>3
    <3> QED BY <2>1, <3>4
  <2> QED BY <2>1, <2>3
<1>5. JudgedHere'
  BY DEF TurnsOK, JudgedHere, NoneNewlyJudged
<1>6. JudgedInOrder'
  BY <1>1, <1>2 DEF TurnsOK, JudgedInOrder
<1> QED BY <1>3, <1>4, <1>5, <1>6 DEF TurnsOK

\* Nor does a new message of the topic.
LEMMA PublishTurns ==
  ASSUME TypeOK, BuzzerInv, TurnsOK, NEW m \in Message,
         feed' = Append(feed, m),
         UNCHANGED <<queue, resolved, verdicts, call, crashes>>
  PROVE  TurnsOK'
<1>1. /\ Len(feed) \in Nat
      /\ Len(feed') = Len(feed) + 1
      /\ \A i \in 1..Len(feed) : feed'[i] = feed[i]
  BY AppendProperties, LenProperties DEF TypeOK
<1>2. Judged' = Judged
  BY DEF Judged
<1>3. \A e \in Judged : e \in 1..Len(feed) /\ feed'[e] = feed[e]
  BY <1>1 DEF TurnsOK, JudgedInTopic
<1>4. InOwnLine'
  BY <1>1 DEF TurnsOK, InOwnLine, BuzzerInv, QueueFromTopic
<1>5. JudgedInTopic'
  BY <1>1, <1>2 DEF TurnsOK, JudgedInTopic, Pending
<1>6. JudgedHere'
  <2> SUFFICES ASSUME NEW c \in Calls, call[c].step # "idle",
                      call[c].entry # None
               PROVE  SessionOf[feed'[call[c].entry].participant]
                        = call[c].session
    BY DEF JudgedHere
  <2>1. call[c].entry \in Judged
    BY DEF Judged
  <2> QED BY <1>3, <2>1 DEF TurnsOK, JudgedHere
<1>7. JudgedInOrder'
  BY <1>2, <1>3 DEF TurnsOK, JudgedInOrder
<1> QED BY <1>4, <1>5, <1>6, <1>7 DEF TurnsOK

\* The push brings the buzz being handled behind all that were judged.
LEMMA PushTurns ==
  ASSUME TypeOK, BuzzerInv, TurnsOK, FeedPush
  PROVE  TurnsOK'
<1> DEFINE s == BuzzerSession
           n == Len(queue[s])
<1>1. s \in Sessions /\ Pending \in 1..Len(feed)
  BY PendingMessage DEF FeedPush, BuzzerInv
<1>2. /\ n \in Nat
      /\ DOMAIN queue[s] = 1..n
      /\ DOMAIN queue'[s] = 1..(n + 1)
      /\ \A i \in 1..n : queue'[s][i] = queue[s][i]
      /\ queue'[s][n + 1] = Pending
  <2>1. queue[s] \in Seq(Offsets) /\ Pending \in Offsets
    BY <1>1 DEF TypeOK, Offsets
  <2>2. queue'[s] = Append(queue[s], Pending)
    BY <1>1 DEF TypeOK, FeedPush, Push
  <2> QED BY <2>1, <2>2, AppendProperties, LenProperties
<1>3. \A t \in Sessions : t # s => queue'[t] = queue[t]
  BY DEF TypeOK, FeedPush, Push
<1>4. ASSUME NEW t \in Sessions, NEW i \in DOMAIN queue'[t]
      PROVE  \/ i \in DOMAIN queue[t] /\ queue'[t][i] = queue[t][i]
             \/ t = s /\ queue'[t][i] = Pending
  BY <1>2, <1>3
<1>5. /\ feed' = feed /\ call' = call /\ verdicts' = verdicts
      /\ crashes' = crashes /\ resolved' = resolved
  BY DEF FeedPush, sessionVars, submitVars
<1>6. Judged' = Judged
  BY <1>5 DEF Judged
<1>7. InOwnLine'
  <2> SUFFICES ASSUME NEW t \in Sessions, NEW i \in DOMAIN queue'[t]
               PROVE  SessionOf[feed[queue'[t][i]].participant] = t
    BY <1>5 DEF InOwnLine
  <2> QED BY <1>4 DEF TurnsOK, InOwnLine, BuzzerSession, Buzzer
<1>8. JudgedInTopic' /\ JudgedHere'
  BY <1>5, <1>6 DEF TurnsOK, JudgedInTopic, JudgedHere, Pending
<1>9. JudgedInOrder'
  <2> SUFFICES ASSUME crashes = 0, NEW e \in Judged, NEW t \in Sessions,
                      NEW i \in DOMAIN queue'[t],
                      SessionOf[feed[e].participant] = t
               PROVE  e <= queue'[t][i]
    BY <1>5, <1>6 DEF JudgedInOrder
  <2>1. e <= Pending
    BY DEF TurnsOK, JudgedInTopic
  <2> QED BY <1>4, <2>1 DEF TurnsOK, JudgedInOrder
<1> QED BY <1>7, <1>8, <1>9 DEF TurnsOK

\* What the host is shown is the head, and the order of the queue says that the
\* others are behind it.
LEMMA PeekTurns ==
  ASSUME TypeOK, BuzzerInv, TurnsOK, NEW c \in Calls, NEW s \in Sessions,
         NEW correct \in BOOLEAN, AnswerPeek(c, s, correct)
  PROVE  TurnsOK'
<1> DEFINE h == queue[s][1]
<1>1. /\ 1 \in DOMAIN queue[s] /\ Peek(s) = h
      /\ \A i \in DOMAIN queue[s] : i \in Nat /\ (i = 1 \/ 1 < i)
      /\ \A i \in DOMAIN queue[s] : queue[s][i] \in Nat
  <2>1. queue[s] \in Seq(Offsets) /\ queue[s] # <<>>
    BY DEF TypeOK, AnswerPeek, Peek
  <2>2. DOMAIN queue[s] = 1..Len(queue[s]) /\ Len(queue[s]) \in Nat \ {0}
        /\ \A i \in DOMAIN queue[s] : queue[s][i] \in Offsets
    BY <2>1, EmptySeq, LenProperties
  <2>3. Peek(s) = Head(queue[s]) /\ Head(queue[s]) = queue[s][1]
    BY <2>1 DEF Peek
  <2> QED BY <2>2, <2>3 DEF Offsets
<1>2. /\ feed' = feed /\ queue' = queue /\ verdicts' = verdicts
      /\ crashes' = crashes /\ resolved' = resolved
  BY DEF AnswerPeek, workerVars, submitVars, historyVars
<1>3. /\ \A d \in Calls : d # c => call'[d] = call[d]
      /\ call'[c].entry = h /\ call'[c].session = s
  BY <1>1 DEF AnswerPeek, StartAnswer, TypeOK
<1>4. Judged' \subseteq Judged \cup {h}
  <2> SUFFICES ASSUME NEW e \in Judged', e # h PROVE e \in Judged
    OBVIOUS
  <2> QED BY <1>2, <1>3 DEF Judged
<1>5. /\ h \in 1..Len(feed) /\ (crashes = 0 => h <= Pending)
      /\ SessionOf[feed[h].participant] = s
  BY <1>1 DEF BuzzerInv, QueueFromTopic, TurnsOK, InOwnLine
<1>6. crashes = 0 => \A i \in DOMAIN queue[s] : h <= queue[s][i]
  <2> SUFFICES ASSUME crashes = 0, NEW i \in DOMAIN queue[s]
               PROVE  h <= queue[s][i]
    OBVIOUS
  <2>1. CASE i = 1
    BY <1>1, <2>1
  <2>2. CASE 1 < i
    <3>1. h < queue[s][i]
      BY <1>1, <2>2 DEF BuzzerInv, BuzzOrder
    <3> QED BY <1>1, <3>1
  <2> QED BY <1>1, <2>1, <2>2
<1>7. InOwnLine'
  BY <1>2 DEF TurnsOK, InOwnLine
<1>8. JudgedInTopic'
  BY <1>2, <1>4, <1>5 DEF TurnsOK, JudgedInTopic, Pending
<1>9. JudgedHere'
  BY <1>2, <1>3, <1>5 DEF TurnsOK, JudgedHere
<1>10. JudgedInOrder'
  BY <1>2, <1>4, <1>5, <1>6 DEF TurnsOK, JudgedInOrder
<1> QED BY <1>7, <1>8, <1>9, <1>10 DEF TurnsOK

\* The other steps of the host judge nobody new: a handler goes on with the
\* entry it has, and publishes its verdict on it.
LEMMA HostTurns ==
  ASSUME TypeOK, TypeOK', BuzzerInv, TurnsOK, Host
  PROVE  TurnsOK'
<1> USE DEF sessionVars, submitVars, workerVars, historyVars
<1>0. \A v \in verdicts : v.entry # None => v \in verdicts
  OBVIOUS
<1>1. ASSUME Shrinks, UNCHANGED <<feed, resolved, crashes>>, NoneNewlyJudged
      PROVE  TurnsOK'
  BY <1>1, ShrinkTurns DEF TypeOK
<1>2. ASSUME NEW s \in Sessions,
             AdvanceBegin(s) \/ AdvanceRow(s) \/ AdvanceClear(s)
      PROVE  TurnsOK'
  <2>1. NoneNewlyJudged
    BY <1>2 DEF NoneNewlyJudged, AdvanceBegin, AdvanceRow, AdvanceClear
  <2>2. Shrinks
    BY <1>2, SameQueueShrinks, PopShrinks
       DEF AdvanceBegin, AdvanceRow, AdvanceClear
  <2> QED BY <1>1, <1>2, <2>1, <2>2
          DEF AdvanceBegin, AdvanceRow, AdvanceClear
<1>3. ASSUME NEW c \in Calls, NEW s \in Sessions, NEW correct \in BOOLEAN,
             AnswerPeek(c, s, correct) \/ AnswerUnchecked(c, s, correct)
      PROVE  TurnsOK'
  <2>1. CASE AnswerPeek(c, s, correct)
    BY <2>1, PeekTurns
  <2>2. CASE AnswerUnchecked(c, s, correct)
    <3>1. \A d \in Calls : d # c => call'[d] = call[d]
      BY <2>2 DEF AnswerUnchecked, StartAnswer, TypeOK
    <3>2. call'[c].entry = None
      BY <2>2 DEF AnswerUnchecked, StartAnswer, TypeOK
    <3>3. NoneNewlyJudged
      BY <2>2, <3>1, <3>2 DEF AnswerUnchecked, NoneNewlyJudged
    <3> QED BY <1>1, <2>2, <3>3, SameQueueShrinks DEF AnswerUnchecked
  <2> QED BY <1>3, <2>1, <2>2
<1>4. ASSUME NEW c \in Calls,
             \/ AnswerClear(c) \/ AnswerPop(c) \/ AnswerPeekNext(c)
             \/ AnswerAnnounce(c) \/ AnswerFail(c)
      PROVE  TurnsOK'
  <2>1. /\ call[c].step # "idle"
        /\ UNCHANGED <<feed, resolved, crashes, verdicts>>
    BY <1>4 DEF AnswerClear, AnswerPop, AnswerPeekNext, AnswerAnnounce,
                AnswerFail
  <2>2. call[c] \in [step : {"clear", "pop", "peekNext", "announce", "publish"},
                     session : Sessions, entry : Nat, correct : BOOLEAN,
                     next : Nat]
    BY <2>1, CallFields
  <2>3. /\ \A d \in Calls : d # c => call'[d] = call[d]
        /\ call'[c].entry = call[c].entry
        /\ call'[c].session = call[c].session
    BY <1>4, <2>2 DEF AnswerClear, AnswerPop, AnswerPeekNext, AnswerAnnounce,
                      AnswerFail, TypeOK
  <2>4. NoneNewlyJudged
    BY <2>1, <2>3 DEF NoneNewlyJudged
  <2>5. Shrinks
    <3>1. call[c].session \in Sessions
      BY <2>2
    <3> QED BY <1>4, <3>1, SameQueueShrinks, PopShrinks
            DEF AnswerClear, AnswerPop, AnswerPeekNext, AnswerAnnounce,
                AnswerFail
  <2> QED BY <1>1, <2>1, <2>4, <2>5
<1>5. ASSUME NEW c \in Calls, AnswerPublish(c) PROVE TurnsOK'
  <2>1. /\ call[c].step # "idle"
        /\ UNCHANGED <<queue, feed, resolved, crashes>>
    BY <1>5 DEF AnswerPublish
  <2>2. \A d \in Calls : d # c => call'[d] = call[d]
    BY <1>5 DEF AnswerPublish, TypeOK
  <2>3. call'[c].step = "idle"
    BY <1>5 DEF AnswerPublish, NoCall, TypeOK
  <2>4. \A v \in verdicts' : v \in verdicts \/ v.entry = call[c].entry
    BY <1>5 DEF AnswerPublish
  <2>5. NoneNewlyJudged
    BY <2>1, <2>2, <2>3, <2>4 DEF NoneNewlyJudged
  <2> QED BY <1>1, <2>1, <2>5, SameQueueShrinks
<1> QED BY <1>2, <1>3, <1>4, <1>5 DEF Host

\* Nobody is judged before their turn.
THEOREM TurnsKept == Spec => []TurnsOK
<1>1. Init => TurnsOK
  BY EmptySeq
  DEF Init, TurnsOK, InOwnLine, JudgedInTopic, JudgedHere, JudgedInOrder,
      Judged, NoCall
<1>2. /\ TypeOK /\ TypeOK' /\ BuzzerInv /\ TurnsOK /\ [Next]_vars => TurnsOK'
  <2> SUFFICES ASSUME TypeOK, TypeOK', BuzzerInv, TurnsOK, [Next]_vars
               PROVE  TurnsOK'
    OBVIOUS
  <2> USE DEF sessionVars, submitVars, workerVars, historyVars
  <2>1. resolved \in Nat
    BY DEF TypeOK
  <2>2. ASSUME UNCHANGED <<queue, feed, call, verdicts, crashes>>,
               resolved <= resolved'
        PROVE  TurnsOK'
    <3>1. NoneNewlyJudged
      BY <2>2 DEF NoneNewlyJudged
    <3> QED BY <2>2, <3>1, SameQueueShrinks, ShrinkTurns
  <2>3. CASE Host
    BY <2>3, HostTurns
  <2>4. CASE Player
    <3>1. PICK r \in Requests :
            \/ \E p \in Participants : SubmitFind(r, p)
            \/ SubmitCheck(r) \/ SubmitMark(r) \/ SubmitPublish(r)
      BY <2>4 DEF Player
    <3>2. CASE SubmitPublish(r) /\ feed' # feed
      <4> DEFINE m == [question |-> submit[r].question,
                       participant |-> submit[r].participant]
      <4>1. m \in Message
        BY <3>2, SubmitFields DEF SubmitPublish, Message
      <4>2. feed' = Append(feed, m)
        BY <3>2 DEF SubmitPublish
      <4> QED BY <3>2, <4>1, <4>2, PublishTurns DEF SubmitPublish
    <3> QED BY <2>1, <2>2, <3>1, <3>2
            DEF SubmitFind, SubmitCheck, SubmitMark, SubmitPublish
  <2>5. CASE FeedPush
    BY <2>5, PushTurns
  <2>6. CASE Consumer /\ ~ FeedPush
    <3>1. UNCHANGED <<queue, feed, call, verdicts, crashes>>
      BY <2>6 DEF Consumer, RegisterFeedHandler, DemoLog, FeedCheck, FeedPeek,
                  FeedAnnounce, FeedResolve, FeedFail, CommitOffset
    <3>2. resolved' \in {resolved, resolved + 1}
      BY <2>6 DEF Consumer, RegisterFeedHandler, DemoLog, FeedCheck, FeedPeek,
                  FeedAnnounce, FeedResolve, FeedFail, CommitOffset, Pending
    <3> QED BY <2>1, <2>2, <3>1, <3>2
  <2>7. CASE Crash
    <3>1. UNCHANGED <<queue, feed, verdicts>> /\ crashes' # 0
      BY <2>7 DEF Crash, TypeOK
    <3>2. NoneNewlyJudged
      BY <2>7 DEF Crash, NoneNewlyJudged, NoCall
    <3> QED BY <3>1, <3>2, SameQueueShrinks, ShrinkTurns
  <2>8. CASE UNCHANGED vars
    BY <2>1, <2>2, <2>8 DEF vars
  <2> QED BY <2>3, <2>4, <2>5, <2>6, <2>7, <2>8 DEF Next
<1> QED BY <1>1, <1>2, TypeCorrect, BuzzerSafety, PTL DEF Spec

\* Until a crash, whoever is waiting has buzzed no earlier than anybody of the
\* session who was judged, however handlers of answerBuzzer overlap.
THEOREM JudgedInTurn == Spec => []JudgedInOrder
<1>1. TurnsOK => JudgedInOrder
  BY DEF TurnsOK
<1> QED BY <1>1, TurnsKept, PTL

----------------------------------------------------------------------------
(* The refinement of BuzzerLine                                             *)

\* A function on the places of a list is a list of the same length.
LEMMA AlongSeq ==
  ASSUME NEW q \in Seq(Offsets), NEW w \in [DOMAIN q -> Participants]
  PROVE  w \in Seq(Participants) /\ Len(w) = Len(q)
<1>1. DOMAIN q = 1..Len(q) /\ Len(q) \in Nat
  BY LenProperties
<1>2. w \in Seq(Participants)
  BY <1>1, SeqDef
<1> QED BY <1>1, <1>2, LenProperties

\* Those who wait are the players of the entries, one for one.
LEMMA WaitingPlayers ==
  ASSUME TypeOK, BuzzerInv, NEW s \in Sessions
  PROVE  /\ queue[s] \in Seq(Offsets) /\ Len(queue[s]) \in Nat
         /\ DOMAIN queue[s] = 1..Len(queue[s])
         /\ Waiting(s) \in Seq(Participants)
         /\ Len(Waiting(s)) = Len(queue[s])
         /\ \A i \in 1..Len(queue[s]) :
              /\ Waiting(s)[i] = feed[queue[s][i]].participant
              /\ feed[queue[s][i]].participant \in Participants
<1>1. /\ queue[s] \in Seq(Offsets) /\ Len(queue[s]) \in Nat
      /\ DOMAIN queue[s] = 1..Len(queue[s])
  BY LenProperties DEF TypeOK
<1>2. \A i \in DOMAIN queue[s] : feed[queue[s][i]].participant \in Participants
  <2>1. \A e \in 1..Len(feed) : feed[e] \in Message
    BY LenProperties DEF TypeOK
  <2> QED BY <1>1, <2>1 DEF BuzzerInv, QueueFromTopic, Message
<1>3. Waiting(s) \in [DOMAIN queue[s] -> Participants]
  BY <1>2 DEF Waiting
<1>4. \A i \in DOMAIN queue[s] :
        Waiting(s)[i] = feed[queue[s][i]].participant
  BY DEF Waiting
<1> QED BY <1>1, <1>2, <1>3, <1>4, AlongSeq

\* Two lines that agree in every place are the same.
LEMMA SameLine ==
  ASSUME NEW a \in Seq(Participants), NEW b \in Seq(Participants),
         Len(a) = Len(b), \A i \in 1..Len(a) : a[i] = b[i]
  PROVE  a = b
BY SeqEqual

\* A step that leaves the queue of a session alone leaves its line alone: what
\* was published stays in the topic.
LEMMA LineStays ==
  ASSUME TypeOK, BuzzerInv, NEW s \in Sessions, queue'[s] = queue[s],
         \A e \in 1..Len(feed) : feed'[e] = feed[e]
  PROVE  Waiting(s)' = Waiting(s)
<1>1. \A i \in DOMAIN queue[s] :
        feed'[queue[s][i]].participant = feed[queue[s][i]].participant
  BY DEF BuzzerInv, QueueFromTopic
<1> QED BY <1>1 DEF Waiting

\* A line in which one session's part has changed.
LEMMA OneChanges ==
  ASSUME NEW s \in Sessions, NEW b, Waiting(s)' = b,
         \A t \in Sessions : t # s => Waiting(t)' = Waiting(t)
  PROVE  [t \in Sessions |-> Waiting(t)]'
           = [[t \in Sessions |-> Waiting(t)] EXCEPT ![s] = b]
<1>1. \A t \in Sessions : Waiting(t)' = IF t = s THEN b ELSE Waiting(t)
  <2> SUFFICES ASSUME NEW t \in Sessions
               PROVE  Waiting(t)' = IF t = s THEN b ELSE Waiting(t)
    OBVIOUS
  <2> QED OBVIOUS
<1> QED BY <1>1

\* The push of the consumer is a player who presses, and was not in the line.
LEMMA PushIsPress ==
  ASSUME TypeOK, TypeOK', BuzzerInv, FeedPush
  PROVE  \E p \in Participants : Line!Press(p)
<1>1. BuzzerSession \in Sessions /\ Buzzer \in Participants
      /\ Pending \in 1..Len(feed)
  BY PendingMessage DEF FeedPush, BuzzerInv
<1> PICK s \in Sessions : s = BuzzerSession
  BY <1>1
<1> PICK p \in Participants : p = Buzzer
  BY <1>1
<1> DEFINE n == Len(queue[s])
           L == [t \in Sessions |-> Waiting(t)]
<1>2. feed' = feed /\ step = "push" /\ s = SessionOf[p]
  BY DEF FeedPush, submitVars, BuzzerSession
<1>3. /\ n \in Nat /\ DOMAIN queue[s] = 1..n
      /\ queue'[s] \in Seq(Offsets)
      /\ DOMAIN queue'[s] = 1..(n + 1) /\ Len(queue'[s]) = n + 1
      /\ \A i \in 1..n : queue'[s][i] = queue[s][i]
      /\ queue'[s][n + 1] = Pending
  <2>1. queue[s] \in Seq(Offsets) /\ Pending \in Offsets
    BY <1>1 DEF TypeOK, Offsets
  <2>2. queue'[s] = Append(queue[s], Pending)
    BY DEF TypeOK, FeedPush, Push
  <2> QED BY <2>1, <2>2, AppendProperties, LenProperties
<1>4. \A t \in Sessions : t # s => queue'[t] = queue[t]
  BY DEF TypeOK, FeedPush, Push
<1>5. ASSUME NEW t \in Sessions, t # s PROVE Waiting(t)' = Waiting(t)
  BY <1>2, <1>4, <1>5, LineStays
<1>6. Waiting(s)' = Append(Waiting(s), p)
  <2> DEFINE a == Waiting(s)'
             b == Append(Waiting(s), p)
             q == queue'[s]
  <2>1. /\ Waiting(s) \in Seq(Participants) /\ Len(Waiting(s)) = n
        /\ \A i \in 1..n : /\ Waiting(s)[i] = feed[q[i]].participant
                          /\ feed[q[i]].participant \in Participants
    BY <1>3, WaitingPlayers
  <2>2. feed[q[n + 1]].participant = p
    BY <1>3 DEF Buzzer
  <2>3. \A i \in 1..(n + 1) : i \in 1..n \/ i = n + 1
    BY <1>3
  <2>4. /\ b \in Seq(Participants) /\ Len(b) = n + 1
        /\ \A i \in 1..n : b[i] = feed[q[i]].participant
        /\ b[n + 1] = p
    <3>1. /\ b \in Seq(Participants) /\ Len(b) = n + 1
          /\ \A i \in 1..n : b[i] = Waiting(s)[i]
          /\ b[n + 1] = p
      BY <2>1, AppendProperties
    <3> QED BY <2>1, <3>1
  <2>5. /\ a = [i \in DOMAIN q |-> feed[q[i]].participant]
        /\ \A i \in DOMAIN q : a[i] = feed[q[i]].participant
    BY <1>2 DEF Waiting
  <2>6. \A i \in DOMAIN q : feed[q[i]].participant \in Participants
    BY <1>3, <2>1, <2>2, <2>3
  <2>7. a \in [DOMAIN q -> Participants]
    BY <2>5, <2>6
  <2> HIDE DEF a, b, q, n
  <2>8. a \in Seq(Participants) /\ Len(a) = n + 1
    BY <1>3, <2>7, AlongSeq DEF q
  <2>9. \A i \in 1..(n + 1) : a[i] = b[i]
    <3> SUFFICES ASSUME NEW i \in 1..(n + 1) PROVE a[i] = b[i]
      OBVIOUS
    <3>1. a[i] = feed[q[i]].participant
      BY <1>3, <2>5 DEF q
    <3>2. CASE i \in 1..n
      BY <2>4, <3>1, <3>2
    <3>3. CASE i = n + 1
      BY <2>2, <2>4, <3>1, <3>3
    <3> QED BY <2>3, <3>2, <3>3
  <2>10. a = b
    BY <2>4, <2>8, <2>9, SameLine
  <2> QED BY <2>10 DEF a, b
<1>7. L' = [L EXCEPT ![s] = Append(@, p)]
  <2> DEFINE b == Append(Waiting(s), p)
  <2> HIDE DEF b
  <2>1. L' = [L EXCEPT ![s] = b]
    BY <1>5, <1>6, OneChanges DEF b
  <2>2. L[s] = Waiting(s)
    OBVIOUS
  <2> QED BY <2>1, <2>2 DEF b
<1>8. \A i \in DOMAIN L[s] : L[s][i] # p
  BY <1>2 DEF BuzzerInv, CheckStillHolds, HasBuzzed, Waiting
<1> QED BY <1>2, <1>7, <1>8 DEF Line!Press

\* A pop moves the line on at its head, if there is anybody in it.
LEMMA PopIsMoveOn ==
  ASSUME TypeOK, TypeOK', BuzzerInv, NEW s \in Sessions, Pop(s), feed' = feed
  PROVE  Line!MoveOn(s) \/ UNCHANGED [t \in Sessions |-> Waiting(t)]
<1> DEFINE L == [t \in Sessions |-> Waiting(t)]
           n == Len(queue[s])
<1>1. ASSUME NEW t \in Sessions, queue'[t] = queue[t]
      PROVE  Waiting(t)' = Waiting(t)
  BY <1>1, LineStays
<1>2. /\ queue[s] \in Seq(Offsets) /\ n \in Nat /\ DOMAIN queue[s] = 1..n
      /\ queue'[s] = IF queue[s] = <<>> THEN <<>> ELSE Tail(queue[s])
      /\ \A t \in Sessions : t # s => queue'[t] = queue[t]
  BY WaitingPlayers DEF TypeOK, Pop
<1>3. CASE queue[s] = <<>>
  <2>1. \A t \in Sessions : queue'[t] = queue[t]
    BY <1>2, <1>3
  <2>2. \A t \in Sessions : Waiting(t)' = Waiting(t)
    BY <1>1, <2>1
  <2> QED BY <2>2
<1>4. CASE queue[s] # <<>>
  <2> DEFINE a == Waiting(s)'
             b == Tail(Waiting(s))
             q == queue'[s]
  <2>1. /\ q \in Seq(Offsets) /\ n # 0 /\ Len(q) = n - 1
        /\ DOMAIN q = 1..(n - 1)
        /\ \A i \in 1..(n - 1) : q[i] = queue[s][i + 1]
    BY <1>2, <1>4, HeadTailProperties, LenProperties, EmptySeq
  <2>2. /\ Waiting(s) \in Seq(Participants) /\ Len(Waiting(s)) = n
        /\ \A i \in 1..n : /\ Waiting(s)[i] = feed[queue[s][i]].participant
                          /\ feed[queue[s][i]].participant \in Participants
    BY WaitingPlayers
  <2>3. Waiting(s) # <<>>
    BY <2>1, <2>2, EmptySeq
  <2>4. /\ b \in Seq(Participants) /\ Len(b) = n - 1
        /\ \A i \in 1..(n - 1) : b[i] = Waiting(s)[i + 1]
    BY <2>2, <2>3, HeadTailProperties
  <2>5. /\ a = [i \in DOMAIN q |-> feed[q[i]].participant]
        /\ \A i \in DOMAIN q : a[i] = feed[q[i]].participant
    BY DEF Waiting
  <2>6. \A i \in 1..(n - 1) : i + 1 \in 1..n
    BY <1>2
  <2>7. \A i \in DOMAIN q : /\ feed[q[i]].participant \in Participants
                           /\ b[i] = feed[q[i]].participant
    <3> SUFFICES ASSUME NEW i \in 1..(n - 1)
                 PROVE  /\ feed[q[i]].participant \in Participants
                        /\ b[i] = feed[q[i]].participant
      BY <2>1
    <3>1. q[i] = queue[s][i + 1] /\ b[i] = Waiting(s)[i + 1]
      BY <2>1, <2>4
    <3>2. /\ Waiting(s)[i + 1] = feed[queue[s][i + 1]].participant
          /\ feed[queue[s][i + 1]].participant \in Participants
      BY <2>2, <2>6
    <3> QED BY <3>1, <3>2
  <2>8. a \in [DOMAIN q -> Participants]
    BY <2>5, <2>7
  <2> HIDE DEF a, b, q
  <2>9. a \in Seq(Participants) /\ Len(a) = n - 1
    BY <2>1, <2>8, AlongSeq
  <2>10. \A i \in 1..Len(a) : a[i] = b[i]
    BY <2>1, <2>5, <2>7, <2>9
  <2>11. a = b
    BY <2>4, <2>9, <2>10, SameLine
  <2>12. L' = [L EXCEPT ![s] = b]
    BY <1>1, <1>2, <2>11, OneChanges DEF a
  <2>13. L[s] = Waiting(s)
    OBVIOUS
  <2> QED BY <2>3, <2>12, <2>13 DEF Line!MoveOn, b
<1> QED BY <1>3, <1>4

\* A clear sends the line off.
LEMMA ClearIsSendOff ==
  ASSUME TypeOK, BuzzerInv, NEW s \in Sessions, Clear(s), feed' = feed
  PROVE  Line!SendOff(s)
<1> DEFINE none == <<>>
<1>1. queue'[s] = <<>> /\ \A t \in Sessions : t # s => queue'[t] = queue[t]
  BY DEF TypeOK, Clear
<1>2. \A t \in Sessions : t # s => Waiting(t)' = Waiting(t)
  BY <1>1, LineStays
<1>3. Waiting(s)' = none
  BY <1>1 DEF Waiting
<1> HIDE DEF none
<1>4. [t \in Sessions |-> Waiting(t)]'
        = [[t \in Sessions |-> Waiting(t)] EXCEPT ![s] = none]
  BY <1>2, <1>3, OneChanges
<1> QED BY <1>4 DEF Line!SendOff, none

\* A step that only adds to the topic, if anything, leaves the lines alone.
LEMMA LinesStay ==
  ASSUME TypeOK, BuzzerInv, queue' = queue,
         feed' = feed \/ \E m \in Message : feed' = Append(feed, m)
  PROVE  UNCHANGED [t \in Sessions |-> Waiting(t)]
<1>1. \A e \in 1..Len(feed) : feed'[e] = feed[e]
  <2>1. feed \in Seq(Message)
    BY DEF TypeOK
  <2>2. ASSUME NEW m \in Message
        PROVE  \A e \in 1..Len(feed) : Append(feed, m)[e] = feed[e]
    BY <2>1, AppendProperties
  <2> QED BY <2>2
<1>2. \A t \in Sessions : Waiting(t)' = Waiting(t)
  BY <1>1, LineStays
<1> QED BY <1>2

\* Each step is a step of the line or leaves it alone.
LEMMA StepKeepsLine ==
  ASSUME TypeOK, TypeOK', BuzzerInv, [Next]_vars
  PROVE  [Line!Next]_([s \in Sessions |-> Waiting(s)])
<1> DEFINE Kept == UNCHANGED [s \in Sessions |-> Waiting(s)]
<1> USE DEF sessionVars, submitVars, workerVars, historyVars
<1>1. CASE FeedPush
  <2>1. PICK p \in Participants : Line!Press(p)
    BY <1>1, PushIsPress
  <2> QED BY <2>1 DEF Line!Next
<1>2. ASSUME NEW s \in Sessions, Pop(s) \/ Clear(s), feed' = feed
      PROVE  Kept \/ Line!Next
  <2>1. Kept \/ Line!MoveOn(s) \/ Line!SendOff(s)
    BY <1>2, PopIsMoveOn, ClearIsSendOff
  <2> HIDE DEF Kept
  <2> QED BY <2>1 DEF Line!Next
<1>3. CASE feed' = feed /\ queue' = queue
  BY <1>3, LinesStay
<1>4. CASE Consumer /\ ~ FeedPush
  BY <1>3, <1>4
     DEF Consumer, RegisterFeedHandler, DemoLog, FeedCheck, FeedPeek,
         FeedAnnounce, FeedResolve, FeedFail, CommitOffset
<1>5. CASE Player
  <2>1. PICK r \in Requests :
          \/ \E p \in Participants : SubmitFind(r, p)
          \/ SubmitCheck(r) \/ SubmitMark(r) \/ SubmitPublish(r)
    BY <1>5 DEF Player
  <2>2. CASE SubmitPublish(r) /\ feed' # feed
    <3> DEFINE m == [question |-> submit[r].question,
                     participant |-> submit[r].participant]
    <3>1. m \in Message
      BY <2>2, SubmitFields DEF SubmitPublish, Message
    <3>2. feed' = Append(feed, m) /\ queue' = queue
      BY <2>2 DEF SubmitPublish
    <3> QED BY <3>1, <3>2, LinesStay
  <2> QED BY <1>3, <2>1, <2>2
          DEF SubmitFind, SubmitCheck, SubmitMark, SubmitPublish
<1>6. CASE Host
  <2>1. ASSUME NEW s \in Sessions,
               AdvanceBegin(s) \/ AdvanceRow(s) \/ AdvanceClear(s)
        PROVE  \/ feed' = feed /\ queue' = queue
               \/ Clear(s) /\ feed' = feed
    BY <2>1 DEF AdvanceBegin, AdvanceRow, AdvanceClear
  <2>2. ASSUME NEW c \in Calls, AnswerClear(c) \/ AnswerPop(c)
        PROVE  \/ feed' = feed /\ queue' = queue
               \/ \E s \in Sessions : (Pop(s) \/ Clear(s)) /\ feed' = feed
    <3>1. call[c].session \in Sessions
      BY <2>2, CallFields DEF AnswerClear, AnswerPop
    <3> QED BY <2>2, <3>1 DEF AnswerClear, AnswerPop
  <2>3. ASSUME NEW c \in Calls,
               \/ \E s \in Sessions, correct \in BOOLEAN :
                    AnswerPeek(c, s, correct) \/ AnswerUnchecked(c, s, correct)
               \/ AnswerPeekNext(c) \/ AnswerAnnounce(c)
               \/ AnswerFail(c) \/ AnswerPublish(c)
        PROVE  feed' = feed /\ queue' = queue
    BY <2>3 DEF AnswerPeek, AnswerUnchecked, AnswerPeekNext, AnswerAnnounce,
                AnswerFail, AnswerPublish
  <2>4. \/ feed' = feed /\ queue' = queue
        \/ \E s \in Sessions : (Pop(s) \/ Clear(s)) /\ feed' = feed
    BY <1>6, <2>1, <2>2, <2>3 DEF Host
  <2>5. CASE feed' = feed /\ queue' = queue
    BY <1>3, <2>5
  <2>6. CASE \E s \in Sessions : (Pop(s) \/ Clear(s)) /\ feed' = feed
    BY <1>2, <2>6
  <2> QED BY <2>4, <2>5, <2>6
<1>7. CASE Crash
  BY <1>3, <1>7 DEF Crash
<1>8. CASE UNCHANGED vars
  BY <1>3, <1>8 DEF vars
<1> QED BY <1>1, <1>4, <1>5, <1>6, <1>7, <1>8 DEF Next

\* The refinement of BuzzerLine: through failures, redeliveries, crashes and
\* whatever overlaps, the buzzer is one line per session.
THEOREM OneLine == Spec => KeepsLine
<1>1. Init => [s \in Sessions |-> Waiting(s)] = [s \in Sessions |-> <<>>]
  BY DEF Init, Waiting
<1>2. TypeOK /\ TypeOK' /\ BuzzerInv /\ [Next]_vars
        => [Line!Next]_([s \in Sessions |-> Waiting(s)])
  BY StepKeepsLine
<1> QED BY <1>1, <1>2, TypeCorrect, BuzzerSafety, PTL
        DEF Spec, KeepsLine, Line!Spec

============================================================================
