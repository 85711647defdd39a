------------------------ MODULE ResponseRecorderProofs ------------------------
(***************************************************************************)
(* Proofs about ResponseRecorder, for any quiz, players, overlapping       *)
(* requests, failures and restarts.                                        *)
(***************************************************************************)
EXTENDS ResponseRecorder, SequenceTheorems, TLAPS

Recovering == {"getSession", "getCopy", "getQuiz", "keepQuiz", "keepCurrent"}

\* What brings a handler to a step, and what it knows by then.
StepOK(h, w) ==
  /\ w \in Work
  /\ w.step \in {"setQuiz", "setFirst"} => w.event.type = "created"
  /\ w.step = "setNext" => w.event.type = "next"
  /\ w.step = "delRows" => w.event.type = "clear"
  /\ w.step \in {"delQuiz", "delCurrent"} => w.event.type \in {"ended", "clear"}
  /\ w.step \in {"getCopy", "getQuiz"} =>
       w.event.type \in {"created", "fetch", "answer", "verdict"}
  /\ w.step \in {"findExisting", "getQuizKey", "judge"} => w.event.type = "answer"
  /\ w.step \in {"getCurrent", "getSession", "keepQuiz", "keepCurrent", "getAgain", "create"} =>
       w.event.type \in {"answer", "verdict"}
  /\ w.step \in {"findExisting", "getQuizKey", "judge", "create"} => w.question # None
  /\ w.back # "getAgain" => w.question # None /\ w.event.type = "answer"
  /\ w.step = "create" /\ w.event.type = "answer" => w.event.choice.question = w.question
  /\ h # "consumer" =>
       /\ w.event \in Answer \cup Verdict \cup Asked
       /\ w.offset = 0 /\ w.step # "record"
  /\ h = "consumer" => w.event \in Event

\* The questions Valkey may hold as the current one.
Shown == IF session.status = "ABSENT" THEN Questions \cup {None}
                                     ELSE shown \cup {None, 1}

\* It has looked for another row of the player and the question.
Looked(w) ==
  /\ w.event.type = "answer"
  /\ \/ w.step \in {"getQuizKey", "judge", "create"}
     \/ w.step \in Recovering /\ w.back = "judge"

FromTopic(r) == r.offset # 0 /\ r.choice # NoChoice

ConsumerOK(w) ==
  /\ w.offset = Pending /\ Pending <= Len(topic) /\ w.event = topic[Pending]
  /\ Looked(w) =>
       \A i \in DOMAIN responses :
         ~(/\ FromTopic(responses[i]) /\ responses[i].player = w.event.player
           /\ responses[i].question = w.question)
  /\ w.step = "record" /\ Scores(w.event) => HasRow(Pending) \/ cleared

Handling ==
  /\ work \in [Handlers -> Work \cup {Idle}]
  /\ \A h \in Handlers : work[h] # Idle => StepOK(h, work[h]) /\ work[h].found \in Shown
  /\ work["consumer"] # Idle => ConsumerOK(work["consumer"])

\* A request of the host announces a question the row has had, or has by the
\* time its update is done.
HostOK(w) ==
  /\ w.events # <<>>
  /\ w.step = "save" =>
       /\ w.status # "LOBBY"
       /\ w.status = "QUESTION_ACTIVE" => w.question # None
  /\ \A i \in DOMAIN w.events :
       w.events[i].type = "next" =>
         \/ w.events[i].question \in Shown
         \/ w.step = "save" /\ w.events[i].question = w.question

Upstream ==
  /\ session.question \in shown \cup {None}
  /\ session.status = "LOBBY" => session.question = None
  /\ session.status = "QUESTION_ACTIVE" => session.question # None
  /\ \A i \in DOMAIN topic : topic[i].type = "next" => topic[i].question \in Shown
  /\ \A r \in HostRequests : host[r] # Resting => HostOK(host[r])

Kept(i) == Scores(topic[i]) => HasRow(i) \/ cleared \/ i \in missed

Offsets ==
  /\ resolved <= Len(topic) /\ committed <= Len(topic)
  /\ processed \subseteq 1..Len(topic)
  /\ \A i \in processed : Kept(i)

IInv ==
  /\ TypeOK /\ Handling /\ Upstream /\ Offsets
  /\ AnsweredOnce /\ NothingLost /\ JudgedOnItsQuestion /\ NeverAhead

----------------------------------------------------------------------------
(* The kinds of events.                                                     *)

LEMMA EventKinds ==
  ASSUME NEW e \in Event \cup Asked
  PROVE  /\ e.type \in {"created", "started", "ended", "deleted", "next", "answer",
                        "verdict", "clear", "fetch"}
         /\ e.type = "next" => e.question \in Questions /\ e \in Event
         /\ e.type = "answer" => e \in Answer
         /\ e.type = "verdict" => e \in Verdict
         /\ e.type \in {"clear", "fetch"} <=> e \in Asked
BY DEF Event, Asked, Answer, Verdict

\* The questions shown are questions, the first one among them.
LEMMA ShownType ==
  ASSUME TypeOK
  PROVE  1 \in Shown /\ None \in Shown /\ Shown \subseteq Questions \cup {None}
<1>1. 1 \in Questions
  BY QuizType DEF Questions
<1>2. shown \subseteq Questions
  BY DEF TypeOK
<1> QED BY <1>1, <1>2 DEF Shown

----------------------------------------------------------------------------
(* The steps of a handler that write no rows.                               *)

BoundsOK ==
  /\ posts \in 0..MaxPosts
  /\ faults \in 0..MaxFaults
  /\ outages \in 0..MaxOutages
  /\ expired \in 0..MaxExpired
  /\ crashes \in 0..MaxCrashes

LEMMA OutageCounted ==
  ASSUME TypeOK, Outage \/ NoOutage, UNCHANGED otherBounds
  PROVE  BoundsOK'
BY BoundsType DEF TypeOK, Outage, NoOutage, otherBounds, BoundsOK

\* The handler goes on with the same event, and knows no less.
Follows(old, w) ==
  /\ w.event = old.event /\ w.offset = old.offset
  /\ Looked(w) => Looked(old) /\ w.question = old.question
  /\ ~(w.step = "record" /\ Scores(w.event))

LEMMA Moves ==
  ASSUME IInv, NEW h \in Handlers, NEW w, w = Idle \/ (StepOK(h, w) /\ w.found \in Shown),
         h = "consumer" /\ w # Idle => ConsumerOK(w),
         work' = [work EXCEPT ![h] = w],
         UNCHANGED <<upstream, offsets, table>>,
         quizKey' \in BOOLEAN, current' \in Questions \cup {None}, current' \in Shown,
         copy' \in {"none", "full", "plain"}, BoundsOK'
  PROVE  IInv'
<1>1. UNCHANGED <<session, shown, host, pending, asked, topic, resolved, committed, processed,
                  missed, responses, cleared>>
  BY DEF upstream, offsets, table
<1>2. \A g \in Handlers : work'[g] = IF g = h THEN w ELSE work[g]
  BY DEF IInv, Handling
<1>3. w \in Work \cup {Idle} /\ work' \in [Handlers -> Work \cup {Idle}]
  BY DEF IInv, Handling, StepOK
<1>4. TypeOK'
  BY <1>1, <1>3 DEF IInv, TypeOK, BoundsOK
<1>5. Handling'
  <2>1. \A g \in Handlers : work'[g] # Idle => StepOK(g, work'[g]) /\ work'[g].found \in Shown
    BY <1>2 DEF IInv, Handling
  <2>2. "consumer" \in Handlers
    BY DEF Handlers
  <2>3. work'["consumer"] # Idle => ConsumerOK(work'["consumer"])
    BY <1>2, <2>2 DEF IInv, Handling
  <2>4. \A x : ConsumerOK(x) => ConsumerOK(x)'
    BY <1>1 DEF ConsumerOK, Pending, HasRow
  <2> QED BY <1>1, <1>3, <2>1, <2>3 DEF Handling, Shown, ConsumerOK, Pending, HasRow
<1>6. Upstream'
  BY <1>1 DEF IInv, Upstream, HostOK, Shown
<1>7. Offsets' /\ NothingLost'
  BY <1>1 DEF IInv, Offsets, NothingLost, Kept, HasRow
<1>8. AnsweredOnce' /\ JudgedOnItsQuestion'
  BY <1>1 DEF IInv, AnsweredOnce, JudgedOnItsQuestion
<1>9. NeverAhead'
  BY <1>1 DEF NeverAhead, Shown
<1> QED BY <1>4, <1>5, <1>6, <1>7, <1>8, <1>9 DEF IInv

\* A handler at a step.
LEMMA AtAStep ==
  ASSUME IInv, NEW h \in Handlers, NEW step, At(h, step)
  PROVE  /\ work[h] # Idle /\ work[h] \in Work /\ work[h].step = step
         /\ StepOK(h, work[h]) /\ work[h].found \in Shown
         /\ h = "consumer" => ConsumerOK(work[h])
BY DEF At, IInv, Handling, StepOK

\* It goes on with the same event.
LEMMA GoesOn ==
  ASSUME IInv, NEW h \in Handlers, NEW step, At(h, step),
         NEW w, w = Idle \/ (StepOK(h, w) /\ w.found \in Shown /\ Follows(work[h], w)),
         work' = [work EXCEPT ![h] = w],
         UNCHANGED <<upstream, offsets, table>>,
         quizKey' \in BOOLEAN, current' \in Questions \cup {None}, current' \in Shown,
         copy' \in {"none", "full", "plain"}, BoundsOK'
  PROVE  IInv'
<1>1. h = "consumer" => ConsumerOK(work[h])
  BY AtAStep
<1>2. ASSUME h = "consumer", w # Idle
      PROVE  ConsumerOK(w)
  <2>1. ConsumerOK(work[h]) /\ Follows(work[h], w)
    BY <1>1, <1>2, AtAStep
  <2> QED BY <2>1 DEF ConsumerOK, Follows
<1>3. work[h] # Idle
  BY AtAStep
<1> QED BY <1>2, <1>3, Moves

Stepped(h, step) == [work[h] EXCEPT !.step = step]
Recovers(h, back) == [work[h] EXCEPT !.step = "getSession", !.back = back]

LEMMA SteppedIs ==
  ASSUME IInv, NEW h \in Handlers, NEW old, At(h, old), NEW step \in Step
  PROVE  LET w == Stepped(h, step)
         IN  /\ w \in Work /\ w.step = step /\ w.event = work[h].event
             /\ w.offset = work[h].offset /\ w.question = work[h].question
             /\ w.found = work[h].found /\ w.back = work[h].back
             /\ Goto(h, step) => work' = [work EXCEPT ![h] = w]
<1>1. work[h] \in Work
  BY AtAStep
<1> QED BY <1>1 DEF Stepped, Goto, Work, IInv, Handling

LEMMA RecoversIs ==
  ASSUME IInv, NEW h \in Handlers, NEW old, At(h, old),
         NEW back \in {"getAgain", "judge", "throw"}
  PROVE  LET w == Recovers(h, back)
         IN  /\ w \in Work /\ w.step = "getSession" /\ w.event = work[h].event
             /\ w.offset = work[h].offset /\ w.question = work[h].question
             /\ w.found = work[h].found /\ w.back = back
             /\ Recover(h, back) => work' = [work EXCEPT ![h] = w]
<1>1. work[h] \in Work
  BY AtAStep
<1> QED BY <1>1 DEF Recovers, Recover, Work, Step, IInv, Handling

\* Nothing but the handler has changed, or a key of Valkey as well.
LEMMA ValkeyKept ==
  ASSUME IInv
  PROVE  /\ quizKey \in BOOLEAN /\ current \in Questions \cup {None} /\ current \in Shown
         /\ copy \in {"none", "full", "plain"} /\ BoundsOK
BY DEF IInv, TypeOK, NeverAhead, Shown, BoundsOK

\* The keys of the quiz.
LEMMA SetQuizStep ==
  ASSUME IInv, NEW h \in Handlers, SetQuiz(h)
  PROVE  IInv'
<1> DEFINE w == Stepped(h, "getCopy")
<1>1. /\ At(h, "setQuiz") /\ Goto(h, "getCopy") /\ (Outage \/ NoOutage) /\ UNCHANGED otherBounds
      /\ UNCHANGED <<upstream, offsets, table, current, copy>> /\ quizKey' \in BOOLEAN
  BY DEF SetQuiz, IInv, TypeOK
<1>2. /\ w \in Work /\ w.step = "getCopy" /\ w.event = work[h].event /\ w.back = work[h].back
      /\ w.offset = work[h].offset /\ w.question = work[h].question /\ w.found = work[h].found
      /\ work' = [work EXCEPT ![h] = w]
  BY <1>1, SteppedIs DEF Step
<1>3. StepOK(h, work[h]) /\ work[h].step = "setQuiz" /\ work[h].found \in Shown
  BY <1>1, AtAStep
<1> HIDE DEF w
<1>4. StepOK(h, w) /\ Follows(work[h], w)
  BY <1>2, <1>3 DEF StepOK, Follows, Looked, Scores, Recovering
<1>5. BoundsOK'
  BY <1>1, OutageCounted DEF IInv
<1> QED BY <1>1, <1>2, <1>3, <1>4, <1>5, ValkeyKept, GoesOn

LEMMA DelQuizStep ==
  ASSUME IInv, NEW h \in Handlers, DelQuiz(h)
  PROVE  IInv'
<1> DEFINE w == Stepped(h, "delCurrent")
<1>1. /\ At(h, "delQuiz") /\ Goto(h, "delCurrent") /\ (Outage \/ NoOutage) /\ UNCHANGED otherBounds
      /\ UNCHANGED <<upstream, offsets, table, current, copy>> /\ quizKey' \in BOOLEAN
  BY DEF DelQuiz, IInv, TypeOK
<1>2. /\ w \in Work /\ w.step = "delCurrent" /\ w.event = work[h].event /\ w.back = work[h].back
      /\ w.offset = work[h].offset /\ w.question = work[h].question /\ w.found = work[h].found
      /\ work' = [work EXCEPT ![h] = w]
  BY <1>1, SteppedIs DEF Step
<1>3. StepOK(h, work[h]) /\ work[h].step = "delQuiz" /\ work[h].found \in Shown
  BY <1>1, AtAStep
<1> HIDE DEF w
<1>4. StepOK(h, w) /\ Follows(work[h], w)
  BY <1>2, <1>3 DEF StepOK, Follows, Looked, Scores, Recovering
<1>5. BoundsOK'
  BY <1>1, OutageCounted DEF IInv
<1> QED BY <1>1, <1>2, <1>3, <1>4, <1>5, ValkeyKept, GoesOn

LEMMA KeepQuizStep ==
  ASSUME IInv, NEW h \in Handlers, KeepQuiz(h)
  PROVE  IInv'
<1> DEFINE w == Stepped(h, "keepCurrent")
<1>1. /\ At(h, "keepQuiz") /\ Goto(h, "keepCurrent") /\ (Outage \/ NoOutage) /\ UNCHANGED otherBounds
      /\ UNCHANGED <<upstream, offsets, table, current, copy>> /\ quizKey' \in BOOLEAN
  BY DEF KeepQuiz, IInv, TypeOK
<1>2. /\ w \in Work /\ w.step = "keepCurrent" /\ w.event = work[h].event /\ w.back = work[h].back
      /\ w.offset = work[h].offset /\ w.question = work[h].question /\ w.found = work[h].found
      /\ work' = [work EXCEPT ![h] = w]
  BY <1>1, SteppedIs DEF Step
<1>3. StepOK(h, work[h]) /\ work[h].step = "keepQuiz" /\ work[h].found \in Shown
  BY <1>1, AtAStep
<1> HIDE DEF w
<1>4. StepOK(h, w) /\ Follows(work[h], w)
  BY <1>2, <1>3 DEF StepOK, Follows, Looked, Scores, Recovering
<1>5. BoundsOK'
  BY <1>1, OutageCounted DEF IInv
<1> QED BY <1>1, <1>2, <1>3, <1>4, <1>5, ValkeyKept, GoesOn

\* The current question, as an event announces it.
LEMMA SetFirstStep ==
  ASSUME IInv, NEW h \in Handlers, SetFirst(h)
  PROVE  IInv'
<1> DEFINE w == Stepped(h, "record")
<1>1. /\ At(h, "setFirst") /\ Goto(h, "record") /\ (Outage \/ NoOutage) /\ UNCHANGED otherBounds
      /\ UNCHANGED <<upstream, offsets, table, quizKey, copy>>
      /\ current' = 1 \/ current' = current
  BY DEF SetFirst
<1>2. /\ w \in Work /\ w.step = "record" /\ w.event = work[h].event /\ w.back = work[h].back
      /\ w.offset = work[h].offset /\ w.question = work[h].question /\ w.found = work[h].found
      /\ work' = [work EXCEPT ![h] = w]
  BY <1>1, SteppedIs DEF Step
<1>3. /\ StepOK(h, work[h]) /\ work[h].step = "setFirst" /\ work[h].found \in Shown
      /\ work[h] \in Work
  BY <1>1, AtAStep
<1>4. h = "consumer"
  BY <1>3 DEF StepOK, Answer, Verdict, Asked
<1> HIDE DEF w
<1>5. StepOK(h, w) /\ Follows(work[h], w)
  BY <1>2, <1>3, <1>4 DEF StepOK, Follows, Looked, Scores, Recovering
<1>6. current' \in Questions \cup {None} /\ current' \in Shown
  BY <1>1, ShownType, ValkeyKept, QuizType DEF Questions, IInv
<1>7. BoundsOK'
  BY <1>1, OutageCounted DEF IInv
<1> QED BY <1>1, <1>2, <1>3, <1>5, <1>6, <1>7, ValkeyKept, GoesOn

LEMMA SetNextStep ==
  ASSUME IInv, NEW h \in Handlers, SetNext(h)
  PROVE  IInv'
<1> DEFINE w == Stepped(h, "record")
<1>1. /\ At(h, "setNext") /\ Goto(h, "record") /\ (Outage \/ NoOutage) /\ UNCHANGED otherBounds
      /\ UNCHANGED <<upstream, offsets, table, quizKey, copy>>
      /\ current' = work[h].event.question \/ current' = current
  BY DEF SetNext
<1>2. /\ w \in Work /\ w.step = "record" /\ w.event = work[h].event /\ w.back = work[h].back
      /\ w.offset = work[h].offset /\ w.question = work[h].question /\ w.found = work[h].found
      /\ work' = [work EXCEPT ![h] = w]
  BY <1>1, SteppedIs DEF Step
<1>3. /\ StepOK(h, work[h]) /\ work[h].step = "setNext" /\ work[h].found \in Shown
      /\ work[h] \in Work
  BY <1>1, AtAStep
<1>4. h = "consumer"
  BY <1>3 DEF StepOK, Answer, Verdict, Asked
<1> HIDE DEF w
<1>5. StepOK(h, w) /\ Follows(work[h], w)
  BY <1>2, <1>3, <1>4 DEF StepOK, Follows, Looked, Scores, Recovering
<1>6. current' \in Questions \cup {None} /\ current' \in Shown
  <2>1. /\ work[h].event.type = "next" /\ work[h].event \in Event
        /\ work[h].event = topic[Pending] /\ Pending \in 1..Len(topic)
    <3>1. ConsumerOK(work[h])
      BY <1>1, <1>4, AtAStep
    <3> QED BY <1>3, <1>4, <3>1 DEF StepOK, ConsumerOK, Pending, IInv, TypeOK
  <2>2. work[h].event.question \in Questions
    BY <2>1, EventKinds
  <2>3. work[h].event.question \in Shown
    BY <2>1 DEF IInv, Upstream, TypeOK
  <2> QED BY <1>1, <2>2, <2>3, ValkeyKept
<1>7. BoundsOK'
  BY <1>1, OutageCounted DEF IInv
<1> QED BY <1>1, <1>2, <1>3, <1>5, <1>6, <1>7, ValkeyKept, GoesOn

\* The handler ends, or goes on with the same event.
Proceeds(h) ==
  \E w : /\ w = Idle \/ (StepOK(h, w) /\ w.found \in Shown /\ Follows(work[h], w))
         /\ work' = [work EXCEPT ![h] = w]

LEMMA Proceeding ==
  ASSUME IInv, NEW h \in Handlers, NEW step, At(h, step), Proceeds(h),
         UNCHANGED <<upstream, offsets, table>>, Outage \/ NoOutage, UNCHANGED otherBounds,
         quizKey' \in BOOLEAN, current' \in Questions \cup {None}, current' \in Shown,
         copy' \in {"none", "full", "plain"}
  PROVE  IInv'
<1>1. BoundsOK'
  BY OutageCounted DEF IInv
<1> QED BY <1>1, GoesOn DEF Proceeds

LEMMA ProceedingAlone ==
  ASSUME IInv, NEW h \in Handlers, NEW step, At(h, step), Proceeds(h),
         UNCHANGED <<upstream, offsets, table, valkey>>, Outage \/ NoOutage,
         UNCHANGED otherBounds
  PROVE  IInv'
BY Proceeding, ValkeyKept DEF valkey

LEMMA ThrowProceeds ==
  ASSUME NEW h \in Handlers, Throw(h)
  PROVE  Proceeds(h)
BY DEF Throw, Proceeds

LEMMA GotoProceeds ==
  ASSUME IInv, NEW h \in Handlers, NEW old, At(h, old), NEW step \in Step, Goto(h, step),
         \A w : /\ w \in Work /\ w.step = step /\ w.event = work[h].event
                /\ w.offset = work[h].offset /\ w.question = work[h].question
                /\ w.back = work[h].back
                => StepOK(h, w) /\ Follows(work[h], w)
  PROVE  Proceeds(h)
<1> DEFINE w == Stepped(h, step)
<1>1. /\ w \in Work /\ w.step = step /\ w.event = work[h].event /\ w.back = work[h].back
      /\ w.offset = work[h].offset /\ w.question = work[h].question /\ w.found = work[h].found
      /\ work' = [work EXCEPT ![h] = w]
  BY SteppedIs
<1>2. work[h].found \in Shown
  BY AtAStep
<1> HIDE DEF w
<1>3. StepOK(h, w) /\ Follows(work[h], w) /\ w.found \in Shown
  BY <1>1, <1>2
<1> QED BY <1>1, <1>3 DEF Proceeds

LEMMA RecoverProceeds ==
  ASSUME IInv, NEW h \in Handlers, NEW old, At(h, old),
         NEW back \in {"getAgain", "judge", "throw"}, Recover(h, back),
         work[h].event.type \in {"answer", "verdict"},
         back # "getAgain" => work[h].question # None /\ work[h].event.type = "answer",
         back = "judge" => old = "getQuizKey"
  PROVE  Proceeds(h)
<1> DEFINE w == Recovers(h, back)
<1>1. /\ w \in Work /\ w.step = "getSession" /\ w.event = work[h].event /\ w.back = back
      /\ w.offset = work[h].offset /\ w.question = work[h].question /\ w.found = work[h].found
      /\ work' = [work EXCEPT ![h] = w]
  BY RecoversIs
<1>2. work[h].found \in Shown /\ StepOK(h, work[h]) /\ work[h].step = old
  BY AtAStep
<1> HIDE DEF w
<1>3. StepOK(h, w)
  BY <1>1, <1>2 DEF StepOK
<1>4. Follows(work[h], w)
  BY <1>1, <1>2 DEF Follows, Looked
<1> QED BY <1>1, <1>2, <1>3, <1>4 DEF Proceeds

\* What fetchQuizz is followed by.
LEMMA FetchedProceeds ==
  ASSUME IInv, NEW h \in Handlers, NEW old \in {"getCopy", "getQuiz"}, At(h, old), Fetched(h)
  PROVE  Proceeds(h)
<1>1. StepOK(h, work[h]) /\ work[h].step = old
  BY AtAStep
<1>2. CASE work[h].event.type = "created"
  <2>1. Goto(h, "setFirst")
    BY <1>2 DEF Fetched
  <2> QED BY <1>1, <1>2, <2>1, ZenonT(60), GotoProceeds DEF StepOK, Follows, Looked, Scores, Recovering, Step
<1>3. CASE work[h].event.type = "fetch"
  <2>1. Throw(h)
    BY <1>3 DEF Fetched
  <2> QED BY <2>1, ThrowProceeds
<1>4. CASE work[h].event.type \in {"answer", "verdict"}
  <2>1. Goto(h, "keepQuiz")
    BY <1>4 DEF Fetched
  <2> QED BY <1>1, <1>4, <2>1, ZenonT(60), GotoProceeds DEF StepOK, Follows, Looked, Scores, Recovering, Step
<1> QED BY <1>1, <1>2, <1>3, <1>4 DEF StepOK

LEMMA GetCopyStep ==
  ASSUME IInv, NEW h \in Handlers, GetCopy(h)
  PROVE  IInv'
<1>1. At(h, "getCopy") /\ UNCHANGED <<upstream, offsets, table, valkey, otherBounds>>
      /\ (Outage \/ NoOutage)
  BY DEF GetCopy
<1>2. StepOK(h, work[h]) /\ work[h].step = "getCopy"
  BY <1>1, AtAStep
<1>3. Goto(h, "getQuiz") => Proceeds(h)
  BY <1>1, <1>2, ZenonT(60), GotoProceeds DEF StepOK, Follows, Looked, Scores, Recovering, Step
<1>4. Proceeds(h)
  BY <1>1, <1>3, FetchedProceeds DEF GetCopy
<1> QED BY <1>1, <1>4, ProceedingAlone

LEMMA GetQuizStep ==
  ASSUME IInv, NEW h \in Handlers, GetQuiz(h)
  PROVE  IInv'
<1>1. At(h, "getQuiz") /\ UNCHANGED <<upstream, offsets, table, quizKey, current, otherBounds>>
      /\ (Outage \/ NoOutage) /\ copy' \in {copy, "full"} /\ Fetched(h)
  BY DEF GetQuiz
<1>2. Proceeds(h)
  BY <1>1, FetchedProceeds
<1> QED BY <1>1, <1>2, Proceeding, ValkeyKept

\* The session as ms-session has it is at a question that has been shown.
LEMMA GetSessionStep ==
  ASSUME IInv, NEW h \in Handlers, GetSession(h)
  PROVE  IInv'
<1>1. At(h, "getSession") /\ UNCHANGED <<upstream, offsets, table, valkey, bounds>>
  BY DEF GetSession
<1>2. /\ StepOK(h, work[h]) /\ work[h].step = "getSession" /\ work[h] \in Work
  BY <1>1, AtAStep
<1>3. Proceeds(h)
  <2>1. CASE Throw(h)
    BY <2>1, ThrowProceeds
  <2>2. CASE work' = [work EXCEPT ![h].found = session.question, ![h].step = "getCopy"]
    <3> DEFINE w == [work[h] EXCEPT !.found = session.question, !.step = "getCopy"]
    <3>1. session.question \in Questions \cup {None} /\ session.question \in Shown
      <4>1. /\ session.question \in Questions \cup {None}
            /\ session.question \in shown \cup {None}
        BY DEF IInv, TypeOK, SessionRow, Upstream
      <4> QED BY <4>1 DEF Shown
    <3>2. /\ w \in Work /\ w.step = "getCopy" /\ w.event = work[h].event
          /\ w.back = work[h].back /\ w.offset = work[h].offset
          /\ w.question = work[h].question /\ w.found = session.question
      BY <1>2, <3>1 DEF Work, Step
    <3>3. work' = [work EXCEPT ![h] = w]
      BY <2>2 DEF IInv, Handling
    <3> HIDE DEF w
    <3>4. StepOK(h, w) /\ Follows(work[h], w)
      BY <1>2, <3>2 DEF StepOK, Follows, Looked, Scores, Recovering
    <3> QED BY <3>1, <3>2, <3>3, <3>4 DEF Proceeds
  <2> QED BY <2>1, <2>2 DEF GetSession
<1>4. NoOutage /\ UNCHANGED otherBounds
  BY <1>1 DEF bounds, NoOutage, otherBounds
<1> QED BY <1>1, <1>3, <1>4, ProceedingAlone

LEMMA KeepCurrentStep ==
  ASSUME IInv, NEW h \in Handlers, KeepCurrent(h)
  PROVE  IInv'
<1>1. /\ At(h, "keepCurrent") /\ (Outage \/ NoOutage)
      /\ UNCHANGED <<upstream, offsets, table, quizKey, copy, otherBounds>>
      /\ current' \in {work[h].found, current}
  BY DEF KeepCurrent
<1>2. /\ StepOK(h, work[h]) /\ work[h].step = "keepCurrent" /\ work[h] \in Work
      /\ work[h].found \in Shown
  BY <1>1, AtAStep
<1>3. Proceeds(h)
  <2>1. CASE work[h].back = "throw"
    BY <2>1, ThrowProceeds DEF KeepCurrent
  <2>2. CASE work[h].back = "judge"
    <3>1. Goto(h, "judge")
      BY <2>2 DEF KeepCurrent
    <3> QED BY <1>1, <1>2, <2>2, <3>1, ZenonT(60), GotoProceeds DEF StepOK, Follows, Looked, Scores, Recovering, Step
  <2>3. CASE work[h].back = "getAgain"
    <3>1. Goto(h, "getAgain")
      BY <2>3 DEF KeepCurrent
    <3> QED BY <1>1, <1>2, <2>3, <3>1, ZenonT(60), GotoProceeds DEF StepOK, Follows, Looked, Scores, Recovering, Step
  <2> QED BY <1>2, <2>1, <2>2, <2>3 DEF Work
<1>4. current' \in Questions \cup {None} /\ current' \in Shown
  BY <1>1, <1>2, ValkeyKept DEF Work
<1> QED BY <1>1, <1>3, <1>4, Proceeding, ValkeyKept

LEMMA DelCurrentStep ==
  ASSUME IInv, NEW h \in Handlers, DelCurrent(h)
  PROVE  IInv'
<1>1. /\ At(h, "delCurrent") /\ (Outage \/ NoOutage)
      /\ UNCHANGED <<upstream, offsets, table, quizKey, copy, otherBounds>>
      /\ current' \in {None, current}
  BY DEF DelCurrent
<1>2. /\ StepOK(h, work[h]) /\ work[h].step = "delCurrent"
  BY <1>1, AtAStep
<1>3. Proceeds(h)
  <2>1. CASE h # "consumer"
    BY <2>1, ThrowProceeds DEF DelCurrent
  <2>2. CASE h = "consumer"
    <3>1. Goto(h, "record")
      BY <2>2 DEF DelCurrent
    <3> QED BY <1>1, <1>2, <2>2, <3>1, ZenonT(60), GotoProceeds DEF StepOK, Follows, Looked, Scores, Recovering, Step
  <2> QED BY <2>1, <2>2
<1>4. current' \in Questions \cup {None} /\ current' \in Shown
  BY <1>1, ValkeyKept, ShownType DEF IInv, None
<1> QED BY <1>1, <1>3, <1>4, Proceeding, ValkeyKept

\* handleAnswer.
LEMMA WithQuestionProceeds ==
  ASSUME IInv, NEW h \in Handlers, NEW old \in {"getCurrent", "getAgain"}, At(h, old),
         current # None, WithQuestion(h)
  PROVE  Proceeds(h)
<1> DEFINE next == IF work[h].event.type = "verdict" THEN "create" ELSE "findExisting"
           w == [work[h] EXCEPT !.question = current, !.step = next]
<1>1. /\ StepOK(h, work[h]) /\ work[h].step = old /\ work[h] \in Work
      /\ work[h].found \in Shown
  BY AtAStep
<1>2. current \in Questions \cup {None}
  BY DEF IInv, TypeOK
<1>3. work' = [work EXCEPT ![h] = w]
  BY DEF WithQuestion, IInv, Handling
<1>4. /\ w \in Work /\ w.step = next /\ w.event = work[h].event
      /\ w.back = work[h].back /\ w.offset = work[h].offset
      /\ w.question = current /\ w.found = work[h].found
  BY <1>1, <1>2 DEF Work, Step
<1> HIDE DEF w
<1>5. StepOK(h, w) /\ Follows(work[h], w)
  BY <1>1, <1>4 DEF StepOK, Follows, Looked, Scores, Recovering
<1> QED BY <1>1, <1>3, <1>4, <1>5 DEF Proceeds

LEMMA GetCurrentStep ==
  ASSUME IInv, NEW h \in Handlers, GetCurrent(h)
  PROVE  IInv'
<1>1. At(h, "getCurrent") /\ UNCHANGED <<upstream, offsets, table, valkey, otherBounds>>
      /\ (Outage \/ NoOutage)
  BY DEF GetCurrent
<1>2. StepOK(h, work[h]) /\ work[h].step = "getCurrent"
  BY <1>1, AtAStep
<1>3. Recover(h, "getAgain") => Proceeds(h)
  BY <1>1, <1>2, RecoverProceeds DEF StepOK
<1>4. Proceeds(h)
  BY <1>1, <1>3, WithQuestionProceeds DEF GetCurrent
<1> QED BY <1>1, <1>4, ProceedingAlone

LEMMA GetAgainStep ==
  ASSUME IInv, NEW h \in Handlers, GetAgain(h)
  PROVE  IInv'
<1>1. At(h, "getAgain") /\ UNCHANGED <<upstream, offsets, table, valkey, otherBounds>>
      /\ (Outage \/ NoOutage)
  BY DEF GetAgain
<1>2. Proceeds(h)
  BY <1>1, ThrowProceeds, WithQuestionProceeds DEF GetAgain
<1> QED BY <1>1, <1>2, ProceedingAlone

LEMMA GetQuizKeyStep ==
  ASSUME IInv, NEW h \in Handlers, GetQuizKey(h)
  PROVE  IInv'
<1>1. At(h, "getQuizKey") /\ UNCHANGED <<upstream, offsets, table, valkey, otherBounds>>
      /\ (Outage \/ NoOutage)
  BY DEF GetQuizKey
<1>2. StepOK(h, work[h]) /\ work[h].step = "getQuizKey"
  BY <1>1, AtAStep
<1>3. Recover(h, "judge") => Proceeds(h)
  BY <1>1, <1>2, RecoverProceeds DEF StepOK
<1>4. Goto(h, "judge") => Proceeds(h)
  BY <1>1, <1>2, ZenonT(60), GotoProceeds DEF StepOK, Follows, Looked, Scores, Recovering, Step
<1>5. Proceeds(h)
  BY <1>3, <1>4 DEF GetQuizKey
<1> QED BY <1>1, <1>5, ProceedingAlone

\* The choice that is judged is one of the question's.
LEMMA JudgeStep ==
  ASSUME IInv, NEW h \in Handlers, Judge(h)
  PROVE  IInv'
<1>1. At(h, "judge") /\ UNCHANGED <<upstream, offsets, table, valkey, otherBounds>>
      /\ (Outage \/ NoOutage)
  BY DEF Judge
<1>2. StepOK(h, work[h]) /\ work[h].step = "judge"
  BY <1>1, AtAStep
<1>3. Recover(h, "throw") => Proceeds(h)
  BY <1>1, <1>2, RecoverProceeds DEF StepOK
<1>4. Goto(h, "create") /\ work[h].event.choice.question = work[h].question => Proceeds(h)
  BY <1>1, <1>2, ZenonT(60), GotoProceeds DEF StepOK, Follows, Looked, Scores, Recovering, Step
<1>5. Proceeds(h)
  BY <1>3, <1>4, ThrowProceeds DEF Judge
<1> QED BY <1>1, <1>5, ProceedingAlone

\* The first time it is known that there is no other row.
LEMMA FindExistingStep ==
  ASSUME IInv, NEW h \in Handlers, FindExisting(h)
  PROVE  IInv'
<1>1. At(h, "findExisting") /\ UNCHANGED <<upstream, offsets, table, valkey, bounds>>
  BY DEF FindExisting
<1>2. /\ StepOK(h, work[h]) /\ work[h].step = "findExisting" /\ work[h].found \in Shown
      /\ work[h] # Idle
  BY <1>1, AtAStep
<1>3. NoOutage /\ UNCHANGED otherBounds
  BY <1>1 DEF bounds, NoOutage, otherBounds
<1>4. CASE Throw(h)
  BY <1>1, <1>3, <1>4, ThrowProceeds, ProceedingAlone
<1>5. CASE /\ Goto(h, "getQuizKey")
           /\ \A i \in DOMAIN responses :
                ~(/\ responses[i].player = work[h].event.player
                  /\ responses[i].question = work[h].question)
  <2> DEFINE w == Stepped(h, "getQuizKey")
  <2>1. /\ w \in Work /\ w.step = "getQuizKey" /\ w.event = work[h].event
        /\ w.back = work[h].back /\ w.offset = work[h].offset
        /\ w.question = work[h].question /\ w.found = work[h].found
        /\ work' = [work EXCEPT ![h] = w]
    BY <1>1, <1>5, SteppedIs DEF Step
  <2> HIDE DEF w
  <2>2. StepOK(h, w) /\ w.found \in Shown
    BY <1>2, <2>1 DEF StepOK
  <2>3. ASSUME h = "consumer"
        PROVE  ConsumerOK(w)
    <3>1. ConsumerOK(work[h])
      BY <1>1, <2>3, AtAStep
    <3> QED BY <1>5, <2>1, <3>1 DEF ConsumerOK
  <2>4. UNCHANGED valkey /\ BoundsOK'
    BY <1>1, <1>3, OutageCounted DEF IInv
  <2> QED BY <1>1, <1>2, <2>1, <2>2, <2>3, <2>4, Moves, ValkeyKept DEF valkey
<1> QED BY <1>4, <1>5 DEF FindExisting

LEMMA FailStep ==
  ASSUME IInv, NEW h \in Handlers, Fail(h)
  PROVE  IInv'
<1>1. PICK step : At(h, step)
  BY DEF Fail
<1>2. /\ UNCHANGED <<upstream, offsets, table, valkey, posts, outages, expired, crashes>>
      /\ Fault /\ Proceeds(h)
  BY ThrowProceeds DEF Fail
<1>3. BoundsOK'
  BY <1>2, BoundsType DEF Fault, IInv, TypeOK, BoundsOK
<1>4. UNCHANGED valkey
  BY <1>2
<1> QED BY <1>1, <1>2, <1>3, <1>4, GoesOn, ValkeyKept DEF Proceeds, valkey

----------------------------------------------------------------------------
(* Events and requests are taken up, rows are written and deleted.          *)

LEMMA ProceedsIs ==
  ASSUME IInv, NEW h \in Handlers, NEW event \in Event \cup Asked, NEW offset \in Nat,
         h = "consumer" => event \in Event,
         h # "consumer" => event \in Answer \cup Verdict \cup Asked /\ offset = 0
  PROVE  LET w == Started(event, offset)
         IN  /\ StepOK(h, w) /\ w.found \in Shown /\ ~Looked(w)
             /\ w.offset = offset /\ w.event = event
             /\ ~(w.step = "record" /\ Scores(event))
<1> DEFINE w == Started(event, offset)
<1>1. event.type \in {"created", "started", "ended", "deleted", "next", "answer", "verdict",
                      "clear", "fetch"}
  BY EventKinds
<1>2. FirstStep(event.type) \in Step
  BY <1>1 DEF FirstStep, Step
<1>3. /\ w \in Work /\ w.step = FirstStep(event.type) /\ w.event = event
      /\ w.offset = offset /\ w.question = None /\ w.found = None /\ w.back = "getAgain"
  BY <1>2 DEF Started, Work
<1>4. h # "consumer" => event.type \in {"answer", "verdict", "clear", "fetch"}
  BY DEF Answer, Verdict, Asked
<1> HIDE DEF w
<1>5. StepOK(h, w)
  BY <1>1, <1>3, <1>4 DEF StepOK, FirstStep
<1>6. w.found \in Shown
  BY <1>3, ShownType DEF IInv, None
<1>7. ~Looked(w) /\ ~(w.step = "record" /\ Scores(event))
  BY <1>3 DEF Looked, Recovering, FirstStep, Scores
<1> QED BY <1>3, <1>5, <1>6, <1>7 DEF w

LEMMA PostStep ==
  ASSUME IInv, NEW r \in Requests, Post(r)
  PROVE  IInv'
<1>1. PICK event \in Answer \cup Verdict \cup Asked :
        work' = [work EXCEPT ![r] = Started(event, 0)]
  BY DEF Post
<1>2. /\ UNCHANGED <<upstream, offsets, table, valkey>> /\ posts < MaxPosts
      /\ posts' = posts + 1 /\ UNCHANGED <<faults, outages, expired, crashes>>
  BY DEF Post
<1>3. BoundsOK'
  BY <1>2, BoundsType DEF IInv, TypeOK, BoundsOK
<1>4. r \in Handlers /\ r # "consumer" /\ event \in Event \cup Asked
  BY RequestsType DEF Handlers, Event
<1>5. StepOK(r, Started(event, 0)) /\ Started(event, 0).found \in Shown
  BY <1>4, ProceedsIs
<1>6. UNCHANGED valkey
  BY <1>2
<1> QED BY <1>1, <1>2, <1>3, <1>4, <1>5, <1>6, Moves, ValkeyKept DEF valkey

\* The offsets have moved: nothing is being handled, or the same event.
LEMMA OffsetsMove ==
  ASSUME IInv, UNCHANGED <<upstream, table, valkey, posts, faults, outages, expired>>,
         crashes' \in 0..MaxCrashes,
         work' \in [Handlers -> Work \cup {Idle}],
         \A h \in Handlers : work'[h] # Idle => work'[h] = work[h],
         work'["consumer"] # Idle => resolved' = resolved,
         resolved' \in Nat, resolved' <= Len(topic),
         committed' \in Nat, committed' <= Len(topic),
         missed' \subseteq Nat, missed \subseteq missed',
         processed' \subseteq 1..Len(topic), \A i \in processed' : Kept(i)',
         \A i \in 1..resolved' : Kept(i)'
  PROVE  IInv'
<1>1. UNCHANGED <<session, shown, host, pending, asked, topic, responses, cleared, quizKey, current,
                  copy, posts, faults, outages, expired>>
  BY DEF upstream, table, valkey
<1>2. TypeOK'
  BY <1>1 DEF IInv, TypeOK
<1>3. Handling'
  <2>1. \A h \in Handlers : work'[h] # Idle => StepOK(h, work'[h]) /\ work'[h].found \in Shown
    BY DEF IInv, Handling
  <2>2. "consumer" \in Handlers
    BY DEF Handlers
  <2>3. work'["consumer"] # Idle => ConsumerOK(work'["consumer"]) /\ resolved' = resolved
    BY <2>2 DEF IInv, Handling
  <2> QED BY <1>1, <2>1, <2>3 DEF Handling, Shown, ConsumerOK, Pending, HasRow
<1>4. Upstream'
  BY <1>1 DEF IInv, Upstream, HostOK, Shown
<1>5. Offsets'
  BY <1>1 DEF IInv, Offsets
<1>6. NothingLost'
  BY <1>1 DEF NothingLost, Kept
<1>7. AnsweredOnce' /\ JudgedOnItsQuestion' /\ NeverAhead'
  BY <1>1 DEF IInv, AnsweredOnce, JudgedOnItsQuestion, NeverAhead
<1> QED BY <1>2, <1>3, <1>4, <1>5, <1>6, <1>7 DEF IInv

LEMMA DeliverStep ==
  ASSUME IInv, Deliver
  PROVE  IInv'
<1>1. /\ work["consumer"] = Idle /\ resolved < Len(topic) /\ topic \in Seq(Event)
      /\ UNCHANGED <<upstream, committed, processed, missed, table, valkey, bounds>>
      /\ resolved \in Nat /\ Pending \in 1..Len(topic) /\ "consumer" \in Handlers
  BY DEF Deliver, IInv, TypeOK, Pending, Handlers
<1>2. CASE Pending \in processed
  <2>1. resolved' = Pending /\ UNCHANGED work
    BY <1>2 DEF Deliver
  <2>2. \A i : Kept(i)' <=> Kept(i)
    BY <1>1 DEF Kept, HasRow, upstream, table
  <2>3. \A i \in 1..resolved : Kept(i)
    BY DEF IInv, NothingLost, Kept
  <2>4. \A i \in processed : Kept(i)
    BY DEF IInv, Offsets
  <2>5. \A i \in 1..resolved' : i \in 1..resolved \/ i = Pending
    BY <1>1, <2>1 DEF Pending
  <2>6. \A i \in 1..resolved' : Kept(i)'
    BY <1>2, <2>2, <2>3, <2>4, <2>5
  <2>7. /\ committed \in Nat /\ committed <= Len(topic) /\ missed \subseteq Nat
        /\ processed \subseteq 1..Len(topic) /\ crashes \in 0..MaxCrashes
        /\ work \in [Handlers -> Work \cup {Idle}]
    BY DEF IInv, TypeOK, Offsets
  <2> QED BY <1>1, <2>1, <2>2, <2>4, <2>6, <2>7, OffsetsMove DEF bounds
<1>3. CASE Pending \notin processed
  <2> DEFINE w == Started(topic[Pending], Pending)
  <2>1. work' = [work EXCEPT !["consumer"] = w] /\ UNCHANGED resolved
    BY <1>3 DEF Deliver
  <2>2. topic[Pending] \in Event /\ Pending \in Nat
    BY <1>1
  <2>3. /\ StepOK("consumer", w) /\ w.found \in Shown /\ ~Looked(w)
        /\ w.offset = Pending /\ w.event = topic[Pending]
        /\ ~(w.step = "record" /\ Scores(w.event))
    BY <1>1, <2>2, ProceedsIs
  <2> HIDE DEF w
  <2>4. ConsumerOK(w)
    BY <1>1, <2>3 DEF ConsumerOK
  <2>5. UNCHANGED <<upstream, offsets, table, valkey>>
    BY <1>1, <2>1 DEF offsets
  <2>6. BoundsOK' /\ UNCHANGED <<quizKey, current, copy>>
    BY <1>1, ValkeyKept DEF bounds, BoundsOK, valkey
  <2> QED BY <1>1, <2>1, <2>3, <2>4, <2>5, <2>6, Moves, ValkeyKept
<1> QED BY <1>2, <1>3

LEMMA RecordStep ==
  ASSUME IInv, Record
  PROVE  IInv'
<1>1. /\ At("consumer", "record") /\ "consumer" \in Handlers
      /\ processed' = processed \cup {Pending} /\ resolved' = Pending
      /\ work' = [work EXCEPT !["consumer"] = Idle]
      /\ UNCHANGED <<upstream, committed, missed, table, valkey, bounds>>
  BY DEF Record, Throw, Handlers
<1>2. ConsumerOK(work["consumer"]) /\ work["consumer"].step = "record"
  BY <1>1, AtAStep
<1>3. Pending \in 1..Len(topic) /\ resolved \in Nat
  BY <1>2 DEF IInv, TypeOK, ConsumerOK, Pending
<1>4. \A i : Kept(i)' <=> Kept(i)
  BY <1>1 DEF Kept, HasRow, upstream, table
<1>5. Kept(Pending)
  BY <1>2 DEF ConsumerOK, Kept
<1>6. \A i \in 1..resolved : Kept(i)
  BY DEF IInv, NothingLost, Kept
<1>7. \A i \in processed : Kept(i)
  BY DEF IInv, Offsets
<1>8. \A i \in 1..resolved' : i \in 1..resolved \/ i = Pending
  BY <1>1, <1>3 DEF Pending
<1>9. \A i \in 1..resolved' : Kept(i)'
  BY <1>4, <1>5, <1>6, <1>8
<1>10. \A i \in processed' : Kept(i)'
  BY <1>1, <1>4, <1>5, <1>7
<1>11. /\ committed \in Nat /\ committed <= Len(topic) /\ missed \subseteq Nat
       /\ processed \subseteq 1..Len(topic) /\ crashes \in 0..MaxCrashes
       /\ work \in [Handlers -> Work \cup {Idle}]
  BY DEF IInv, TypeOK, Offsets
<1>12. /\ work' \in [Handlers -> Work \cup {Idle}] /\ work'["consumer"] = Idle
       /\ \A h \in Handlers : work'[h] # Idle => work'[h] = work[h]
  BY <1>1, <1>11
<1> QED BY <1>1, <1>3, <1>9, <1>10, <1>11, <1>12, OffsetsMove DEF bounds

LEMMA CommitOffsetStep ==
  ASSUME IInv, CommitOffset
  PROVE  IInv'
<1>1. /\ committed' = resolved
      /\ UNCHANGED <<upstream, work, resolved, processed, missed, table, valkey, bounds>>
  BY DEF CommitOffset
<1>2. \A i : Kept(i)' <=> Kept(i)
  BY <1>1 DEF Kept, HasRow, upstream, table
<1>3. /\ \A i \in 1..resolved : Kept(i)
      /\ \A i \in processed : Kept(i)
  BY DEF IInv, NothingLost, Offsets, Kept
<1>4. /\ resolved \in Nat /\ resolved <= Len(topic) /\ missed \subseteq Nat
      /\ processed \subseteq 1..Len(topic) /\ crashes \in 0..MaxCrashes
      /\ work \in [Handlers -> Work \cup {Idle}]
  BY DEF IInv, TypeOK, Offsets
<1> QED BY <1>1, <1>2, <1>3, <1>4, OffsetsMove DEF bounds

\* What a restart passes over is missed.
LEMMA CrashStep ==
  ASSUME IInv, Crash
  PROVE  IInv'
<1>1. /\ work' = [h \in Handlers |-> Idle] /\ crashes' = crashes + 1 /\ crashes < MaxCrashes
      /\ resolved' \in {Len(topic), committed}
      /\ missed' = missed \cup (Pending..resolved')
      /\ UNCHANGED <<upstream, committed, processed, table, valkey, posts, faults, outages,
                     expired>>
  BY DEF Crash
<1>2. /\ resolved \in Nat /\ committed \in Nat /\ committed <= Len(topic) /\ missed \subseteq Nat
      /\ processed \subseteq 1..Len(topic) /\ crashes \in 0..MaxCrashes /\ topic \in Seq(Event)
  BY DEF IInv, TypeOK, Offsets
<1>3. resolved' \in Nat /\ resolved' <= Len(topic) /\ missed' \subseteq Nat
  <2>1. Len(topic) \in Nat
    BY <1>2
  <2>2. resolved' \in Nat /\ resolved' <= Len(topic)
    BY <1>1, <1>2, <2>1
  <2>3. Pending..resolved' \subseteq Nat
    BY <1>2, <2>2 DEF Pending
  <2> QED BY <1>1, <1>2, <2>2, <2>3
<1>4. \A i : Kept(i) => Kept(i)'
  BY <1>1 DEF Kept, HasRow, upstream, table
<1>5. /\ \A i \in 1..resolved : Kept(i)
      /\ \A i \in processed : Kept(i)
  BY DEF IInv, NothingLost, Offsets, Kept
<1>6. \A i \in 1..resolved' : i \in 1..resolved \/ i \in missed'
  BY <1>1, <1>2, <1>3 DEF Pending
<1>7. \A i \in 1..resolved' : Kept(i)'
  BY <1>4, <1>5, <1>6 DEF Kept
<1>8. crashes' \in 0..MaxCrashes /\ "consumer" \in Handlers
  BY <1>1, <1>2, BoundsType DEF Handlers
<1> QED BY <1>1, <1>2, <1>3, <1>4, <1>5, <1>7, <1>8, OffsetsMove

\* Deleting the rows excuses what has no row any more.
LEMMA DelRowsStep ==
  ASSUME IInv, NEW h \in Handlers, DelRows(h)
  PROVE  IInv'
<1> DEFINE w == Stepped(h, "delQuiz")
<1>1. /\ At(h, "delRows") /\ Goto(h, "delQuiz") /\ responses' = <<>> /\ cleared' = TRUE
      /\ UNCHANGED <<upstream, offsets, valkey, bounds>>
  BY DEF DelRows
<1>2. /\ StepOK(h, work[h]) /\ work[h].step = "delRows" /\ work[h].found \in Shown
      /\ h = "consumer" => ConsumerOK(work[h])
  BY <1>1, AtAStep
<1>3. /\ w \in Work /\ w.step = "delQuiz" /\ w.event = work[h].event /\ w.back = work[h].back
      /\ w.offset = work[h].offset /\ w.question = work[h].question /\ w.found = work[h].found
      /\ work' = [work EXCEPT ![h] = w]
  BY <1>1, SteppedIs DEF Step
<1> HIDE DEF w
<1>4. StepOK(h, w)
  BY <1>2, <1>3 DEF StepOK
<1>5. \A g \in Handlers : work'[g] = IF g = h THEN w ELSE work[g]
  BY <1>3 DEF IInv, Handling
<1>6. UNCHANGED <<session, shown, host, pending, asked, topic, resolved, committed, processed, missed,
                  quizKey, current, copy, posts, faults, outages, expired, crashes>>
  BY <1>1 DEF upstream, offsets, valkey, bounds
<1>7. work' \in [Handlers -> Work \cup {Idle}]
  BY <1>3 DEF IInv, Handling
<1>8. responses' \in Seq(Response) /\ DOMAIN responses' = {}
  BY <1>1
<1>9. TypeOK'
  BY <1>1, <1>6, <1>7, <1>8 DEF IInv, TypeOK
<1>10. Handling'
  <2>1. \A g \in Handlers : work'[g] # Idle => StepOK(g, work'[g]) /\ work'[g].found \in Shown
    BY <1>2, <1>3, <1>4, <1>5 DEF IInv, Handling
  <2>2. work'["consumer"] # Idle =>
          /\ work'["consumer"].offset = Pending /\ Pending <= Len(topic)
          /\ work'["consumer"].event = topic[Pending]
    BY <1>2, <1>3, <1>5 DEF IInv, Handling, Handlers, ConsumerOK
  <2> QED BY <1>1, <1>6, <1>7, <1>8, <2>1, <2>2 DEF Handling, Shown, ConsumerOK, Pending
<1>11. Upstream' /\ NeverAhead'
  BY <1>6 DEF IInv, Upstream, HostOK, NeverAhead, Shown
<1>12. Offsets' /\ NothingLost'
  BY <1>1, <1>6 DEF IInv, Offsets, Kept, NothingLost
<1>13. AnsweredOnce' /\ JudgedOnItsQuestion'
  BY <1>8 DEF AnsweredOnce, JudgedOnItsQuestion
<1> QED BY <1>9, <1>10, <1>11, <1>12, <1>13 DEF IInv

\* The row of an answer has a choice of its question, and is the only one of
\* the topic for its player and question.
LEMMA CreateStep ==
  ASSUME IInv, NEW h \in Handlers, Create(h)
  PROVE  IInv'
<1> DEFINE row == ResponseOf(work[h])
           n == Len(responses)
           w == IF h = "consumer" THEN Stepped(h, "record") ELSE Idle
<1>1. /\ At(h, "create") /\ responses' = Append(responses, row)
      /\ IF h = "consumer" THEN Goto(h, "record") ELSE Throw(h)
      /\ UNCHANGED <<upstream, offsets, cleared, valkey, bounds>>
  BY DEF Create
<1>2. /\ StepOK(h, work[h]) /\ work[h].step = "create" /\ work[h].found \in Shown
      /\ work[h] \in Work
      /\ h = "consumer" => ConsumerOK(work[h])
  BY <1>1, AtAStep
<1>3. h = "consumer" =>
        /\ w \in Work /\ w.step = "record" /\ w.event = work[h].event
        /\ w.back = work[h].back /\ w.offset = work[h].offset
        /\ w.question = work[h].question /\ w.found = work[h].found
  BY <1>1, SteppedIs DEF Step
<1>4. work' = [work EXCEPT ![h] = w] /\ (h # "consumer" => w = Idle)
  BY <1>1, SteppedIs DEF Step, Throw
<1>5. /\ row \in Response /\ row.offset = work[h].offset
      /\ row.question = work[h].question /\ row.player = work[h].event.player
      /\ row.choice # NoChoice =>
           /\ work[h].event.type = "answer"
           /\ row.choice = work[h].event.choice /\ row.correct = work[h].event.choice.correct
  <2>1. CASE work[h].event.type = "answer"
    <3>1. work[h].event \in Answer
      BY <1>2, <2>1, EventKinds DEF Work
    <3>2. work[h].event.choice \in Choice /\ work[h].event.player \in Players
      BY <3>1 DEF Answer
    <3>3. work[h].event.choice.correct \in BOOLEAN
      BY <3>2 DEF Choice
    <3> QED BY <1>2, <2>1, <3>2, <3>3 DEF ResponseOf, Response, StepOK, Work
  <2>2. CASE work[h].event.type = "verdict"
    <3>1. work[h].event \in Verdict
      BY <1>2, <2>2, EventKinds DEF Work
    <3>2. work[h].event.correct \in BOOLEAN /\ work[h].event.player \in Players
      BY <3>1 DEF Verdict
    <3> QED BY <1>2, <2>2, <3>2 DEF ResponseOf, Response, StepOK, Work
  <2> QED BY <1>2, <2>1, <2>2 DEF StepOK
<1> HIDE DEF w, row
<1>6. h = "consumer" => StepOK(h, w)
  BY <1>2, <1>3 DEF StepOK
<1>7. \A g \in Handlers : work'[g] = IF g = h THEN w ELSE work[g]
  BY <1>4 DEF IInv, Handling
<1>8. UNCHANGED <<session, shown, host, pending, asked, topic, resolved, committed, processed, missed,
                  cleared, quizKey, current, copy, posts, faults, outages, expired, crashes>>
  BY <1>1 DEF upstream, offsets, valkey, bounds
<1>9. work' \in [Handlers -> Work \cup {Idle}]
  BY <1>3, <1>4 DEF IInv, Handling
<1>10. /\ responses' \in Seq(Response) /\ n \in Nat /\ DOMAIN responses = 1..n
       /\ DOMAIN responses' = 1..(n + 1)
       /\ \A i \in 1..n : responses'[i] = responses[i]
       /\ responses'[n + 1] = row
  BY <1>1, <1>5 DEF IInv, TypeOK
<1> HIDE DEF n
<1>11. \A i \in DOMAIN responses' : i \in DOMAIN responses \/ i = n + 1
  BY <1>10
<1>12. \A i : HasRow(i) => HasRow(i)'
  BY <1>10 DEF HasRow
<1>13. FromTopic(row) =>
         /\ h = "consumer" /\ work[h].event.type = "answer"
         /\ \A i \in DOMAIN responses :
              ~(/\ FromTopic(responses[i]) /\ responses[i].player = row.player
                /\ responses[i].question = row.question)
  <2>1. FromTopic(row) => h = "consumer" /\ work[h].event.type = "answer"
    BY <1>2, <1>5 DEF FromTopic, StepOK
  <2> QED BY <1>2, <1>5, <2>1 DEF ConsumerOK, Looked
<1>14. TypeOK'
  BY <1>8, <1>9, <1>10 DEF IInv, TypeOK
<1>15. Handling'
  <2>1. \A g \in Handlers : work'[g] # Idle => StepOK(g, work'[g]) /\ work'[g].found \in Shown
    BY <1>2, <1>3, <1>4, <1>6, <1>7 DEF IInv, Handling
  <2>2. "consumer" \in Handlers
    BY DEF Handlers
  <2>3. CASE h = "consumer"
    <3>1. work'["consumer"] = w
      BY <1>7, <2>2, <2>3
    <3>2. ConsumerOK(work[h]) /\ work'["consumer"].event = work[h].event
          /\ work'["consumer"].offset = work[h].offset
      BY <1>2, <1>3, <2>3, <3>1
    <3>3. n + 1 \in DOMAIN responses' /\ responses'[n + 1].offset = work[h].offset
      BY <1>5, <1>10
    <3>4. /\ work'["consumer"].offset = Pending /\ Pending <= Len(topic)
          /\ work'["consumer"].event = topic[Pending]
          /\ \E i \in DOMAIN responses' : responses'[i].offset = Pending
      BY <3>2, <3>3 DEF ConsumerOK
    <3>5. ~Looked(work'["consumer"])
      BY <1>3, <2>3, <3>1 DEF Looked, Recovering
    <3> QED BY <1>8, <1>9, <2>1, <3>4, <3>5 DEF Handling, Shown, ConsumerOK, Pending, HasRow, Looked, Recovering
  <2>4. CASE h # "consumer"
    <3>1. work'["consumer"] = work["consumer"]
      BY <1>7, <2>2, <2>4
    <3>2. ~FromTopic(row)
      BY <1>13, <2>4
    <3>3. \A x : ConsumerOK(x) => ConsumerOK(x)'
      BY <1>8, <1>10, <1>11, <1>12, <3>2 DEF ConsumerOK, Pending
    <3>4. work'["consumer"] # Idle => ConsumerOK(work["consumer"])'
      BY <3>1, <3>3 DEF IInv, Handling
    <3> QED BY <1>8, <1>9, <2>1, <3>1, <3>4 DEF Handling, Shown, ConsumerOK, Pending, HasRow
  <2> QED BY <2>3, <2>4
<1>16. Upstream' /\ NeverAhead'
  BY <1>8 DEF IInv, Upstream, HostOK, NeverAhead, Shown
<1>17. Offsets' /\ NothingLost'
  BY <1>8, <1>12 DEF IInv, Offsets, Kept, NothingLost
<1>18. AnsweredOnce'
  <2> SUFFICES ASSUME NEW i \in DOMAIN responses', NEW j \in DOMAIN responses',
                      FromTopic(responses'[i]), FromTopic(responses'[j]),
                      responses'[i].player = responses'[j].player,
                      responses'[i].question = responses'[j].question
               PROVE  i = j
    BY DEF AnsweredOnce, FromTopic
  <2>1. CASE i \in DOMAIN responses /\ j \in DOMAIN responses
    <3>1. responses'[i] = responses[i] /\ responses'[j] = responses[j]
      BY <1>10, <2>1
    <3> QED BY <2>1, <3>1 DEF IInv, AnsweredOnce, FromTopic
  <2>2. CASE i = n + 1 /\ j \in DOMAIN responses
    BY <1>10, <1>13, <2>2
  <2>3. CASE j = n + 1 /\ i \in DOMAIN responses
    BY <1>10, <1>13, <2>3
  <2> QED BY <1>11, <2>1, <2>2, <2>3
<1>19. JudgedOnItsQuestion'
  <2> SUFFICES ASSUME NEW i \in DOMAIN responses', responses'[i].choice # NoChoice
               PROVE  /\ responses'[i].choice.question = responses'[i].question
                      /\ responses'[i].choice.correct = responses'[i].correct
    BY DEF JudgedOnItsQuestion
  <2>1. CASE i \in DOMAIN responses
    BY <1>10, <2>1 DEF IInv, JudgedOnItsQuestion
  <2>2. CASE i = n + 1
    BY <1>2, <1>5, <1>10, <2>2 DEF StepOK
  <2> QED BY <1>11, <2>1, <2>2
<1> QED BY <1>14, <1>15, <1>16, <1>17, <1>18, <1>19 DEF IInv

----------------------------------------------------------------------------
(* Expired keys, and the copy of the quiz service.                          *)

LEMMA ValkeyMoves ==
  ASSUME IInv, UNCHANGED <<upstream, work, offsets, table>>,
         quizKey' \in BOOLEAN, current' \in {None, current},
         copy' \in {"none", "full", "plain"}, BoundsOK'
  PROVE  IInv'
<1>1. UNCHANGED <<session, shown, host, pending, asked, topic, work, resolved, committed, processed,
                  missed, responses, cleared>>
  BY DEF upstream, offsets, table
<1>2. current' \in Questions \cup {None} /\ current' \in Shown
  BY ValkeyKept, ShownType DEF IInv, None
<1>3. TypeOK'
  BY <1>1, <1>2 DEF IInv, TypeOK, BoundsOK
<1>4. Handling' /\ Upstream' /\ NeverAhead'
  BY <1>1, <1>2 DEF IInv, Handling, Upstream, HostOK, NeverAhead, Shown, ConsumerOK, Pending, HasRow
<1>5. Offsets' /\ NothingLost' /\ AnsweredOnce' /\ JudgedOnItsQuestion'
  BY <1>1 DEF IInv, Offsets, Kept, HasRow, NothingLost, AnsweredOnce, JudgedOnItsQuestion
<1> QED BY <1>3, <1>4, <1>5 DEF IInv

LEMMA ExpireSteps ==
  ASSUME IInv, ExpireQuizKey \/ ExpireCurrent \/ ExpireCopy \/ OtherCopy
  PROVE  IInv'
<1>1. /\ UNCHANGED <<upstream, work, offsets, table, posts, faults, outages, crashes>>
      /\ Expired \/ UNCHANGED expired
  BY DEF ExpireQuizKey, ExpireCurrent, ExpireCopy, OtherCopy
<1>2. /\ quizKey' \in {quizKey, FALSE} /\ current' \in {None, current}
      /\ copy' \in {copy, "none", "plain"}
  BY DEF ExpireQuizKey, ExpireCurrent, ExpireCopy, OtherCopy
<1>3. BoundsOK'
  BY <1>1, BoundsType DEF Expired, IInv, TypeOK, BoundsOK
<1>4. quizKey' \in BOOLEAN /\ copy' \in {"none", "full", "plain"}
  BY <1>2, ValkeyKept
<1>5. UNCHANGED <<upstream, work, offsets, table>>
  BY <1>1
<1> QED BY <1>2, <1>3, <1>4, <1>5, ValkeyMoves

----------------------------------------------------------------------------
(* ms-session moves its row before it publishes.                            *)

LEMMA SessionMoves ==
  ASSUME IInv, UNCHANGED <<topic, work, offsets, table, valkey>>, BoundsOK',
         session' \in SessionRow,
         session'.status = "LOBBY" => session'.question = None,
         session'.status = "QUESTION_ACTIVE" => session'.question # None,
         shown' \subseteq Questions, session'.question \in shown' \cup {None},
         Shown \subseteq Shown', host' \in [HostRequests -> HostWork \cup {Resting}],
         \A r \in HostRequests : host'[r] # Resting => HostOK(host[r])',
         pending' \in [Players -> SUBSET Choice], asked' \subseteq Questions \X Players
  PROVE  IInv'
<1>1. UNCHANGED <<topic, work, resolved, committed, processed, missed, responses, cleared,
                  quizKey, current, copy>>
  BY DEF offsets, table, valkey
<1>2. TypeOK'
  BY <1>1 DEF IInv, TypeOK, BoundsOK
<1>3. Handling'
  <2>1. \A h \in Handlers : work[h] # Idle => StepOK(h, work[h]) /\ work[h].found \in Shown'
    BY DEF IInv, Handling
  <2>2. work["consumer"] # Idle => ConsumerOK(work["consumer"])
    BY DEF IInv, Handling
  <2>3. work' \in [Handlers -> Work \cup {Idle}]
    BY <1>1 DEF IInv, Handling
  <2> QED BY <1>1, <2>1, <2>2, <2>3 DEF Handling, ConsumerOK, Pending, HasRow
<1>4. Upstream'
  <2>1. \A i \in DOMAIN topic : topic[i].type = "next" => topic[i].question \in Shown'
    BY DEF IInv, Upstream
  <2> QED BY <1>1, <2>1 DEF Upstream
<1>5. NeverAhead'
  <2>1. current' \in Shown'
    BY <1>1, ValkeyKept
  <2> QED BY <2>1 DEF NeverAhead, Shown
<1>6. Offsets' /\ NothingLost' /\ AnsweredOnce' /\ JudgedOnItsQuestion'
  BY <1>1 DEF IInv, Offsets, Kept, HasRow, NothingLost, AnsweredOnce, JudgedOnItsQuestion
<1> QED BY <1>2, <1>3, <1>4, <1>5, <1>6 DEF IInv

\* What is known of the row of the session.
LEMMA SessionIs ==
  ASSUME IInv
  PROVE  /\ session \in SessionRow /\ session.question \in shown \cup {None}
         /\ session.status = "LOBBY" => session.question = None
         /\ session.status = "QUESTION_ACTIVE" => session.question \in Questions
         /\ shown \subseteq Questions /\ asked \subseteq Questions \X Players
         /\ pending \in [Players -> SUBSET Choice]
         /\ host \in [HostRequests -> HostWork \cup {Resting}]
         /\ \A r \in HostRequests : host[r] # Resting => HostOK(host[r])
BY DEF IInv, TypeOK, Upstream, SessionRow

\* The row stays, and one request of the host moves.
LEMMA HostGoes ==
  ASSUME IInv, NEW r \in HostRequests, NEW w, w = Resting \/ (w \in HostWork /\ HostOK(w)),
         host' = [host EXCEPT ![r] = w], BoundsOK',
         UNCHANGED <<session, shown, pending, topic, work, offsets, table, valkey>>,
         asked' \subseteq Questions \X Players
  PROVE  IInv'
<1>1. Shown' = Shown
  BY DEF Shown
<1>2. host' \in [HostRequests -> HostWork \cup {Resting}]
  BY SessionIs
<1>3. \A q \in HostRequests : host'[q] = IF q = r THEN w ELSE host[q]
  BY SessionIs
<1>4. \A q \in HostRequests : host'[q] # Resting => HostOK(host'[q])
  BY <1>3, SessionIs
<1>5. \A q \in HostRequests : host'[q] # Resting => HostOK(host[q])'
  BY <1>1, <1>4 DEF HostOK
<1> QED BY <1>1, <1>2, <1>5, SessionIs, SessionMoves DEF Questions, None

LEMMA HostFinds ==
  ASSUME IInv, NEW r \in HostRequests, NEW op, NEW step \in {"save", "publish"},
         NEW status \in Status, NEW question \in Questions \cup {None},
         NEW events \in Seq(Event), HostFind(r, op, step, status, question, events),
         asked' \subseteq Questions \X Players, events # <<>>,
         step = "save" => status # "LOBBY",
         step = "save" /\ status = "QUESTION_ACTIVE" => question # None,
         \A i \in DOMAIN events : events[i].type = "next" =>
           step = "save" /\ events[i].question = question
  PROVE  IInv'
<1> DEFINE w == [step |-> step, status |-> status, question |-> question,
                 events |-> events]
<1>1. w \in HostWork
  BY DEF HostWork
<1>2. HostOK(w)
  BY DEF HostOK
<1>3. /\ host' = [host EXCEPT ![r] = w]
      /\ UNCHANGED <<session, shown, pending, topic, work, offsets, table, valkey, bounds>>
  BY DEF HostFind
<1> HIDE DEF w
<1>4. BoundsOK'
  BY <1>3, ValkeyKept DEF bounds, BoundsOK
<1> QED BY <1>1, <1>2, <1>3, <1>4, HostGoes

LEMMA HostMoves ==
  ASSUME IInv, NEW r \in HostRequests,
         HostStart(r) \/ HostNext(r) \/ HostEnd(r) \/ HostDelete(r)
           \/ \E p \in Players, correct \in BOOLEAN : HostJudge(r, p, correct)
  PROVE  IInv'
<1>1. CASE HostStart(r)
  <2> DEFINE events == <<[type |-> "started"], [type |-> "next", question |-> 1]>>
  <2>1. 1 \in Questions /\ 1 # None
    BY QuizType DEF Questions, None
  <2>2. [type |-> "started"] \in Event /\ [type |-> "next", question |-> 1] \in Event
    BY <2>1 DEF Event
  <2>3. events \in Seq(Event) /\ events # <<>>
    BY <2>2
  <2>4. \A i \in DOMAIN events : events[i].type = "next" => events[i].question = 1
    OBVIOUS
  <2>5. HostFind(r, "start", "save", "QUESTION_ACTIVE", 1, events) /\ asked' = asked
    BY <1>1 DEF HostStart
  <2> HIDE DEF events
  <2>6. asked' \subseteq Questions \X Players /\ "QUESTION_ACTIVE" \in Status
    BY <2>5, SessionIs DEF Status
  <2> QED BY <2>1, <2>3, <2>4, <2>5, <2>6, HostFinds
<1>2. CASE HostNext(r)
  <2> DEFINE q == session.question + 1
             events == <<NextEvent>>
  <2>1. /\ HostFind(r, "next", "save", "QUESTION_ACTIVE", q, events) /\ asked' = asked
        /\ session.status = "QUESTION_ACTIVE" /\ session.question < MaxQuestion
    BY <1>2 DEF HostNext
  <2>2. q \in Questions /\ q # None
    BY <2>1, SessionIs, QuizType DEF Questions, None
  <2>3. NextEvent \in Event /\ NextEvent.question = q
    BY <2>2 DEF Event, NextEvent
  <2>4. /\ events \in Seq(Event) /\ events # <<>>
        /\ \A i \in DOMAIN events : events[i].question = q
    BY <2>3
  <2> HIDE DEF events, q
  <2>5. asked' \subseteq Questions \X Players /\ "QUESTION_ACTIVE" \in Status
    BY <2>1, SessionIs DEF Status
  <2> QED BY <2>1, <2>2, <2>4, <2>5, HostFinds
<1>3. CASE HostEnd(r)
  <2> DEFINE events == <<[type |-> "ended"]>>
  <2>1. [type |-> "ended"] \in Event
    BY DEF Event
  <2>2. /\ events \in Seq(Event) /\ events # <<>>
        /\ \A i \in DOMAIN events : events[i].type # "next"
    BY <2>1
  <2>3. HostFind(r, "end", "save", "FINISHED", None, events) /\ asked' = asked
    BY <1>3 DEF HostEnd
  <2> HIDE DEF events
  <2> QED BY <2>2, <2>3, SessionIs, HostFinds DEF Status
<1>4. CASE HostDelete(r)
  <2> DEFINE events == <<[type |-> "deleted"]>>
  <2>1. [type |-> "deleted"] \in Event
    BY DEF Event
  <2>2. /\ events \in Seq(Event) /\ events # <<>>
        /\ \A i \in DOMAIN events : events[i].type # "next"
    BY <2>1
  <2>3. HostFind(r, "delete", "save", "ABSENT", None, events) /\ asked' = asked
    BY <1>4 DEF HostDelete
  <2> HIDE DEF events
  <2> QED BY <2>2, <2>3, SessionIs, HostFinds DEF Status
<1>5. ASSUME NEW p \in Players, NEW correct \in BOOLEAN, HostJudge(r, p, correct)
      PROVE  IInv'
  <2> DEFINE events == <<[type |-> "verdict", player |-> p, correct |-> correct]>>
  <2>1. [type |-> "verdict", player |-> p, correct |-> correct] \in Event
    BY DEF Event, Verdict
  <2>2. /\ events \in Seq(Event) /\ events # <<>>
        /\ \A i \in DOMAIN events : events[i].type # "next"
    BY <2>1
  <2>3. /\ HostFind(r, "judge", "publish", session.status, None, events)
        /\ asked' = asked \cup {<<session.question, p>>}
        /\ session.status = "QUESTION_ACTIVE"
    BY <1>5 DEF HostJudge
  <2> HIDE DEF events
  <2>4. asked' \subseteq Questions \X Players
    BY <2>3, SessionIs
  <2> QED BY <2>2, <2>3, <2>4, SessionIs, HostFinds DEF Status
<1> QED BY <1>1, <1>2, <1>3, <1>4, <1>5

\* The update takes effect on the row as it is by then, which other requests may
\* have moved since the request found it.
LEMMA HostSaveStep ==
  ASSUME IInv, NEW r \in HostRequests, HostSave(r)
  PROVE  IInv'
<1> DEFINE w == host[r]
           new == [w EXCEPT !.step = "publish"]
<1>1. /\ w # Resting /\ w.step = "save" /\ session' = Updated(w)
      /\ shown' = shown \cup ({session'.question} \ {None})
      /\ host' = [host EXCEPT ![r] = new] \/ host' = [host EXCEPT ![r] = Resting]
      /\ Fault \/ UNCHANGED faults
      /\ UNCHANGED <<pending, asked, topic, work, offsets, table, valkey, posts, outages,
                     expired, crashes>>
  BY SessionIs DEF HostSave
<1>2. w \in HostWork /\ HostOK(w)
  BY <1>1, SessionIs
<1>3. /\ new \in HostWork /\ new.step = "publish" /\ new.events = w.events
      /\ new # Resting
  BY <1>2 DEF HostWork, Resting
<1>4. w.status \in Status /\ w.question \in Questions \cup {None}
  BY <1>2 DEF HostWork
<1> HIDE DEF new, w
<1>5. /\ session' \in SessionRow
      /\ session'.status = "LOBBY" => session'.question = None
      /\ session'.status = "QUESTION_ACTIVE" => session'.question # None
      /\ session'.status = "ABSENT" \/ w.question = None \/ session'.question = w.question
      /\ session.status = "ABSENT" => session'.status = "ABSENT"
    <2>1. CASE session.status = "ABSENT"
      BY <1>1, <2>1, SessionIs DEF Updated
    <2>2. CASE session.status # "ABSENT"
      <3>1. session' = [status |-> w.status,
                        question |-> IF w.question = None THEN session.question
                                     ELSE w.question]
        BY <1>1, <2>2 DEF Updated
      <3>2. /\ w.status # "LOBBY"
            /\ w.status = "QUESTION_ACTIVE" => w.question # None
        BY <1>1, <1>2 DEF HostOK
      <3> QED BY <1>4, <2>2, <3>1, <3>2, SessionIs DEF SessionRow
    <2> QED BY <2>1, <2>2
<1>6. /\ shown' \subseteq Questions /\ shown \subseteq shown'
      /\ session'.question \in shown' \cup {None}
  BY <1>1, <1>5, SessionIs DEF SessionRow
<1>7. Shown \subseteq Shown' /\ (w.question # None => w.question \in Shown')
  <2>1. Shown \subseteq Questions \cup {None}
    BY ShownType DEF IInv
  <2>2. CASE session'.status = "ABSENT"
    BY <1>4, <2>1, <2>2 DEF Shown
  <2>3. CASE session'.status # "ABSENT"
    BY <1>5, <1>6, <2>3 DEF Shown
  <2> QED BY <2>2, <2>3
<1>8. /\ host' \in [HostRequests -> HostWork \cup {Resting}]
      /\ \A q \in HostRequests : host'[q] = host[q] \/ host'[q] \in {new, Resting}
  BY <1>1, <1>3, SessionIs
<1>9. \A q \in HostRequests : host'[q] # Resting => HostOK(host[q])'
  <2> SUFFICES ASSUME NEW q \in HostRequests, host'[q] # Resting
               PROVE  HostOK(host[q])'
    OBVIOUS
  <2>1. CASE host'[q] = host[q]
    <3>1. host[q] # Resting /\ HostOK(host[q])
      BY <2>1, SessionIs
    <3> QED BY <1>7, <2>1, <3>1 DEF HostOK
  <2>2. CASE host'[q] = new
    <3>1. new \in HostWork /\ w \in HostWork /\ w.events \in Seq(Event)
      BY <1>2, <1>3 DEF HostWork
    <3>2. /\ new.events # <<>>
          /\ \A i \in DOMAIN w.events :
               w.events[i].type = "next" =>
                 w.events[i].question \in Shown \/ w.events[i].question = w.question
      BY <1>2, <1>3 DEF HostOK
    <3>3. \A i \in DOMAIN w.events :
            w.events[i].type = "next" => w.events[i].question # None
      BY <3>1, EventKinds DEF Questions, None
    <3>4. \A i \in DOMAIN new.events :
            new.events[i].type = "next" => new.events[i].question \in Shown'
      BY <1>3, <1>7, <3>2, <3>3
    <3> QED BY <1>3, <2>2, <3>2, <3>4 DEF HostOK
  <2> QED BY <1>8, <2>1, <2>2
<1>10. BoundsOK'
  BY <1>1, ValkeyKept, BoundsType DEF Fault, BoundsOK
<1> QED BY <1>1, <1>5, <1>6, <1>7, <1>8, <1>9, <1>10, SessionIs, SessionMoves

LEMMA HostFailsStep ==
  ASSUME IInv, NEW r \in HostRequests, HostFails(r)
  PROVE  IInv'
<1>1. /\ host' = [host EXCEPT ![r] = Resting] /\ Fault
      /\ UNCHANGED <<session, shown, pending, asked, topic, work, offsets, table, valkey,
                     posts, outages, expired, crashes>>
  BY DEF HostFails
<1>2. BoundsOK'
  BY <1>1, ValkeyKept, BoundsType DEF Fault, BoundsOK
<1> QED BY <1>1, <1>2, SessionIs, HostGoes

\* A submission is noted before its choices are published.
LEMMA PlayerSubmitStep ==
  ASSUME IInv, NEW p \in Players, PlayerSubmit(p)
  PROVE  IInv'
<1>1. /\ session.status = "QUESTION_ACTIVE" /\ UNCHANGED <<session, shown, host>>
      /\ asked' = asked \cup {<<session.question, p>>}
      /\ UNCHANGED <<topic, work, offsets, table, valkey, bounds>>
  BY DEF PlayerSubmit
<1>2. PICK some \in SUBSET Choice : pending' = [pending EXCEPT ![p] = some]
  BY DEF PlayerSubmit, Answers
<1>3. pending' \in [Players -> SUBSET Choice]
  BY <1>2, SessionIs
<1>4. asked' \subseteq Questions \X Players
  BY <1>1, SessionIs
<1>5. Shown' = Shown
  BY <1>1 DEF Shown
<1>6. \A r \in HostRequests : host'[r] # Resting => HostOK(host[r])'
  BY <1>1, <1>5, SessionIs DEF HostOK
<1>7. BoundsOK'
  BY <1>1, ValkeyKept DEF bounds, BoundsOK
<1>8. /\ session' \in SessionRow /\ session'.question \in shown' \cup {None}
      /\ shown' \subseteq Questions /\ session'.question # None
      /\ host' \in [HostRequests -> HostWork \cup {Resting}]
      /\ session'.status = "QUESTION_ACTIVE"
  BY <1>1, SessionIs DEF Questions, None
<1> QED BY <1>1, <1>3, <1>4, <1>5, <1>6, <1>7, <1>8, SessionMoves

----------------------------------------------------------------------------
(* The topic grows at its end.                                              *)

LEMMA Publishes ==
  ASSUME IInv, UNCHANGED <<session, shown, asked, work, offsets, table, valkey, bounds>>,
         NEW e \in Event, topic' = Append(topic, e),
         e.type = "next" => e.question \in Shown,
         host' \in [HostRequests -> HostWork \cup {Resting}],
         \A r \in HostRequests : host'[r] # Resting => HostOK(host'[r]),
         pending' \in [Players -> SUBSET Choice]
  PROVE  IInv'
<1> DEFINE n == Len(topic)
<1>1. UNCHANGED <<session, shown, asked, work, resolved, committed, processed, missed, responses,
                  cleared, quizKey, current, copy, posts, faults, outages, expired, crashes>>
  BY DEF offsets, table, valkey, bounds
<1>2. /\ topic' \in Seq(Event) /\ n \in Nat /\ DOMAIN topic = 1..n
      /\ Len(topic') = n + 1 /\ DOMAIN topic' = 1..(n + 1)
      /\ \A i \in 1..n : topic'[i] = topic[i]
      /\ topic'[n + 1] = e
  BY DEF IInv, TypeOK
<1>3. TypeOK'
  BY <1>1, <1>2 DEF IInv, TypeOK
<1>4. /\ resolved \in Nat /\ resolved <= n /\ committed \in Nat /\ committed <= n
      /\ processed \subseteq 1..n
  BY <1>2 DEF IInv, TypeOK, Offsets
<1> HIDE DEF n
<1>5. Handling'
  <2>1. \A h \in Handlers : work[h] # Idle => StepOK(h, work[h]) /\ work[h].found \in Shown
    BY DEF IInv, Handling
  <2>2. ASSUME work["consumer"] # Idle
        PROVE  /\ ConsumerOK(work["consumer"]) /\ Pending \in 1..n
               /\ topic'[Pending] = topic[Pending] /\ Pending <= n + 1
    <3>1. ConsumerOK(work["consumer"])
      BY <2>2 DEF IInv, Handling
    <3>2. Pending \in 1..n
      BY <1>4, <3>1 DEF ConsumerOK, Pending, n
    <3> QED BY <1>2, <3>1, <3>2
  <2>3. work \in [Handlers -> Work \cup {Idle}]
    BY DEF IInv, Handling
  <2> QED BY <1>1, <1>2, <2>1, <2>2, <2>3 DEF Handling, Shown, ConsumerOK, Pending, HasRow
<1>6. Upstream'
  <2>1. \A i \in DOMAIN topic' : i \in DOMAIN topic \/ i = n + 1
    BY <1>2
  <2>2. \A i \in DOMAIN topic' : topic'[i].type = "next" => topic'[i].question \in Shown
    BY <1>2, <2>1 DEF IInv, Upstream
  <2>3. Shown' = Shown
    BY <1>1 DEF Shown
  <2>4. \A r \in HostRequests : host'[r] # Resting => HostOK(host[r])'
    BY <2>3 DEF HostOK
  <2> QED BY <1>1, <2>2, <2>3, <2>4 DEF IInv, Upstream
<1>7. \A i \in 1..n : Kept(i) => Kept(i)'
  BY <1>1, <1>2 DEF Kept, HasRow
<1>8. Offsets'
  <2>1. \A i \in processed : Kept(i)'
    BY <1>4, <1>7 DEF IInv, Offsets
  <2>2. resolved <= n + 1 /\ committed <= n + 1 /\ processed \subseteq 1..(n + 1)
    BY <1>2, <1>4
  <2> QED BY <1>1, <1>2, <2>1, <2>2 DEF Offsets
<1>9. NothingLost'
  <2>1. \A i \in 1..resolved : i \in 1..n
    BY <1>2, <1>4
  <2>2. \A i \in 1..resolved : Kept(i)'
    BY <1>7, <2>1 DEF IInv, NothingLost, Kept
  <2> QED BY <1>1, <2>2 DEF NothingLost, Kept
<1>10. AnsweredOnce' /\ JudgedOnItsQuestion' /\ NeverAhead'
  BY <1>1 DEF IInv, AnsweredOnce, JudgedOnItsQuestion, NeverAhead
<1> QED BY <1>3, <1>5, <1>6, <1>8, <1>9, <1>10 DEF IInv

LEMMA HostPublishStep ==
  ASSUME IInv, NEW r \in HostRequests, HostPublish(r)
  PROVE  IInv'
<1> DEFINE w == host[r]
           new == [w EXCEPT !.events = Tail(w.events)]
<1>1. /\ w # Resting /\ w.step = "publish" /\ topic' = Append(topic, Head(w.events))
      /\ host' = [host EXCEPT ![r] = IF Tail(w.events) = <<>> THEN Resting ELSE new]
      /\ UNCHANGED <<session, shown, pending, asked, work, offsets, table, valkey, bounds>>
  BY SessionIs DEF HostPublish
<1>2. w \in HostWork /\ HostOK(w)
  BY <1>1, SessionIs
<1>3. w.events \in Seq(Event) /\ w.events # <<>>
  BY <1>2 DEF HostWork, HostOK
<1>4. /\ new \in HostWork /\ new.step = "publish" /\ new.events = Tail(w.events)
  <2>1. Tail(w.events) \in Seq(Event)
    BY <1>3
  <2> QED BY <1>1, <1>2, <2>1 DEF HostWork
<1>5. \A i \in DOMAIN w.events : w.events[i].type = "next" => w.events[i].question \in Shown
  BY <1>1, <1>2 DEF HostOK
<1> HIDE DEF new, w
<1>6. /\ 1 \in DOMAIN w.events /\ Head(w.events) = w.events[1] /\ Head(w.events) \in Event
      /\ \A i \in DOMAIN Tail(w.events) :
           i + 1 \in DOMAIN w.events /\ Tail(w.events)[i] = w.events[i + 1]
  BY <1>3
<1>7. Head(w.events).type = "next" => Head(w.events).question \in Shown
  BY <1>5, <1>6
<1>8. Tail(w.events) # <<>> => HostOK(new)
  BY <1>4, <1>5, <1>6 DEF HostOK
<1>9. /\ host' \in [HostRequests -> HostWork \cup {Resting}]
      /\ \A q \in HostRequests : host'[q] # Resting => HostOK(host'[q])
  BY <1>1, <1>4, <1>8, SessionIs
<1> QED BY <1>1, <1>6, <1>7, <1>9, SessionIs, Publishes

LEMMA PlayerPublishStep ==
  ASSUME IInv, NEW p \in Players, PlayerPublish(p)
  PROVE  IInv'
<1>1. PICK choice \in pending[p] :
        /\ topic' = Append(topic, [type |-> "answer", player |-> p, choice |-> choice])
        /\ pending' = [pending EXCEPT ![p] = @ \ {choice}]
  BY DEF PlayerPublish
<1>2. UNCHANGED <<session, shown, host, asked, work, offsets, table, valkey, bounds>>
  BY DEF PlayerPublish
<1>3. /\ pending \in [Players -> SUBSET Choice]
      /\ host \in [HostRequests -> HostWork \cup {Resting}]
      /\ \A r \in HostRequests : host[r] # Resting => HostOK(host[r])
  BY SessionIs
<1>4. pending' \in [Players -> SUBSET Choice] /\ choice \in Choice
  BY <1>1, <1>3
<1>5. [type |-> "answer", player |-> p, choice |-> choice] \in Event
  BY <1>4 DEF Event, Answer
<1> QED BY <1>1, <1>2, <1>3, <1>4, <1>5, Publishes

----------------------------------------------------------------------------
(* The invariant.                                                           *)

LEMMA InitOK ==
  ASSUME Init
  PROVE  IInv
<1>1. [type |-> "created"] \in Event
  BY DEF Event
<1>2. topic \in Seq(Event) /\ Len(topic) = 1
  BY <1>1 DEF Init
<1>3. TypeOK
  <2>1. /\ session \in SessionRow /\ shown \subseteq Questions
        /\ current \in Questions \cup {None} /\ asked \subseteq Questions \X Players
    BY DEF Init, SessionRow, Status
  <2>2. /\ host \in [HostRequests -> HostWork \cup {Resting}]
        /\ responses \in Seq(Response)
    BY DEF Init
  <2>3. pending \in [Players -> SUBSET Choice] /\ work \in [Handlers -> Work \cup {Idle}]
    BY DEF Init
  <2>4. BoundsOK
    BY BoundsType DEF Init, BoundsOK
  <2> QED BY <1>2, <2>1, <2>2, <2>3, <2>4 DEF Init, TypeOK, BoundsOK
<1>4. Handling
  BY DEF Init, Handling, Handlers
<1>5. Upstream
  <2>1. \A r \in HostRequests : host[r] = Resting
    BY DEF Init
  <2>2. \A i \in DOMAIN topic : topic[i].type = "created"
    BY DEF Init
  <2> QED BY <2>1, <2>2 DEF Init, Upstream
<1>6. Offsets /\ NothingLost
  BY <1>2 DEF Init, Offsets, NothingLost
<1>7. AnsweredOnce /\ JudgedOnItsQuestion
  <2>1. DOMAIN responses = {}
    BY DEF Init
  <2> QED BY <2>1 DEF AnsweredOnce, JudgedOnItsQuestion
<1>8. NeverAhead
  BY DEF Init, NeverAhead, None
<1> QED BY <1>3, <1>4, <1>5, <1>6, <1>7, <1>8 DEF IInv

LEMMA StutterOK ==
  ASSUME IInv, UNCHANGED vars
  PROVE  IInv'
<1>1. UNCHANGED <<upstream, work, offsets, table, valkey, bounds>>
  BY DEF vars
<1>2. BoundsOK' /\ UNCHANGED <<quizKey, current, copy>>
  BY <1>1, ValkeyKept DEF bounds, BoundsOK, valkey
<1> QED BY <1>1, <1>2, ValkeyKept, ValkeyMoves

LEMMA NextOK ==
  ASSUME IInv, Next
  PROVE  IInv'
<1>1. CASE SessionService
  <2>1. ASSUME NEW r \in HostRequests,
               \/ HostStart(r) \/ HostNext(r) \/ HostEnd(r) \/ HostDelete(r)
               \/ \E p \in Players, correct \in BOOLEAN : HostJudge(r, p, correct)
               \/ HostSave(r) \/ HostPublish(r) \/ HostFails(r)
        PROVE  IInv'
    BY <2>1, HostMoves, HostSaveStep, HostPublishStep, HostFailsStep
  <2>2. ASSUME NEW p \in Players, PlayerSubmit(p) \/ PlayerPublish(p)
        PROVE  IInv'
    BY <2>2, PlayerSubmitStep, PlayerPublishStep
  <2> QED BY <1>1, <2>1, <2>2 DEF SessionService
<1>2. CASE Deliver \/ Record
  BY <1>2, DeliverStep, RecordStep
<1>3. ASSUME NEW r \in Requests, Post(r)
      PROVE  IInv'
  BY <1>3, PostStep
<1>4. ASSUME NEW h \in Handlers, Advance(h) \/ Fail(h)
      PROVE  IInv'
  <2>1. CASE Session(h)
    BY <2>1, SetQuizStep, SetFirstStep, SetNextStep DEF Session
  <2>2. CASE Clearing(h)
    BY <2>2, DelRowsStep, DelQuizStep, DelCurrentStep DEF Clearing
  <2>3. CASE Recovery(h)
    BY <2>3, GetCopyStep, GetQuizStep, GetSessionStep, KeepQuizStep, KeepCurrentStep DEF Recovery
  <2>4. CASE Answering(h)
    BY <2>4, GetCurrentStep, GetAgainStep, FindExistingStep, GetQuizKeyStep, JudgeStep, CreateStep
    DEF Answering
  <2> QED BY <1>4, <2>1, <2>2, <2>3, <2>4, FailStep DEF Advance
<1>5. CASE Around
  BY <1>5, CommitOffsetStep, ExpireSteps, CrashStep DEF Around
<1> QED BY <1>1, <1>2, <1>3, <1>4, <1>5 DEF Next

\* Every step of every handler, with failures, lost keys and restarts in any
\* order, preserves what the handlers know (response.service.js, the consumer).
THEOREM InvariantHolds == Spec => []IInv
<1>1. Init => IInv
  BY InitOK
<1>2. IInv /\ [Next]_vars => IInv'
  BY NextOK, StutterOK
<1> QED BY <1>1, <1>2, PTL DEF Spec

\* The state of the recorder keeps its types.
THEOREM TypeCorrect == Spec => []TypeOK
<1>1. IInv => TypeOK
  BY DEF IInv
<1> QED BY <1>1, InvariantHolds, PTL

\* A participant's answer from the topic has one row per question, however
\* often it is delivered again (handleAnswer looks for a row first).
THEOREM OneRowPerAnswer == Spec => []AnsweredOnce
<1>1. IInv => AnsweredOnce
  BY DEF IInv
<1> QED BY <1>1, InvariantHolds, PTL

\* The consumer passes no answer and no verdict by without a row, but for
\* restarts and the deletion of the session's rows.
THEOREM NoneLost == Spec => []NothingLost
<1>1. IInv => NothingLost
  BY DEF IInv
<1> QED BY <1>1, InvariantHolds, PTL

\* Every row of an answer is judged by the choices of its own question,
\* whatever the keys of Valkey held meanwhile.
THEOREM RightlyJudged == Spec => []JudgedOnItsQuestion
<1>1. IInv => JudgedOnItsQuestion
  BY DEF IInv
<1> QED BY <1>1, InvariantHolds, PTL

\* Valkey's current question is the first one or one that ms-session's row has
\* had, however the requests of the host overlap and fail; unless the session is
\* deleted.
THEOREM NotAhead == Spec => []NeverAhead
<1>1. IInv => NeverAhead
  BY DEF IInv
<1> QED BY <1>1, InvariantHolds, PTL

=============================================================================
