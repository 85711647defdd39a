----------------------- MODULE SessionLifecycleProofs -----------------------
(***************************************************************************)
(* Proofs about SessionLifecycle, for any number of requests, any quiz and *)
(* any number of failures and crashes.                                     *)
(***************************************************************************)
EXTENDS SessionLifecycle, SequenceTheorems, TLAPS

Inv == TypeOK /\ LifecycleInv

----------------------------------------------------------------------------
(* Lemmas about one request                                                 *)

\* The sentinels are not what they stand in for.
LEMMA Sentinels ==
  /\ Absent \notin Session
  /\ Absent.question = None
  /\ HasQuestion(Absent)
  /\ Idle \in Request
  /\ Idle.step = "idle" /\ Idle.op = "none" /\ Idle.todo = {}
  /\ Idle.seen = Absent /\ Idle.target = None
BY DEF Absent, Session, Status, HasQuestion, Idle, Request, Step, None

\* What holds of a request goes on holding when the row takes new values.
LEMMA Grow ==
  ASSUME NEW request, NEW values, NEW more, values \subseteq more,
         RequestOK(request, values)
  PROVE  RequestOK(request, more)
BY DEF RequestOK, Happened

\* A request that is not about to write or to announce is fine as soon as it
\* goes by a value of the row.
LEMMA EarlyRequest ==
  ASSUME NEW request, NEW values,
         request.step \in {"idle", "find", "findRow", "fill", "found",
                           "forgetId", "forgetKey", "forgetIds", "forgotten",
                           "created"},
         request.todo = {},
         request.seen \in values \cup {Absent},
         request.step \in Forgetting => Absent \in values
  PROVE  RequestOK(request, values)
BY DEF RequestOK, StepFits, Forgetting

LEMMA IdleOK == ASSUME NEW values PROVE RequestOK(Idle, values)
BY Sentinels, EarlyRequest DEF Forgetting

\* A step of one request leaves the others as they are.
LEMMA OneRequest ==
  ASSUME TypeOK, LifecycleInv,
         NEW r \in Requests, NEW new \in Request,
         was \subseteq was', RequestOK(new, was'),
         req' = [req EXCEPT ![r] = new]
  PROVE  /\ req' \in [Requests -> Request]
         /\ \A q \in Requests : RequestOK(req'[q], was')
<1>1. req' \in [Requests -> Request]
  BY DEF TypeOK
<1>2. ASSUME NEW q \in Requests PROVE RequestOK(req'[q], was')
  <2>1. CASE q = r
    BY <2>1 DEF TypeOK
  <2>2. CASE q # r
    <3>1. req'[q] = req[q]
      BY <2>2 DEF TypeOK
    <3>2. RequestOK(req[q], was)
      BY DEF LifecycleInv
    <3> QED BY <3>1, <3>2, Grow
  <2> QED BY <2>1, <2>2
<1> QED BY <1>1, <1>2

\* A request going to another step, or ending.
LEMMA GotoRecord ==
  ASSUME TypeOK, NEW r \in Requests, NEW step \in Step, Goto(r, step)
  PROVE  /\ req' = [req EXCEPT ![r] = [req[r] EXCEPT !.step = step]]
         /\ [req[r] EXCEPT !.step = step] \in Request
         /\ req'[r].step = step
         /\ req'[r].op = req[r].op
         /\ req'[r].seen = req[r].seen
         /\ req'[r].target = req[r].target
         /\ req'[r].todo = req[r].todo
BY ZenonT(60) DEF TypeOK, Goto, Request

LEMMA ReplyRecord ==
  ASSUME TypeOK, LifecycleInv, NEW r \in Requests, Reply(r),
         was \subseteq was'
  PROVE  /\ req' \in [Requests -> Request]
         /\ \A q \in Requests : RequestOK(req'[q], was')
BY OneRequest, IdleOK, Sentinels DEF Reply

\* Bounded counters.
LEMMA FaultType == ASSUME TypeOK, Fault PROVE faults' \in 0..MaxFaults
BY BoundsType DEF TypeOK, Fault

LEMMA OutageType == ASSUME TypeOK, Outage PROVE outages' \in 0..MaxOutages
BY BoundsType DEF TypeOK, Outage

\* A step that leaves the row and the events alone, and stores in the copies
\* values of the row only, keeps the invariant if the requests are fine.
LEMMA Quiet ==
  ASSUME TypeOK, LifecycleInv, UNCHANGED <<row, published, was>>,
         cache' \in [{"id", "pk"} -> was \cup {Absent}],
         req' \in [Requests -> Request],
         \A q \in Requests : RequestOK(req'[q], was')
  PROVE  /\ LifecycleInv'
         /\ row' \in Session \cup {Absent}
         /\ cache' \in [{"id", "pk"} -> Session \cup {Absent}]
         /\ published' \subseteq Event
         /\ was' \subseteq Session \cup {Absent}
<1>1. RowHistory(was)'
  BY DEF LifecycleInv, RowHistory, HasQuestion
<1>2. EventsFollowRow'
  BY DEF LifecycleInv, EventsFollowRow, HadStatus
<1>3. \A key \in {"id", "pk"} : cache'[key] \in was' \cup {Absent}
  OBVIOUS
<1>4. cache' \in [{"id", "pk"} -> Session \cup {Absent}]
  BY DEF TypeOK
<1> QED BY <1>1, <1>2, <1>3, <1>4 DEF LifecycleInv, TypeOK

LEMMA CopiesKept ==
  ASSUME TypeOK, LifecycleInv, UNCHANGED cache
  PROVE  cache' \in [{"id", "pk"} -> was \cup {Absent}]
BY DEF TypeOK, LifecycleInv

\* What a step does to the counters.
Counted == served' \in 0..MaxRequests /\ faults' \in 0..MaxFaults
           /\ outages' \in 0..MaxOutages /\ crashes' \in 0..MaxCrashes

LEMMA NotCounted == ASSUME TypeOK, UNCHANGED bounds PROVE Counted
BY DEF TypeOK, Counted, bounds

LEMMA FaultCounted ==
  ASSUME TypeOK, UNCHANGED <<served, outages, crashes>>,
         UNCHANGED faults \/ Fault
  PROVE  Counted
BY FaultType DEF TypeOK, Counted

LEMMA OutageCounted ==
  ASSUME TypeOK, UNCHANGED <<served, faults, crashes>>,
         UNCHANGED outages \/ Outage
  PROVE  Counted
BY OutageType DEF TypeOK, Counted

LEMMA QuietInv ==
  ASSUME Inv, UNCHANGED <<row, published, was>>,
         cache' \in [{"id", "pk"} -> was \cup {Absent}],
         req' \in [Requests -> Request],
         \A q \in Requests : RequestOK(req'[q], was'),
         ids' \in Seq(Questions), players' \in 0..MaxPlayers, Counted
  PROVE  Inv'
BY Quiet DEF Inv, TypeOK, Counted

----------------------------------------------------------------------------
(* find and findByPublicKey                                                *)

LEMMA BeginInv ==
  ASSUME Inv, NEW r \in Requests, NEW op \in Operations, Begin(r, op)
  PROVE  Inv'
<1> DEFINE new == [Idle EXCEPT !.op = op, !.step = "find"]
<1>1. /\ new \in Request
      /\ new.step = "find" /\ new.todo = {} /\ new.seen = Absent
  BY OperationsType, EmptySeq DEF Request, Step, Idle
<1>2. req' = [req EXCEPT ![r] = new]
  BY DEF Begin, Inv, TypeOK
<1>3. Counted
  BY BoundsType DEF Begin, Inv, TypeOK, Counted
<1> HIDE DEF new
<1>5. RequestOK(new, was')
  BY <1>1, EarlyRequest DEF Forgetting
<1>4. req' \in [Requests -> Request] /\ \A q \in Requests : RequestOK(req'[q], was')
  BY <1>1, <1>2, <1>5, OneRequest DEF Begin, Inv
<1> QED BY <1>3, <1>4, CopiesKept, QuietInv DEF Begin, Inv, TypeOK

LEMMA FindHitInv ==
  ASSUME Inv, NEW r \in Requests, FindHit(r)
  PROVE  Inv'
<1> DEFINE copy == cache[KeyOf(req[r].op)]
           new == [req[r] EXCEPT !.seen = copy, !.step = "found"]
<1>1. copy \in Session \cup {Absent} /\ copy \in was \cup {Absent}
  BY DEF Inv, TypeOK, LifecycleInv, KeyOf
<1>2. req[r] \in Request /\ RequestOK(req[r], was) /\ req[r].todo = {}
  BY DEF Inv, TypeOK, LifecycleInv, FindHit, RequestOK, StepFits
<1>3. new \in Request
  BY <1>1, <1>2 DEF Request, Step
<1>4. new.seen = copy /\ new.step = "found" /\ new.todo = {}
  BY <1>2 DEF Request
<1>6. req' = [req EXCEPT ![r] = new]
  BY DEF FindHit, Inv, TypeOK
<1>8. copy \in was' \cup {Absent}
  BY <1>1 DEF FindHit
<1> HIDE DEF new, copy
<1>5. RequestOK(new, was')
  BY <1>8, <1>4, EarlyRequest DEF Forgetting
<1>7. req' \in [Requests -> Request] /\ \A q \in Requests : RequestOK(req'[q], was')
  BY <1>3, <1>5, <1>6, OneRequest DEF FindHit, Inv
<1> QED BY <1>7, CopiesKept, NotCounted, QuietInv DEF FindHit, Inv, TypeOK

\* Going to a step that neither writes nor announces keeps a request fine.
LEMMA GotoEarly ==
  ASSUME Inv, NEW r \in Requests, was \subseteq was',
         NEW step \in {"findRow", "found", "forgetId", "forgetKey",
                       "forgetIds", "forgotten", "created"},
         req[r].todo = {}, Goto(r, step),
         step \in Forgetting => Absent \in was'
  PROVE  /\ req' \in [Requests -> Request]
         /\ \A q \in Requests : RequestOK(req'[q], was')
<1> DEFINE new == [req[r] EXCEPT !.step = step]
<1>1. step \in Step
  BY DEF Step
<1>2. new \in Request /\ req' = [req EXCEPT ![r] = new]
  BY <1>1, GotoRecord DEF Inv
<1>3. new.step = step /\ new.todo = {} /\ new.seen = req[r].seen
  BY DEF Inv, TypeOK, Request
<1>4. req[r].seen \in was' \cup {Absent}
  BY DEF Inv, LifecycleInv, RequestOK
<1> HIDE DEF new
<1>5. RequestOK(new, was')
  BY <1>3, <1>4, EarlyRequest DEF Forgetting
<1> QED BY <1>2, <1>5, OneRequest DEF Inv

LEMMA NothingToDo ==
  ASSUME Inv, NEW r \in Requests, req[r].step \notin {"save", "failed"}
  PROVE  req[r].todo = {}
BY DEF Inv, LifecycleInv, RequestOK, StepFits

LEMMA FindMissInv ==
  ASSUME Inv, NEW r \in Requests, FindMiss(r)
  PROVE  Inv'
<1>1. req' \in [Requests -> Request] /\ \A q \in Requests : RequestOK(req'[q], was')
  BY GotoEarly, NothingToDo DEF FindMiss, Forgetting
<1>2. Counted
  BY OutageCounted DEF FindMiss, Inv
<1> QED BY <1>1, <1>2, CopiesKept, QuietInv DEF FindMiss, Inv, TypeOK

LEMMA FindRowInv ==
  ASSUME Inv, NEW r \in Requests, FindRow(r)
  PROVE  Inv'
<1>1. req[r] \in Request /\ req[r].todo = {}
  BY NothingToDo DEF FindRow, Inv, TypeOK
<1>2. ASSUME NEW value \in {row, Absent}, NEW step \in {"fill", "found"},
             req' = [req EXCEPT ![r].seen = value, ![r].step = step]
      PROVE  /\ req' \in [Requests -> Request]
             /\ \A q \in Requests : RequestOK(req'[q], was')
  <2> DEFINE new == [req[r] EXCEPT !.seen = value, !.step = step]
  <2>1. value \in Session \cup {Absent} /\ value \in was' \cup {Absent}
    BY DEF Inv, TypeOK, LifecycleInv, RowHistory, FindRow
  <2>2. new \in Request
    BY <1>1, <2>1 DEF Request, Step
  <2>3. new.seen = value /\ new.step = step /\ new.todo = {}
    BY <1>1 DEF Request
  <2>5. req' = [req EXCEPT ![r] = new]
    BY <1>2 DEF Inv, TypeOK
  <2> HIDE DEF new
  <2>4. RequestOK(new, was')
    BY <2>1, <2>3, EarlyRequest DEF Forgetting
  <2> QED BY <2>2, <2>4, <2>5, OneRequest DEF FindRow, Inv
<1>3. req' \in [Requests -> Request] /\ \A q \in Requests : RequestOK(req'[q], was')
  BY <1>2, ReplyRecord DEF FindRow, Inv
<1> QED BY <1>3, CopiesKept, NotCounted, QuietInv DEF FindRow, Inv, TypeOK

LEMMA FindFillInv ==
  ASSUME Inv, NEW r \in Requests, FindFill(r)
  PROVE  Inv'
<1>1. req' \in [Requests -> Request] /\ \A q \in Requests : RequestOK(req'[q], was')
  BY GotoEarly, NothingToDo DEF FindFill, Forgetting
<1>2. req[r].seen \in was \cup {Absent}
  BY DEF Inv, LifecycleInv, RequestOK
<1>3. cache' \in [{"id", "pk"} -> was \cup {Absent}]
  BY <1>2, CopiesKept DEF Inv, TypeOK, LifecycleInv, FindFill, KeyOf
<1>4. Counted
  BY OutageCounted DEF FindFill, Inv
<1> QED BY <1>1, <1>3, <1>4, QuietInv DEF FindFill, Inv, TypeOK

LEMMA ExpireInv ==
  ASSUME Inv, (\E key \in {"id", "pk"} : Expire(key)) \/ ExpireIds
  PROVE  Inv'
<1>1. /\ req' \in [Requests -> Request]
      /\ \A q \in Requests : RequestOK(req'[q], was')
  BY DEF Inv, TypeOK, LifecycleInv, Expire, ExpireIds
<1>2. cache' \in [{"id", "pk"} -> was \cup {Absent}]
  BY CopiesKept DEF Inv, TypeOK, LifecycleInv, Expire, ExpireIds
<1>3. ids' \in Seq(Questions)
  BY EmptySeq DEF Inv, TypeOK, Expire, ExpireIds
<1> QED BY <1>1, <1>2, <1>3, NotCounted, QuietInv DEF Inv, TypeOK, Expire, ExpireIds

\* A request that ends without changing the row or the events.
LEMMA ReplyInv ==
  ASSUME Inv, NEW r \in Requests,
         Answer(r) \/ Fail(r) \/ Rejected(r)
  PROVE  Inv'
<1>1. req' \in [Requests -> Request] /\ \A q \in Requests : RequestOK(req'[q], was')
  BY ReplyRecord DEF Answer, Fail, Rejected, Inv
<1>2. Counted
  BY NotCounted, FaultCounted DEF Answer, Fail, Rejected, Inv
<1> QED BY <1>1, <1>2, CopiesKept, QuietInv DEF Answer, Fail, Rejected, Inv, TypeOK

----------------------------------------------------------------------------
(* The question to go to                                                   *)

\* Whatever the list, the next question is one of the quiz or undefined.
LEMMA SuccessorType ==
  ASSUME NEW list \in Seq(Questions), NEW q
  PROVE  Successor(list, q) \in Questions \cup {None}
<1>1. Len(list) \in Nat /\ DOMAIN list = 1..Len(list)
  OBVIOUS
<1>2. \A i \in 1..Len(list) : list[i] \in Questions
  OBVIOUS
<1>3. CASE Has(list, q)
  <2>1. IndexIn(list, q) \in 1..Len(list)
    BY <1>1, <1>3 DEF IndexIn, Has
  <2> QED BY <1>1, <1>2, <1>3, <2>1 DEF Successor
<1>4. CASE ~ Has(list, q)
  BY <1>1, <1>2, <1>4 DEF Successor
<1> QED BY <1>3, <1>4

\* The request that has its list is as it should be.
LEMMA WithIdsOK ==
  ASSUME NEW request \in Request, NEW values, RequestOK(request, values),
         NEW list \in Seq(Questions), list # <<>>,
         \/ request.op \in {"start", "question"}
         \/ request.op = "next" /\ request.seen.status = "QUESTION_ACTIVE"
  PROVE  /\ WithIds(request, list) \in Request
         /\ RequestOK(WithIds(request, list), values)
<1> DEFINE q == request.seen.question
           at(step, target, todo) ==
             [request EXCEPT !.ids = list, !.step = step, !.target = target,
                             !.todo = todo]
<1>1. list[1] \in Questions /\ list[1] # None
  BY QuestionsType
<1>2. Successor(list, q) \in Questions \cup {None}
  BY SuccessorType
<1>3. request.seen \in values \cup {Absent}
  BY DEF RequestOK
<1>4. ASSUME NEW step \in {"fresh", "save"},
             NEW target \in Questions \cup {None},
             NEW todo \in {{}, {"update", "clear"}}
      PROVE  /\ at(step, target, todo) \in Request
             /\ at(step, target, todo).step = step
             /\ at(step, target, todo).op = request.op
             /\ at(step, target, todo).target = target
             /\ at(step, target, todo).todo = todo
             /\ at(step, target, todo).seen = request.seen
  BY DEF Request, Step
<1> HIDE DEF at
<1>5. CASE request.op = "start"
  <2> DEFINE new == at("save", list[1], {"update", "clear"})
  <2>1. WithIds(request, list) = new
    BY <1>5 DEF WithIds, at
  <2>2. /\ new \in Request /\ new.step = "save" /\ new.op = "start"
        /\ new.target = list[1] /\ new.todo = {"update", "clear"}
        /\ new.seen = request.seen
    BY <1>1, <1>4, <1>5
  <2> HIDE DEF new
  <2> QED BY <1>1, <1>3, <2>1, <2>2 DEF RequestOK, StepFits, Forgetting
<1>6. CASE request.op = "question" \/ (request.op = "next" /\ ~ Has(list, q))
  BY <1>6, IdleOK, Sentinels DEF WithIds
<1>7. CASE request.op = "next" /\ Has(list, q) /\ list[Len(list)] = q
  <2> DEFINE new == at("fresh", None, {})
  <2>1. WithIds(request, list) = new
    BY <1>7 DEF WithIds, at
  <2>2. /\ new \in Request /\ new.step = "fresh" /\ new.op = "next"
        /\ new.todo = {} /\ new.seen = request.seen
    BY <1>4, <1>7
  <2> HIDE DEF new
  <2> QED BY <1>3, <1>7, <2>1, <2>2 DEF RequestOK, StepFits, Forgetting
<1>8. CASE request.op = "next" /\ Has(list, q) /\ list[Len(list)] # q
  <2> DEFINE new == at("save", Successor(list, q), {"update", "clear"})
  <2>1. WithIds(request, list) = new
    BY <1>8 DEF WithIds, at
  <2>2. /\ new \in Request /\ new.step = "save" /\ new.op = "next"
        /\ new.todo = {"update", "clear"} /\ new.seen = request.seen
    BY <1>2, <1>4, <1>8
  <2> HIDE DEF new
  <2> QED BY <1>3, <1>8, <2>1, <2>2 DEF RequestOK, StepFits, Forgetting
<1> QED BY <1>5, <1>6, <1>7, <1>8

LEMMA Current ==
  ASSUME Inv, NEW r \in Requests
  PROVE  req[r] \in Request /\ RequestOK(req[r], was)
BY DEF Inv, TypeOK, LifecycleInv

\* A step that puts a fine request in place and may set the ids.
LEMMA PlaceInv ==
  ASSUME Inv, NEW r \in Requests, NEW new \in Request, RequestOK(new, was),
         req' = [req EXCEPT ![r] = new],
         UNCHANGED <<row, published, was, cache, players, served, faults,
                     crashes>>,
         ids' \in Seq(Questions), UNCHANGED outages \/ Outage
  PROVE  Inv'
<1>1. req' \in [Requests -> Request] /\ \A q \in Requests : RequestOK(req'[q], was')
  BY OneRequest DEF Inv
<1>2. Counted
  BY OutageCounted DEF Inv
<1> QED BY <1>1, <1>2, CopiesKept, QuietInv DEF Inv, TypeOK

LEMMA GetQuestionInv ==
  ASSUME Inv, NEW r \in Requests, GetQuestion(r)
  PROVE  Inv'
<1> DEFINE new == [Idle EXCEPT !.op = "question", !.step = "find"]
<1>1. /\ new \in Request /\ new.step = "find" /\ new.todo = {}
      /\ new.seen = Absent
  BY EmptySeq DEF Idle, Request, Step
<1>2. req' = [req EXCEPT ![r] = new]
  BY DEF GetQuestion
<1> HIDE DEF new
<1>3. RequestOK(new, was)
  BY <1>1, EarlyRequest DEF Forgetting
<1> QED BY <1>1, <1>2, <1>3, PlaceInv DEF GetQuestion, bounds, Inv, TypeOK

LEMMA QuizInv ==
  ASSUME Inv, NEW r \in Requests, FullQuiz(r) \/ NextQuiz(r)
  PROVE  Inv'
<1>1. PICK list \in Versions :
        req' = [req EXCEPT ![r].ids = list, ![r].step = "keepIds"]
  BY DEF FullQuiz, NextQuiz
<1> DEFINE new == [req[r] EXCEPT !.ids = list, !.step = "keepIds"]
<1>2. list \in Seq(Questions) /\ list # <<>>
  BY VersionsType
<1>3. /\ req[r] \in Request /\ req[r].seen \in was \cup {Absent}
      /\ req[r].todo = {} /\ req[r].op \in {"start", "next", "question"}
      /\ req[r].op = "next" => req[r].seen.status = "QUESTION_ACTIVE"
  BY Current DEF FullQuiz, NextQuiz, RequestOK, StepFits
<1>4. new \in Request
  BY <1>2, <1>3 DEF Request, Step
<1>5. /\ new.step = "keepIds" /\ new.ids = list /\ new.op = req[r].op
      /\ new.todo = {} /\ new.seen = req[r].seen
  BY <1>3 DEF Request
<1>6. req' = [req EXCEPT ![r] = new]
  BY <1>1 DEF Inv, TypeOK
<1> HIDE DEF new
<1>7. RequestOK(new, was)
  BY <1>2, <1>3, <1>5 DEF RequestOK, StepFits, Forgetting
<1> QED
  BY <1>4, <1>6, <1>7, PlaceInv DEF FullQuiz, NextQuiz, bounds, Inv, TypeOK

LEMMA NextIdsInv ==
  ASSUME Inv, NEW r \in Requests, NextIds(r)
  PROVE  Inv'
<1>1. CASE ids # <<>> /\ req' = [req EXCEPT ![r] = WithIds(@, ids)]
  <2>1. /\ WithIds(req[r], ids) \in Request
        /\ RequestOK(WithIds(req[r], ids), was)
    BY <1>1, Current, WithIdsOK DEF NextIds, Inv, TypeOK
  <2>2. req' = [req EXCEPT ![r] = WithIds(req[r], ids)]
    BY <1>1
  <2> QED BY <2>1, <2>2, PlaceInv DEF NextIds, Inv, TypeOK
<1>2. CASE Goto(r, "quiz")
  <2> DEFINE new == [req[r] EXCEPT !.step = "quiz"]
  <2>3. "quiz" \in Step
    BY DEF Step
  <2>4. req' = [req EXCEPT ![r] = new] /\ new \in Request
    BY <1>2, <2>3, GotoRecord DEF Inv
  <2>1. /\ new.step = "quiz" /\ new.op = "next" /\ new.seen = req[r].seen
        /\ new.todo = req[r].todo
    BY Current DEF NextIds, Request
  <2> HIDE DEF new
  <2>2. RequestOK(new, was)
    BY <2>1, Current DEF NextIds, RequestOK, StepFits, Forgetting
  <2> QED BY <2>2, <2>4, PlaceInv DEF NextIds, Inv, TypeOK
<1> QED BY <1>1, <1>2 DEF NextIds

LEMMA KeepIdsInv ==
  ASSUME Inv, NEW r \in Requests, KeepIds(r)
  PROVE  Inv'
<1>1. /\ req[r].ids \in Seq(Questions) /\ req[r].ids # <<>>
      /\ \/ req[r].op \in {"start", "question"}
         \/ req[r].op = "next" /\ req[r].seen.status = "QUESTION_ACTIVE"
  BY Current DEF KeepIds, RequestOK, StepFits, Request
<1>2. /\ WithIds(req[r], req[r].ids) \in Request
      /\ RequestOK(WithIds(req[r], req[r].ids), was)
  BY <1>1, Current, WithIdsOK
<1>3. req' = [req EXCEPT ![r] = WithIds(req[r], req[r].ids)]
  BY DEF KeepIds
<1> QED BY <1>1, <1>2, <1>3, PlaceInv DEF KeepIds, Inv, TypeOK

LEMMA NextFreshInv ==
  ASSUME Inv, NEW r \in Requests, NextFresh(r)
  PROVE  Inv'
<1>1. CASE \E list \in Versions :
             /\ Len(list) > Len(req[r].ids)
             /\ req' = [req EXCEPT
                  ![r].ids = list,
                  ![r].target = Successor(list, req[r].seen.question),
                  ![r].step = "keepFresh"]
  <2>1. PICK list \in Versions :
          req' = [req EXCEPT
            ![r].ids = list,
            ![r].target = Successor(list, req[r].seen.question),
            ![r].step = "keepFresh"]
    BY <1>1
  <2> DEFINE next == Successor(list, req[r].seen.question)
             new == [req[r] EXCEPT !.ids = list, !.target = next,
                                   !.step = "keepFresh"]
  <2>2. list \in Seq(Questions) /\ next \in Questions \cup {None}
    BY VersionsType, SuccessorType
  <2> HIDE DEF next
  <2>3. /\ req[r] \in Request /\ req[r].seen \in was \cup {Absent}
        /\ req[r].todo = {} /\ req[r].op = "next"
        /\ req[r].seen.status = "QUESTION_ACTIVE"
    BY Current DEF NextFresh, RequestOK, StepFits
  <2>4. new \in Request
    BY <2>2, <2>3 DEF Request, Step
  <2>5. /\ new.step = "keepFresh" /\ new.op = "next" /\ new.todo = {}
        /\ new.seen = req[r].seen
    BY <2>3 DEF Request
  <2>6. req' = [req EXCEPT ![r] = new]
    BY <2>1 DEF Inv, TypeOK, next
  <2> HIDE DEF new
  <2>7. RequestOK(new, was)
    BY <2>3, <2>5 DEF RequestOK, StepFits, Forgetting
  <2> QED BY <2>4, <2>6, <2>7, PlaceInv DEF NextFresh, bounds, Inv, TypeOK
<1>2. CASE req' = [req EXCEPT ![r] = [Idle EXCEPT !.op = "end", !.step = "find"]]
  <2> DEFINE new == [Idle EXCEPT !.op = "end", !.step = "find"]
  <2>1. /\ new \in Request /\ new.step = "find" /\ new.todo = {}
        /\ new.seen = Absent
    BY EmptySeq DEF Idle, Request, Step
  <2>2. req' = [req EXCEPT ![r] = new]
    BY <1>2
  <2> HIDE DEF new
  <2>3. RequestOK(new, was)
    BY <2>1, EarlyRequest DEF Forgetting
  <2> QED BY <2>1, <2>2, <2>3, PlaceInv DEF NextFresh, bounds, Inv, TypeOK
<1> QED BY <1>1, <1>2 DEF NextFresh

\* The writes are started: by endSession, or by nextQuestion with a fresh list.
LEMMA BeginSaveInv ==
  ASSUME Inv, NEW r \in Requests, KeepFresh(r) \/ EndSave(r)
  PROVE  Inv'
<1>1. PICK todo \in {{"update"}, {"update", "clear"}} :
        req' = [req EXCEPT ![r].step = "save", ![r].todo = todo]
  BY DEF KeepFresh, EndSave
<1> DEFINE new == [req[r] EXCEPT !.step = "save", !.todo = todo]
<1>2. /\ req[r] \in Request /\ req[r].seen \in was \cup {Absent}
      /\ req[r].op \in {"next", "end"}
      /\ req[r].op = "next" => req[r].seen.status = "QUESTION_ACTIVE"
  BY Current DEF KeepFresh, EndSave, RequestOK, StepFits
<1>3. new \in Request
  BY <1>2 DEF Request, Step
<1>4. /\ new.step = "save" /\ new.op = req[r].op /\ new.todo = todo
      /\ new.seen = req[r].seen /\ "update" \in new.todo
  BY <1>2 DEF Request
<1>5. req' = [req EXCEPT ![r] = new]
  BY <1>1 DEF Inv, TypeOK
<1> HIDE DEF new
<1>6. RequestOK(new, was)
  BY <1>2, <1>4 DEF RequestOK, StepFits, Forgetting
<1>7. ids' \in Seq(Questions)
  BY <1>2 DEF KeepFresh, EndSave, Inv, TypeOK, Request
<1> QED
  BY <1>3, <1>5, <1>6, <1>7, PlaceInv
     DEF KeepFresh, EndSave, bounds, Inv, TypeOK

----------------------------------------------------------------------------
(* Writing the row                                                         *)

\* The value a request writes is one the row may have.
LEMMA UpdatedOK ==
  ASSUME Inv, NEW r \in Requests, "update" \in req[r].todo, row # Absent
  PROVE  LET new == Updated(req[r])
         IN  /\ new \in Session
             /\ HasQuestion(new)
             /\ row.question # None => new.question # None
             /\ req[r].op \in {"start", "next", "end"}
             /\ req[r].op = "end" => new.status = "FINISHED"
             /\ req[r].op \in {"start", "next"} =>
                  /\ new.status = "QUESTION_ACTIVE"
                  /\ \/ req[r].target = None
                     \/ new = [status |-> "QUESTION_ACTIVE",
                               question |-> req[r].target]
<1>1. /\ req[r] \in Request /\ StepFits(req[r])
      /\ req[r].seen \in was \cup {Absent}
      /\ req[r].step \in {"save", "failed"}
      /\ req[r].op \in {"start", "next", "end"}
  BY Current DEF RequestOK, StepFits, Forgetting
<1>2. row \in Session /\ req[r].target \in Questions \cup {None}
  BY <1>1 DEF Inv, TypeOK, Request
<1>3. Updated(req[r]) \in Session
  BY <1>1, <1>2 DEF Updated, Session, Status
<1>4. CASE req[r].target # None
  BY <1>1, <1>2, <1>3, <1>4 DEF Updated, HasQuestion
<1>5. CASE req[r].target = None /\ req[r].op = "end"
  BY <1>1, <1>2, <1>3, <1>5 DEF Updated, HasQuestion
<1>6. CASE req[r].target = None /\ req[r].op = "next"
  <2>1. req[r].seen.status = "QUESTION_ACTIVE"
    BY <1>1, <1>6 DEF StepFits
  <2>2. req[r].seen \in was
    BY <1>1, <2>1 DEF Absent
  <2>3. req[r].seen.question # None
    BY <2>1, <2>2 DEF Inv, LifecycleInv, RowHistory, HasQuestion
  <2>4. row.question # None
    BY <2>2, <2>3 DEF Inv, LifecycleInv, RowHistory
  <2> QED BY <1>1, <1>2, <1>3, <1>6, <2>4 DEF Updated, HasQuestion
<1>7. CASE req[r].target = None /\ req[r].op = "start"
  BY <1>1, <1>7 DEF StepFits
<1> QED BY <1>1, <1>4, <1>5, <1>6, <1>7

\* The events already published stay justified when the row takes new values.
LEMMA EventsGrow ==
  ASSUME EventsFollowRow, published' = published, was \subseteq was'
  PROVE  EventsFollowRow'
BY DEF EventsFollowRow, HadStatus

\* A step that writes a row value keeps the invariant when the history, the
\* requests and the rest are fine.
LEMMA WriteInv ==
  ASSUME Inv, NEW value \in Session \cup {Absent}, Write(value),
         HasQuestion(value),
         row # Absent /\ row.question # None =>
           value = Absent \/ value.question # None,
         row = Absent => value = Absent,
         UNCHANGED <<cache, ids, published>>,
         players' \in 0..MaxPlayers, Counted,
         req' \in [Requests -> Request],
         \A q \in Requests : RequestOK(req'[q], was')
  PROVE  Inv'
<1>1. was' = was \cup {value} /\ row' = value
  BY DEF Write
<1>2. RowHistory(was)'
  <2>1. \A v \in was : v.question # None => value = Absent \/ value.question # None
    BY DEF Inv, LifecycleInv, RowHistory
  <2>2. \A v \in was : HasQuestion(v)
    BY DEF Inv, LifecycleInv, RowHistory
  <2> QED BY <1>1, <2>1, <2>2 DEF RowHistory, HasQuestion
<1>3. EventsFollowRow'
  BY <1>1, EventsGrow DEF Inv, LifecycleInv
<1>4. \A key \in {"id", "pk"} : cache'[key] \in was' \cup {Absent}
  BY <1>1 DEF Inv, LifecycleInv
<1>5. TypeOK'
  BY <1>1 DEF Inv, TypeOK, Counted
<1> QED BY <1>2, <1>3, <1>4, <1>5 DEF Inv, LifecycleInv

LEMMA UpdateRowInv ==
  ASSUME Inv, NEW r \in Requests, UpdateRow(r)
  PROVE  Inv'
<1>1. /\ req[r] \in Request /\ StepFits(req[r]) /\ "update" \in req[r].todo
      /\ req[r].step \in {"save", "failed"}
      /\ req[r].seen \in was \cup {Absent}
  BY Current DEF UpdateRow, RequestOK, StepFits
<1>2. Counted
  BY FaultCounted DEF UpdateRow, LostReply, Inv
<1>3. ASSUME req' = [req EXCEPT ![r].todo = (@ \ {"update"}) \cup {"invalidate"}],
             was \subseteq was', Happened(req[r], was')
      PROVE  /\ req' \in [Requests -> Request]
             /\ \A q \in Requests : RequestOK(req'[q], was')
  <2> DEFINE new == [req[r] EXCEPT
                       !.todo = (req[r].todo \ {"update"}) \cup {"invalidate"}]
  <2>1. new \in Request
    BY <1>1 DEF Request
  <2>2. /\ new.step = req[r].step /\ new.op = req[r].op
        /\ new.seen = req[r].seen /\ new.target = req[r].target
    BY <1>1 DEF Request
  <2>3. req' = [req EXCEPT ![r] = new]
    BY <1>3 DEF Inv, TypeOK
  <2> HIDE DEF new
  <2>4. Happened(new, was')
    BY <1>3, <2>2 DEF Happened
  <2>5. StepFits(new)
    BY <1>1, <2>2 DEF StepFits
  <2>6. RequestOK(new, was')
    BY <1>1, <1>3, <2>2, <2>4, <2>5 DEF RequestOK, Forgetting
  <2> QED BY <1>3, <2>1, <2>3, <2>6, OneRequest DEF Inv
<1>4. ASSUME req' = [req EXCEPT ![r].todo = @ \ {"update"}, ![r].step = "failed"],
             was \subseteq was'
      PROVE  /\ req' \in [Requests -> Request]
             /\ \A q \in Requests : RequestOK(req'[q], was')
  <2> DEFINE new == [req[r] EXCEPT !.todo = req[r].todo \ {"update"},
                                   !.step = "failed"]
  <2>1. new \in Request
    BY <1>1 DEF Request, Step
  <2>2. /\ new.step = "failed" /\ new.op = req[r].op
        /\ new.seen = req[r].seen /\ new.target = req[r].target
    BY <1>1 DEF Request
  <2>3. req' = [req EXCEPT ![r] = new]
    BY <1>4 DEF Inv, TypeOK
  <2> HIDE DEF new
  <2>4. RequestOK(new, was')
    BY <1>1, <1>4, <2>2 DEF RequestOK, StepFits, Forgetting
  <2> QED BY <1>4, <2>1, <2>3, <2>4, OneRequest DEF Inv
<1>5. CASE /\ req' = [req EXCEPT ![r].todo = @ \ {"update"}, ![r].step = "failed"]
           /\ UNCHANGED <<row, was>>
  BY <1>2, <1>4, <1>5, CopiesKept, QuietInv DEF UpdateRow, Inv, TypeOK
\* Committed, the request goes on to invalidate or has not got the reply.
<1>6. CASE Commit(req[r])
  <2>1. ASSUME was \subseteq was', Happened(req[r], was')
        PROVE  /\ req' \in [Requests -> Request]
               /\ \A q \in Requests : RequestOK(req'[q], was')
    BY <1>3, <1>4, <2>1 DEF UpdateRow
  <2>2. CASE row = Absent
    <3>1. UNCHANGED <<row, was>> /\ was \subseteq was'
      BY <1>6, <2>2 DEF Commit
    <3>2. Happened(req[r], was')
      BY <2>2, <3>1 DEF Inv, LifecycleInv, RowHistory, Happened
    <3> QED
      BY <1>2, <2>1, <3>1, <3>2, CopiesKept, QuietInv
         DEF UpdateRow, Inv, TypeOK
  <2>3. CASE row # Absent
    <3> DEFINE value == Updated(req[r])
    <3>1. /\ value \in Session /\ HasQuestion(value)
          /\ row.question # None => value.question # None
          /\ req[r].op \in {"start", "next", "end"}
          /\ req[r].op = "end" => value.status = "FINISHED"
          /\ req[r].op \in {"start", "next"} =>
               /\ value.status = "QUESTION_ACTIVE"
               /\ \/ req[r].target = None
                  \/ value = [status |-> "QUESTION_ACTIVE",
                              question |-> req[r].target]
      BY <1>1, <2>3, UpdatedOK
    <3>2. Write(value)
      BY <1>6, <2>3 DEF Commit
    <3> HIDE DEF value
    <3>3. was \subseteq was' /\ value \in was'
      BY <3>2 DEF Write
    <3>4. Happened(req[r], was')
      BY <3>1, <3>3 DEF Happened
    <3> QED
      BY <1>2, <2>1, <2>3, <3>1, <3>2, <3>3, <3>4, WriteInv
         DEF UpdateRow, Inv, TypeOK
  <2> QED BY <2>2, <2>3
<1> QED BY <1>5, <1>6 DEF UpdateRow

\* The other commands in flight change the copies only.
LEMMA InvalidateInv ==
  ASSUME Inv, NEW r \in Requests, Invalidate(r) \/ ClearQueue(r)
  PROVE  Inv'
<1>1. /\ req[r] \in Request /\ RequestOK(req[r], was) /\ req[r].todo # {}
      /\ req[r].step \in {"save", "failed"}
      /\ req[r].seen \in was \cup {Absent}
  BY Current DEF Invalidate, ClearQueue, RequestOK, StepFits
<1>2. PICK done \in {"invalidate", "clear"}, step \in {req[r].step, "failed"} :
        req' = [req EXCEPT ![r].todo = @ \ {done}, ![r].step = step]
  <2>1. CASE \E done \in {"invalidate", "clear"} :
               req' = [req EXCEPT ![r].todo = @ \ {done}]
    <3>1. PICK done \in {"invalidate", "clear"} :
            req' = [req EXCEPT ![r].todo = @ \ {done}]
      BY <2>1
    <3>2. req' = [req EXCEPT ![r].todo = @ \ {done}, ![r].step = req[r].step]
      BY <1>1, <3>1 DEF Inv, TypeOK, Request
    <3> QED BY <3>2
  <2> QED BY <2>1 DEF Invalidate, ClearQueue
<1> DEFINE new == [req[r] EXCEPT !.todo = req[r].todo \ {done}, !.step = step]
<1>3. new \in Request
  BY <1>1 DEF Request, Step
<1>4. /\ new.step = step /\ new.op = req[r].op /\ new.seen = req[r].seen
      /\ new.target = req[r].target
      /\ "update" \in req[r].todo => "update" \in new.todo
  BY <1>1 DEF Request
<1>5. req' = [req EXCEPT ![r] = new]
  BY <1>2 DEF Inv, TypeOK
<1> HIDE DEF new
<1>6. StepFits(new)
  BY <1>1, <1>4 DEF RequestOK, StepFits, Forgetting
<1>7. RequestOK(new, was)
  BY <1>1, <1>4, <1>6 DEF RequestOK, Happened, Forgetting
<1>8. was' = was /\ row' = row
  BY DEF Invalidate, ClearQueue
<1>9. req' \in [Requests -> Request] /\ \A q \in Requests : RequestOK(req'[q], was')
  BY <1>3, <1>5, <1>7, <1>8, OneRequest DEF Inv
<1>10. cache' \in [{"id", "pk"} -> was \cup {Absent}]
  BY CopiesKept DEF Invalidate, ClearQueue, Inv, TypeOK, LifecycleInv
<1>11. Counted
  BY OutageCounted DEF Invalidate, ClearQueue, Inv
<1> QED
  BY <1>8, <1>9, <1>10, <1>11, QuietInv DEF Invalidate, ClearQueue, Inv, TypeOK

----------------------------------------------------------------------------
(* Announcing                                                              *)

\* Publishing a justified event keeps the invariant.
LEMMA PublishInv ==
  ASSUME Inv, NEW e \in Event, published' = published \cup {e},
         \/ Absent \in was
         \/ e.type = "PARTICIPANT_JOINED"
         \/ e.type = "SESSION_STARTED" /\ HadStatus("QUESTION_ACTIVE")
         \/ e.type = "SESSION_ENDED" /\ HadStatus("FINISHED")
         \/ /\ e.type = "SESSION_NEXT_QUESTION"
            /\ \/ e.question = None
               \/ [status |-> "QUESTION_ACTIVE", question |-> e.question] \in was,
         UNCHANGED <<row, cache, ids, players, was, bounds>>,
         req' \in [Requests -> Request],
         \A q \in Requests : RequestOK(req'[q], was')
  PROVE  Inv'
<1>1. RowHistory(was)'
  BY DEF Inv, LifecycleInv, RowHistory, HasQuestion
<1>2. EventsFollowRow'
  BY DEF Inv, LifecycleInv, EventsFollowRow, HadStatus
<1>3. \A key \in {"id", "pk"} : cache'[key] \in was' \cup {Absent}
  BY DEF Inv, LifecycleInv
<1>4. TypeOK'
  BY DEF Inv, TypeOK, bounds
<1> QED BY <1>1, <1>2, <1>3, <1>4 DEF Inv, LifecycleInv

LEMMA EventTypes ==
  /\ \A type \in {"SESSION_STARTED", "SESSION_ENDED", "SESSION_DELETED",
                  "PARTICIPANT_JOINED"} :
       EventOf(type, None) \in Event /\ EventOf(type, None).type = type
  /\ \A q \in Questions \cup {None} :
       /\ EventOf("SESSION_NEXT_QUESTION", q) \in Event
       /\ EventOf("SESSION_NEXT_QUESTION", q).type = "SESSION_NEXT_QUESTION"
       /\ EventOf("SESSION_NEXT_QUESTION", q).question = q
BY DEF EventOf, Event

LEMMA PublishStartedInv ==
  ASSUME Inv, NEW r \in Requests, PublishStarted(r)
  PROVE  Inv'
<1>1. /\ req[r] \in Request /\ RequestOK(req[r], was)
      /\ req[r].step = "save" /\ req[r].op = "start" /\ req[r].todo = {}
  BY Current DEF PublishStarted
<1>2. Happened(req[r], was)
  BY <1>1 DEF RequestOK
<1> DEFINE new == [req[r] EXCEPT !.step = "announce"]
<1>3. "announce" \in Step
  BY DEF Step
<1>4. req' = [req EXCEPT ![r] = new] /\ new \in Request
  BY <1>3, GotoRecord DEF PublishStarted, Inv
<1>5. /\ new.step = "announce" /\ new.op = "start" /\ new.todo = {}
      /\ new.seen = req[r].seen /\ new.target = req[r].target
  BY <1>1 DEF Request
<1> HIDE DEF new
<1>6. RequestOK(new, was')
  BY <1>1, <1>2, <1>5 DEF RequestOK, StepFits, Forgetting, Happened, PublishStarted
<1>7. req' \in [Requests -> Request] /\ \A q \in Requests : RequestOK(req'[q], was')
  BY <1>4, <1>6, OneRequest DEF Inv, PublishStarted
<1>8. Absent \in was \/ HadStatus("QUESTION_ACTIVE")
  BY <1>1, <1>2 DEF Happened, HadStatus
<1> DEFINE e == EventOf("SESSION_STARTED", None)
<1>9. e \in Event /\ e.type = "SESSION_STARTED" /\ published' = published \cup {e}
  BY EventTypes DEF PublishStarted, Publish
<1> HIDE DEF e
<1> QED BY <1>7, <1>8, <1>9, PublishInv DEF PublishStarted

LEMMA PublishNextInv ==
  ASSUME Inv, NEW r \in Requests, PublishNext(r)
  PROVE  Inv'
<1>1. /\ req[r] \in Request /\ RequestOK(req[r], was)
      /\ \/ req[r].step = "announce" /\ req[r].op = "start"
         \/ req[r].step = "save" /\ req[r].op = "next" /\ req[r].todo = {}
  BY Current DEF PublishNext, RequestOK, StepFits
<1>2. Happened(req[r], was)
  BY <1>1 DEF RequestOK
<1>3. req' \in [Requests -> Request] /\ \A q \in Requests : RequestOK(req'[q], was')
  BY ReplyRecord DEF PublishNext, Inv
<1> DEFINE e == EventOf("SESSION_NEXT_QUESTION", req[r].target)
<1>4. /\ e \in Event /\ e.type = "SESSION_NEXT_QUESTION"
      /\ e.question = req[r].target /\ published' = published \cup {e}
  BY <1>1, EventTypes DEF PublishNext, Publish, Request
<1> HIDE DEF e
<1>5. \/ Absent \in was
      \/ e.question = None
      \/ [status |-> "QUESTION_ACTIVE", question |-> e.question] \in was
  BY <1>1, <1>2, <1>4 DEF Happened
<1> QED BY <1>3, <1>4, <1>5, PublishInv DEF PublishNext

LEMMA PublishEndedInv ==
  ASSUME Inv, NEW r \in Requests, PublishEnded(r)
  PROVE  Inv'
<1>1. Happened(req[r], was) /\ req[r].op = "end"
  BY Current DEF PublishEnded, RequestOK
<1>2. req' \in [Requests -> Request] /\ \A q \in Requests : RequestOK(req'[q], was')
  BY ReplyRecord DEF PublishEnded, Inv
<1>3. Absent \in was \/ HadStatus("FINISHED")
  BY <1>1 DEF Happened, HadStatus
<1> DEFINE e == EventOf("SESSION_ENDED", None)
<1>4. e \in Event /\ e.type = "SESSION_ENDED" /\ published' = published \cup {e}
  BY EventTypes DEF PublishEnded, Publish
<1> HIDE DEF e
<1> QED BY <1>2, <1>3, <1>4, PublishInv DEF PublishEnded

----------------------------------------------------------------------------
(* Joining and deleting                                                    *)

LEMMA JoinCreateInv ==
  ASSUME Inv, NEW r \in Requests, JoinCreate(r)
  PROVE  Inv'
<1>1. req' \in [Requests -> Request] /\ \A q \in Requests : RequestOK(req'[q], was')
  BY GotoEarly, ReplyRecord, NothingToDo DEF JoinCreate, Inv, Forgetting
<1>2. players' \in 0..MaxPlayers
  BY BoundsType DEF JoinCreate, Inv, TypeOK
<1> QED BY <1>1, <1>2, CopiesKept, NotCounted, QuietInv DEF JoinCreate, Inv, TypeOK

LEMMA PublishJoinedInv ==
  ASSUME Inv, NEW r \in Requests, PublishJoined(r)
  PROVE  Inv'
<1>1. req' \in [Requests -> Request] /\ \A q \in Requests : RequestOK(req'[q], was')
  BY ReplyRecord DEF PublishJoined, Inv
<1> DEFINE e == EventOf("PARTICIPANT_JOINED", None)
<1>2. e \in Event /\ e.type = "PARTICIPANT_JOINED" /\ published' = published \cup {e}
  BY EventTypes DEF PublishJoined, Publish
<1> HIDE DEF e
<1> QED BY <1>1, <1>2, PublishInv DEF PublishJoined

LEMMA DeletePlayersInv ==
  ASSUME Inv, NEW r \in Requests, DeletePlayers(r)
  PROVE  Inv'
<1>2. req' \in [Requests -> Request] /\ \A q \in Requests : RequestOK(req'[q], was')
  <2>1. CASE Reply(r)
    BY <2>1, ReplyRecord DEF DeletePlayers, Inv
  <2>2. CASE req' = [req EXCEPT ![r] = [Idle EXCEPT !.op = "erase", !.step = "find"]]
    <3> DEFINE new == [Idle EXCEPT !.op = "erase", !.step = "find"]
    <3>1. /\ new \in Request /\ new.step = "find" /\ new.todo = {}
          /\ new.seen = Absent
      BY EmptySeq DEF Idle, Request, Step
    <3>2. req' = [req EXCEPT ![r] = new]
      BY <2>2
    <3> HIDE DEF new
    <3>3. RequestOK(new, was')
      BY <3>1, EarlyRequest DEF Forgetting
    <3> QED BY <3>1, <3>2, <3>3, OneRequest DEF DeletePlayers, Inv
  <2> QED BY <2>1, <2>2 DEF DeletePlayers
<1>3. players' \in 0..MaxPlayers
  BY BoundsType DEF DeletePlayers, Inv, TypeOK
<1>4. Counted
  BY FaultCounted DEF DeletePlayers, Inv
<1> QED BY <1>2, <1>3, <1>4, CopiesKept, QuietInv DEF DeletePlayers, Inv, TypeOK

LEMMA DeleteRowInv ==
  ASSUME Inv, NEW r \in Requests, DeleteRow(r)
  PROVE  Inv'
<1>1. was \subseteq was' /\ Absent \in was'
  BY DEF DeleteRow, Write
<1>2. req' \in [Requests -> Request] /\ \A q \in Requests : RequestOK(req'[q], was')
  <2>1. CASE Goto(r, "forgetId")
    BY <1>1, <2>1, GotoEarly, NothingToDo DEF DeleteRow
  <2>2. CASE Reply(r)
    BY <1>1, <2>2, ReplyRecord DEF Inv
  <2> QED BY <2>1, <2>2 DEF DeleteRow
<1>3. players' \in 0..MaxPlayers
  BY BoundsType DEF DeleteRow
<1>4. Counted
  BY FaultCounted DEF DeleteRow, LostReply, Inv
<1> QED BY <1>2, <1>3, <1>4, Sentinels, WriteInv DEF DeleteRow, Inv

LEMMA ForgetInv ==
  ASSUME Inv, NEW r \in Requests, ForgetId(r) \/ ForgetKey(r) \/ ForgetIds(r)
  PROVE  Inv'
<1>1. was' = was /\ Absent \in was
  BY Current DEF ForgetId, ForgetKey, ForgetIds, RequestOK, Forgetting
<1>2. req' \in [Requests -> Request] /\ \A q \in Requests : RequestOK(req'[q], was')
  <2>1. CASE Goto(r, "forgetKey")
    BY <1>1, <2>1, GotoEarly, NothingToDo DEF ForgetId, ForgetKey, ForgetIds
  <2>2. CASE Goto(r, "forgetIds")
    BY <1>1, <2>2, GotoEarly, NothingToDo DEF ForgetId, ForgetKey, ForgetIds
  <2>3. CASE Goto(r, "forgotten")
    BY <1>1, <2>3, GotoEarly, NothingToDo DEF ForgetId, ForgetKey, ForgetIds
  <2> QED BY <2>1, <2>2, <2>3 DEF ForgetId, ForgetKey, ForgetIds
<1>3. cache' \in [{"id", "pk"} -> was \cup {Absent}]
  BY CopiesKept DEF ForgetId, ForgetKey, ForgetIds, Inv, TypeOK, LifecycleInv
<1>4. ids' \in Seq(Questions)
  BY EmptySeq DEF ForgetId, ForgetKey, ForgetIds, Inv, TypeOK
<1>5. Counted
  BY OutageCounted DEF ForgetId, ForgetKey, ForgetIds, Inv
<1> QED
  BY <1>2, <1>3, <1>4, <1>5, QuietInv
     DEF ForgetId, ForgetKey, ForgetIds, Inv, TypeOK

LEMMA PublishDeletedInv ==
  ASSUME Inv, NEW r \in Requests, PublishDeleted(r)
  PROVE  Inv'
<1>3. Absent \in was
  BY Current DEF PublishDeleted, RequestOK, Forgetting
<1>1. req' \in [Requests -> Request] /\ \A q \in Requests : RequestOK(req'[q], was')
  BY ReplyRecord DEF PublishDeleted, Inv
<1> DEFINE e == EventOf("SESSION_DELETED", None)
<1>2. e \in Event /\ e.type = "SESSION_DELETED" /\ published' = published \cup {e}
  BY EventTypes DEF PublishDeleted, Publish
<1> HIDE DEF e
<1> QED BY <1>1, <1>2, <1>3, PublishInv DEF PublishDeleted

LEMMA CrashInv == ASSUME Inv, Crash PROVE Inv'
<1>1. req' \in [Requests -> Request] /\ \A q \in Requests : RequestOK(req'[q], was')
  BY IdleOK, Sentinels DEF Crash
<1>2. Counted
  BY BoundsType DEF Crash, Inv, TypeOK, Counted
<1> QED BY <1>1, <1>2, CopiesKept, QuietInv DEF Crash, Inv, TypeOK

----------------------------------------------------------------------------
(* The theorems                                                            *)

LEMMA InitInv == Init => Inv
<1> SUFFICES ASSUME Init PROVE Inv
  OBVIOUS
<1>1. row \in Session /\ HasQuestion(row) /\ row.question = None
  BY DEF Init, Session, Status, HasQuestion
<1>2. ids \in Seq(Questions)
  BY VersionsType DEF Init
<1>3. TypeOK
  BY <1>1, <1>2, BoundsType, Sentinels DEF Init, TypeOK
<1>4. \A r \in Requests : RequestOK(req[r], was)
  BY IdleOK DEF Init
<1>5. RowHistory(was)
  BY <1>1 DEF Init, RowHistory
<1>6. EventsFollowRow /\ \A key \in {"id", "pk"} : cache[key] \in was \cup {Absent}
  BY DEF Init, EventsFollowRow
<1> QED BY <1>3, <1>4, <1>5, <1>6 DEF Inv, LifecycleInv

LEMMA AdvanceInv ==
  ASSUME Inv, NEW r \in Requests, Advance(r)
  PROVE  Inv'
<1>1. CASE Find(r)
  BY <1>1, FindHitInv, FindMissInv, FindRowInv, FindFillInv DEF Find
<1>2. CASE Choose(r)
  BY <1>2, GetQuestionInv, QuizInv, NextIdsInv, KeepIdsInv, NextFreshInv, BeginSaveInv DEF Choose
<1>3. CASE Save(r)
  BY <1>3, UpdateRowInv, InvalidateInv, ReplyInv DEF Save
<1>4. CASE Delete(r)
  BY <1>4, DeletePlayersInv, DeleteRowInv, ForgetInv, PublishDeletedInv DEF Delete
<1>5. CASE Tell(r)
  BY <1>5, ReplyInv, PublishStartedInv, PublishNextInv, PublishEndedInv,
     JoinCreateInv, PublishJoinedInv DEF Tell
<1> QED BY <1>1, <1>2, <1>3, <1>4, <1>5 DEF Advance

LEMMA NextInv == Inv /\ [Next]_vars => Inv'
<1> SUFFICES ASSUME Inv, [Next]_vars PROVE Inv'
  OBVIOUS
<1>1. ASSUME NEW r \in Requests, NEW op \in Operations, Begin(r, op) PROVE Inv'
  BY <1>1, BeginInv
<1>2. ASSUME NEW r \in Requests, Advance(r) PROVE Inv'
  BY <1>2, AdvanceInv
<1>3. ASSUME NEW r \in Requests, Fail(r) PROVE Inv'
  BY <1>3, ReplyInv
<1>4. CASE (\E key \in {"id", "pk"} : Expire(key)) \/ ExpireIds
  BY <1>4, ExpireInv
<1>5. CASE Crash
  BY <1>5, CrashInv
<1>6. CASE UNCHANGED vars
  <2>1. \A q \in Requests : RequestOK(req'[q], was')
    BY <1>6 DEF vars, Inv, LifecycleInv
  <2> QED
    BY <1>6, <2>1, CopiesKept, NotCounted, QuietInv DEF vars, Inv, TypeOK
<1> QED BY <1>1, <1>2, <1>3, <1>4, <1>5, <1>6 DEF Next

\* The inductive invariant holds in every reachable state: however requests,
\* expiries, failures and crashes interleave, types are kept, copies and the
\* requests' views are earlier values of the row, and a request that is about
\* to announce a change has made it.
THEOREM LifecycleInvariant == Spec => [](TypeOK /\ LifecycleInv)
<1>1. Spec => []Inv
  BY InitInv, NextInv, PTL DEF Spec
<1> QED BY <1>1, PTL DEF Inv

\* Type correctness of the session model.
THEOREM LifecycleTypes == Spec => []TypeOK
BY LifecycleInvariant, PTL

\* A copy in Valkey is never invented: it is a value the row has had.
THEOREM CopiesFromRow == Spec => []CopiesAreFromRow
<1>1. LifecycleInv => CopiesAreFromRow
  BY DEF LifecycleInv, CopiesAreFromRow, RequestOK
<1> QED BY <1>1, LifecycleInvariant, PTL

\* An active session has a current question, in the row, in its copies and in
\* the eyes of every request.
THEOREM ActiveQuestion == Spec => []ActiveHasQuestion
<1>1. LifecycleInv => ActiveHasQuestion
  <2> SUFFICES ASSUME LifecycleInv PROVE ActiveHasQuestion
    OBVIOUS
  <2>1. \A value \in was \cup {Absent} : HasQuestion(value)
    BY Sentinels DEF LifecycleInv, RowHistory
  <2>2. row \in was
    BY DEF LifecycleInv, RowHistory
  <2>3. \A r \in Requests : req[r].seen \in was \cup {Absent}
    BY DEF LifecycleInv, RequestOK
  <2>4. \A key \in {"id", "pk"} : cache[key] \in was \cup {Absent}
    BY DEF LifecycleInv
  <2> QED BY <2>1, <2>2, <2>3, <2>4 DEF ActiveHasQuestion
<1> QED BY <1>1, LifecycleInvariant, PTL

\* An event of the session follows the change of the row it announces.
THEOREM AnnouncedAfterSaved == Spec => []EventsFollowRow
<1>1. LifecycleInv => EventsFollowRow
  BY DEF LifecycleInv
<1> QED BY <1>1, LifecycleInvariant, PTL


----------------------------------------------------------------------------
(* One request at a time: the refinement of Session                        *)

\* One handler, over a Valkey that does not fail and a PostgreSQL whose replies
\* arrive, in a process that does not crash.  Any quiz, any number of requests,
\* any operations refused.
Serial(r) ==
  Requests = {r} /\ MaxOutages = 0 /\ MaxCrashes = 0 /\ ~ RepliesLost

LEMMA NoOutage == ASSUME Inv, NEW r, Serial(r) PROVE ~ Outage
BY DEF Inv, TypeOK, Serial, Outage

\* The whole of the invariant, about the one request.
LEMMA Alone ==
  ASSUME Inv, NEW r, Serial(r), DecidesOnRow
  PROVE  /\ r \in Requests
         /\ req[r] \in Request /\ StepFits(req[r]) /\ GoesBy(req[r], row)
         /\ cache["id"] \in {row, Absent} \/ Invalidating(req[r])
         /\ ids \in Versions \cup {<<>>}
         /\ cache \in [{"id", "pk"} -> Session \cup {Absent}]
         /\ req \in [Requests -> Request]
BY DEF Inv, TypeOK, LifecycleInv, RequestOK, Serial, DecidesOnRow

LEMMA AloneAfter ==
  ASSUME NEW r, Serial(r), GoesBy(req'[r], row'),
         cache'["id"] \in {row', Absent} \/ Invalidating(req'[r]),
         ids' \in Versions \cup {<<>>}
  PROVE  DecidesOnRow'
BY DEF Serial, DecidesOnRow

\* A request that neither reads nor writes the row decides nothing yet.
LEMMA Undecided ==
  ASSUME NEW request, NEW current,
         request.step \notin Deciding, request.todo = {},
         request.op = "end" => request.target = None
  PROVE  GoesBy(request, current)
BY DEF GoesBy, Deciding

\* What Serial leaves of the steps that change neither the row nor the copy.
LEMMA Settled ==
  ASSUME Inv, NEW r, Serial(r), DecidesOnRow, NEW new,
         req' = [req EXCEPT ![r] = new], UNCHANGED <<row, cache>>,
         ~ Invalidating(req[r]), GoesBy(new, row),
         ids' \in Versions \cup {<<>>}
  PROVE  DecidesOnRow'
<1>1. req'[r] = new
  BY Alone
<1> QED BY <1>1, Alone, AloneAfter

\* A request that ends or goes back to find, deciding afresh.
LEMMA Renewed ==
  ASSUME Inv, NEW r, Serial(r), DecidesOnRow, NEW new,
         new.step \notin Deciding, new.todo = {}, new.target = None,
         req' = [req EXCEPT ![r] = new],
         UNCHANGED <<row, cache, ids>>, ~ Invalidating(req[r])
  PROVE  DecidesOnRow'
<1>1. GoesBy(new, row)
  BY Undecided
<1> QED BY <1>1, Alone, Settled

LEMMA Refound ==
  ASSUME Inv, NEW r, Serial(r), DecidesOnRow, NEW op, NEW new,
         new = [Idle EXCEPT !.op = op, !.step = "find"],
         req' = [req EXCEPT ![r] = new],
         UNCHANGED <<row, cache, ids>>, ~ Invalidating(req[r])
  PROVE  DecidesOnRow'
<1>1. new.step \notin Deciding /\ new.todo = {} /\ new.target = None
  BY DEF Idle, Deciding
<1> QED BY <1>1, Renewed

LEMMA Replied ==
  ASSUME Inv, NEW r, Serial(r), DecidesOnRow, Reply(r),
         UNCHANGED <<row, cache, ids>>, ~ Invalidating(req[r])
  PROVE  DecidesOnRow'
<1>1. Idle.step \notin Deciding /\ Idle.todo = {} /\ Idle.target = None
  BY Sentinels DEF Deciding
<1> QED BY <1>1, Renewed DEF Reply

LEMMA NotInvalidating ==
  ASSUME Inv, NEW r \in Requests,
         req[r].step \notin {"save", "failed", "forgetId"}
  PROVE  ~ Invalidating(req[r]) /\ req[r].todo = {}
BY NothingToDo DEF Invalidating

LEMMA SerialRenew ==
  ASSUME Inv, NEW r, Serial(r), DecidesOnRow,
         \/ \E op \in Operations : Begin(r, op)
         \/ Answer(r) \/ Fail(r) \/ Rejected(r) \/ GetQuestion(r)
         \/ DeletePlayers(r)
         \/ PublishNext(r) \/ PublishEnded(r) \/ PublishJoined(r)
         \/ PublishDeleted(r)
  PROVE  DecidesOnRow'
<1>2. r \in Requests
  BY Alone
<1>3. CASE \E op \in Operations : Begin(r, op)
  <2>1. PICK op \in Operations : Begin(r, op)
    BY <1>3
  <2>2. req' = [req EXCEPT ![r] = [Idle EXCEPT !.op = op, !.step = "find"]]
    BY <2>1, <1>2, Alone DEF Begin
  <2>3. ~ Invalidating(req[r])
    BY <2>1, Sentinels DEF Begin, Invalidating
  <2> DEFINE new == [Idle EXCEPT !.op = op, !.step = "find"]
  <2>4. req' = [req EXCEPT ![r] = new] /\ UNCHANGED <<row, cache, ids>>
    BY <2>1, <2>2 DEF Begin
  <2>5. new = [Idle EXCEPT !.op = op, !.step = "find"]
    OBVIOUS
  <2> HIDE DEF new
  <2> QED BY ONLY <2>3, <2>4, <2>5, Refound, Inv, Serial(r), DecidesOnRow
<1>4. CASE GetQuestion(r)
  <2> DEFINE new == [Idle EXCEPT !.op = "question", !.step = "find"]
  <2>1. req' = [req EXCEPT ![r] = new] /\ UNCHANGED <<row, cache, ids>>
    BY <1>4 DEF GetQuestion
  <2>2. ~ Invalidating(req[r])
    BY <1>2, <1>4, NotInvalidating DEF GetQuestion
  <2>3. new = [Idle EXCEPT !.op = "question", !.step = "find"]
    OBVIOUS
  <2> HIDE DEF new
  <2> QED BY ONLY <2>1, <2>2, <2>3, Refound, Inv, Serial(r), DecidesOnRow
<1>5. CASE /\ req' = [req EXCEPT ![r] = [Idle EXCEPT !.op = "erase", !.step = "find"]]
           /\ DeletePlayers(r)
  <2> DEFINE new == [Idle EXCEPT !.op = "erase", !.step = "find"]
  <2>1. req' = [req EXCEPT ![r] = new] /\ UNCHANGED <<row, cache, ids>>
    BY <1>5 DEF DeletePlayers
  <2>2. ~ Invalidating(req[r])
    BY <1>2, <1>5, NotInvalidating DEF DeletePlayers
  <2>3. new = [Idle EXCEPT !.op = "erase", !.step = "find"]
    OBVIOUS
  <2> HIDE DEF new
  <2> QED BY ONLY <2>1, <2>2, <2>3, Refound, Inv, Serial(r), DecidesOnRow
<1>6. CASE /\ Reply(r)
           /\ \/ Answer(r) \/ Fail(r) \/ Rejected(r) \/ DeletePlayers(r)
              \/ PublishNext(r) \/ PublishEnded(r) \/ PublishJoined(r)
              \/ PublishDeleted(r)
  <2>1. ~ Invalidating(req[r])
    BY <1>2, <1>6, Alone, NothingToDo
       DEF Answer, Fail, Rejected, DeletePlayers, PublishNext, PublishEnded,
           PublishJoined, PublishDeleted, Invalidating
  <2>2. UNCHANGED <<row, cache, ids>>
    BY <1>6 DEF Answer, Fail, Rejected, DeletePlayers, PublishNext, PublishEnded,
           PublishJoined, PublishDeleted
  <2> QED BY <1>6, <2>1, <2>2, Replied
<1>7. ASSUME DeletePlayers(r)
      PROVE  \/ Reply(r)
             \/ req' = [req EXCEPT ![r] = [Idle EXCEPT !.op = "erase", !.step = "find"]]
  BY <1>7 DEF DeletePlayers
<1>8. ASSUME Answer(r) \/ Fail(r) \/ Rejected(r) \/ PublishNext(r)
             \/ PublishEnded(r) \/ PublishJoined(r) \/ PublishDeleted(r)
      PROVE  Reply(r)
  BY <1>8 DEF Answer, Fail, Rejected, PublishNext, PublishEnded, PublishJoined,
              PublishDeleted
<1> QED BY <1>3, <1>4, <1>5, <1>6, <1>7, <1>8


\* Looking the session up: what is found is the row.
LEMMA SerialFind ==
  ASSUME Inv, NEW r, Serial(r), DecidesOnRow, Find(r)
  PROVE  DecidesOnRow'
<1>1. /\ r \in Requests /\ req[r] \in Request /\ StepFits(req[r])
      /\ GoesBy(req[r], row) /\ req \in [Requests -> Request]
      /\ cache["id"] \in {row, Absent} \/ Invalidating(req[r])
      /\ cache \in [{"id", "pk"} -> Session \cup {Absent}]
      /\ ids \in Versions \cup {<<>>}
  BY Alone
<1>2. /\ req[r].step \in {"find", "findRow", "fill"}
      /\ ~ Invalidating(req[r]) /\ req[r].todo = {}
  BY <1>1, NotInvalidating DEF Find, FindHit, FindMiss, FindRow, FindFill
<1>3. cache["id"] \in {row, Absent}
  BY <1>1, <1>2
<1>4. CASE FindHit(r)
  <2> DEFINE copy == cache[KeyOf(req[r].op)]
             new == [req[r] EXCEPT !.seen = copy, !.step = "found"]
  <2>1. /\ new.step = "found" /\ new.op = req[r].op /\ new.seen = copy
        /\ new.todo = {} /\ new.target = req[r].target
    BY <1>1, <1>2 DEF Request
  <2>2. req' = [req EXCEPT ![r] = new]
    BY <1>1, <1>4 DEF FindHit
  <2>3. req[r].op # "join" => copy = row
    BY <1>3, <1>4 DEF FindHit, KeyOf
  <2> HIDE DEF new, copy
  <2>4. GoesBy(new, row)
    BY <1>1, <2>1, <2>3 DEF GoesBy
  <2> QED BY <1>1, <1>2, <1>4, <2>2, <2>4, Settled DEF FindHit
<1>5. CASE FindMiss(r)
  <2> DEFINE new == [req[r] EXCEPT !.step = "findRow"]
  <2>1. "findRow" \in Step
    BY DEF Step
  <2>2. /\ req' = [req EXCEPT ![r] = new]
        /\ new.step = "findRow" /\ new.op = req[r].op /\ new.todo = {}
        /\ new.target = req[r].target
    <3>1. req' = [req EXCEPT ![r] = new]
      BY <1>1, <1>5, <2>1, GotoRecord DEF FindMiss, Inv
    <3> QED BY <1>1, <1>2, <3>1 DEF Request
  <2> HIDE DEF new
  <2>3. GoesBy(new, row)
    BY <1>1, <2>2, Undecided DEF GoesBy, Deciding
  <2> QED BY <1>1, <1>2, <1>5, <2>2, <2>3, Settled DEF FindMiss
<1>6. CASE FindRow(r)
  <2>1. ASSUME NEW step \in {"fill", "found"},
               req' = [req EXCEPT ![r].seen = row, ![r].step = step]
        PROVE  DecidesOnRow'
    <3> DEFINE new == [req[r] EXCEPT !.seen = row, !.step = step]
    <3>1. /\ new.step = step /\ new.op = req[r].op /\ new.seen = row
          /\ new.todo = {} /\ new.target = req[r].target
      BY <1>1, <1>2 DEF Request
    <3>2. req' = [req EXCEPT ![r] = new]
      BY <1>1, <2>1
    <3> HIDE DEF new
    <3>3. GoesBy(new, row)
      BY <1>1, <3>1 DEF GoesBy
    <3> QED BY <1>1, <1>2, <1>6, <3>2, <3>3, Settled DEF FindRow
  <2>2. CASE Reply(r)
    BY <1>1, <1>2, <1>6, <2>2, Replied DEF FindRow
  <2> QED BY <1>6, <2>1, <2>2 DEF FindRow
<1>7. CASE FindFill(r)
  <2> DEFINE new == [req[r] EXCEPT !.step = "found"]
  <2>1. "found" \in Step
    BY DEF Step
  <2>2. /\ req' = [req EXCEPT ![r] = new]
        /\ new.step = "found" /\ new.op = req[r].op /\ new.todo = {}
        /\ new.target = req[r].target /\ new.seen = req[r].seen
    <3>1. req' = [req EXCEPT ![r] = new]
      BY <1>1, <1>7, <2>1, GotoRecord DEF FindFill, Inv
    <3> QED BY <1>1, <1>2, <3>1 DEF Request
  <2>3. req[r].op # "join" => req[r].seen = row
    BY <1>1, <1>7 DEF GoesBy, Deciding, FindFill
  <2>4. cache' = [cache EXCEPT ![KeyOf(req[r].op)] = req[r].seen]
    BY <1>7, NoOutage DEF FindFill
  <2>5. cache'["id"] \in {row, Absent}
    BY <1>1, <1>3, <2>3, <2>4 DEF KeyOf
  <2>6. req'[r] = new /\ row' = row /\ ids' = ids
    BY <1>1, <1>7, <2>2 DEF FindFill
  <2> HIDE DEF new
  <2>7. GoesBy(new, row)
    BY <1>1, <2>2, <2>3 DEF GoesBy
  <2> QED BY <1>1, <2>5, <2>6, <2>7, AloneAfter
<1> QED BY <1>4, <1>5, <1>6, <1>7 DEF Find

\* The keys that expire.
LEMMA SerialExpire ==
  ASSUME Inv, NEW r, Serial(r), DecidesOnRow,
         (\E key \in {"id", "pk"} : Expire(key)) \/ ExpireIds
  PROVE  DecidesOnRow'
<1>1. req' = req /\ row' = row
  BY DEF Expire, ExpireIds
<1>2. cache'["id"] \in {cache["id"], Absent}
  BY Alone DEF Expire, ExpireIds
<1>3. ids' \in {ids, <<>>}
  BY DEF Expire, ExpireIds
<1> QED BY <1>1, <1>2, <1>3, Alone, AloneAfter

----------------------------------------------------------------------------
\* The successor in a version of the quiz is undefined or follows in it.
LEMMA SuccessorFollows ==
  ASSUME NEW list \in Versions, NEW q
  PROVE  Successor(list, q) = None \/ Follows(Successor(list, q), q)
<1>1. list \in Seq(Questions) /\ list # <<>>
  BY VersionsType
<1>2. Len(list) \in Nat /\ DOMAIN list = 1..Len(list)
  BY <1>1
<1>3. CASE Has(list, q)
  <2> DEFINE index == IndexIn(list, q)
  <2>1. index \in 1..Len(list) /\ list[index] = q
    BY <1>2, <1>3 DEF IndexIn, Has
  <2>2. Successor(list, q) = IF index < Len(list) THEN list[index + 1] ELSE None
    BY <1>3 DEF Successor
  <2> HIDE DEF index
  <2>3. CASE index < Len(list)
    <3>1. index \in 1..(Len(list) - 1)
      BY <1>2, <2>1, <2>3
    <3> QED BY <2>1, <2>2, <2>3, <3>1 DEF Follows
  <2> QED BY <2>2, <2>3
<1>4. CASE ~ Has(list, q)
  <2>1. 0 < Len(list) /\ Successor(list, q) = list[1]
    BY <1>1, <1>2, <1>4 DEF Successor
  <2> QED BY <1>4, <2>1 DEF Follows
<1> QED BY <1>3, <1>4

\* Having its list, the request of a start goes to the first question, that
\* of a next to the one that follows, from what it has seen.
LEMMA WithIdsGoesBy ==
  ASSUME NEW request \in Request, NEW current, NEW list \in Versions,
         request.op \in {"start", "next", "question"},
         request.seen = current, request.todo = {},
         request.op = "start" => request.seen.status = "LOBBY"
  PROVE  GoesBy(WithIds(request, list), current)
<1> DEFINE q == request.seen.question
           at(step, target, todo) ==
             [request EXCEPT !.ids = list, !.step = step, !.target = target,
                             !.todo = todo]
<1>1. list \in Seq(Questions) /\ list # <<>>
  BY VersionsType
<1>2. ASSUME NEW step, NEW target, NEW todo
      PROVE  /\ at(step, target, todo).step = step
             /\ at(step, target, todo).op = request.op
             /\ at(step, target, todo).target = target
             /\ at(step, target, todo).todo = todo
             /\ at(step, target, todo).ids = list
             /\ at(step, target, todo).seen = request.seen
  BY DEF Request
<1> HIDE DEF at
<1>3. CASE request.op = "start"
  <2> DEFINE new == at("save", list[1], {"update", "clear"})
  <2>1. WithIds(request, list) = new
    BY <1>3 DEF WithIds, at
  <2>2. /\ new.step = "save" /\ new.op = "start" /\ new.target = list[1]
        /\ new.todo = {"update", "clear"} /\ new.seen = request.seen
    BY <1>2, <1>3
  <2> HIDE DEF new
  <2> QED BY <1>3, <2>1, <2>2 DEF GoesBy
<1>4. CASE request.op = "question" \/ (request.op = "next" /\ ~ Has(list, q))
  <2>1. WithIds(request, list) = Idle
    BY <1>4 DEF WithIds
  <2> QED BY <2>1, Sentinels, Undecided DEF Deciding
<1>5. CASE request.op = "next" /\ Has(list, q) /\ list[Len(list)] = q
  <2> DEFINE new == at("fresh", None, {})
  <2>1. WithIds(request, list) = new
    BY <1>5 DEF WithIds, at
  <2>2. new.step = "fresh" /\ new.op = "next" /\ new.todo = {} /\ new.seen = request.seen
    BY <1>2, <1>5
  <2> HIDE DEF new
  <2> QED BY <2>1, <2>2 DEF GoesBy
<1>6. CASE request.op = "next" /\ Has(list, q) /\ list[Len(list)] # q
  <2> DEFINE new == at("save", Successor(list, q), {"update", "clear"})
  <2>1. WithIds(request, list) = new
    BY <1>6 DEF WithIds, at
  <2>2. /\ new.step = "save" /\ new.op = "next" /\ new.target = Successor(list, q)
        /\ new.seen = request.seen
    BY <1>2, <1>6
  <2> HIDE DEF new
  <2>3. Successor(list, q) = None \/ Follows(Successor(list, q), q)
    BY SuccessorFollows
  <2> QED BY <2>1, <2>2, <2>3 DEF GoesBy
<1> QED BY <1>3, <1>4, <1>5, <1>6


\* Choosing the question, from what was seen and a version of the quiz.
LEMMA SerialChoose ==
  ASSUME Inv, NEW r, Serial(r), DecidesOnRow, Choose(r)
  PROVE  DecidesOnRow'
<1>1. /\ r \in Requests /\ req[r] \in Request /\ StepFits(req[r])
      /\ GoesBy(req[r], row) /\ req \in [Requests -> Request]
      /\ ids \in Versions \cup {<<>>}
  BY Alone
<1>2. /\ req[r].step \in {"found", "quiz", "keepIds", "fresh", "keepFresh"}
      /\ ~ Invalidating(req[r]) /\ req[r].todo = {}
      /\ UNCHANGED <<row, cache>>
  BY <1>1, NotInvalidating
     DEF Choose, GetQuestion, FullQuiz, NextIds, NextQuiz, KeepIds, NextFresh,
         KeepFresh, EndSave
<1>3. req[r].op # "join" => req[r].seen = row
  BY <1>1, <1>2 DEF GoesBy, Deciding
<1>4. CASE GetQuestion(r)
  BY <1>4, SerialRenew
<1>5. CASE FullQuiz(r) \/ NextQuiz(r)
  <2>1. PICK list \in Versions :
          req' = [req EXCEPT ![r].ids = list, ![r].step = "keepIds"]
    BY <1>5 DEF FullQuiz, NextQuiz
  <2> DEFINE new == [req[r] EXCEPT !.ids = list, !.step = "keepIds"]
  <2>2. /\ new.step = "keepIds" /\ new.ids = list /\ new.op = req[r].op
        /\ new.todo = {} /\ new.seen = req[r].seen
    BY <1>1, <1>2 DEF Request
  <2>3. req' = [req EXCEPT ![r] = new]
    BY <1>1, <2>1
  <2> HIDE DEF new
  <2>4. /\ req[r].op \in {"start", "next", "question"}
        /\ req[r].op = "start" => req[r].seen.status = "LOBBY"
    BY <1>1, <1>5 DEF FullQuiz, NextQuiz, StepFits
  <2>5. GoesBy(new, row)
    BY <1>3, <2>2, <2>4 DEF GoesBy
  <2> QED BY <1>1, <1>2, <1>5, <2>3, <2>5, Settled DEF FullQuiz, NextQuiz
<1>6. CASE NextIds(r)
  <2>1. CASE ids # <<>> /\ req' = [req EXCEPT ![r] = WithIds(@, ids)]
    <3>1. GoesBy(WithIds(req[r], ids), row)
      BY <1>1, <1>2, <1>3, <1>6, <2>1, WithIdsGoesBy DEF NextIds
    <3>2. req' = [req EXCEPT ![r] = WithIds(req[r], ids)]
      BY <2>1
    <3> QED BY <1>1, <1>2, <1>6, <3>1, <3>2, Settled DEF NextIds
  <2>2. CASE Goto(r, "quiz")
    <3> DEFINE new == [req[r] EXCEPT !.step = "quiz"]
    <3>1. "quiz" \in Step
      BY DEF Step
    <3>2. /\ req' = [req EXCEPT ![r] = new]
          /\ new.step = "quiz" /\ new.op = "next" /\ new.todo = {}
          /\ new.seen = req[r].seen
      <4>1. req' = [req EXCEPT ![r] = new]
        BY <1>1, <2>2, <3>1, GotoRecord DEF Inv
      <4> QED BY <1>1, <1>2, <1>6, <4>1 DEF NextIds, Request
    <3> HIDE DEF new
    <3>3. GoesBy(new, row)
      BY <1>3, <1>6, <3>2 DEF GoesBy, NextIds
    <3> QED BY <1>1, <1>2, <1>6, <3>2, <3>3, Settled DEF NextIds
  <2> QED BY <1>6, <2>1, <2>2 DEF NextIds
<1>7. CASE KeepIds(r)
  <2>1. /\ req[r].ids \in Versions
        /\ req[r].op \in {"start", "next", "question"}
        /\ req[r].op = "start" => req[r].seen.status = "LOBBY"
    BY <1>1, <1>7 DEF KeepIds, GoesBy, StepFits
  <2>2. GoesBy(WithIds(req[r], req[r].ids), row)
    BY <1>1, <1>2, <1>3, <2>1, WithIdsGoesBy
  <2>3. req' = [req EXCEPT ![r] = WithIds(req[r], req[r].ids)]
    BY <1>7 DEF KeepIds
  <2> QED BY <1>1, <1>2, <1>7, <2>1, <2>2, <2>3, Settled DEF KeepIds
<1>8. CASE NextFresh(r)
  <2>1. CASE req' = [req EXCEPT ![r] = [Idle EXCEPT !.op = "end", !.step = "find"]]
    <3> DEFINE new == [Idle EXCEPT !.op = "end", !.step = "find"]
    <3>1. req' = [req EXCEPT ![r] = new] /\ UNCHANGED <<row, cache, ids>>
      BY <1>8, <2>1 DEF NextFresh
    <3>2. new = [Idle EXCEPT !.op = "end", !.step = "find"]
      OBVIOUS
    <3> HIDE DEF new
    <3> QED BY ONLY <1>2, <3>1, <3>2, Refound, Inv, Serial(r), DecidesOnRow
  <2>2. CASE \E list \in Versions :
               req' = [req EXCEPT
                 ![r].ids = list,
                 ![r].target = Successor(list, req[r].seen.question),
                 ![r].step = "keepFresh"]
    <3>1. PICK list \in Versions :
            req' = [req EXCEPT
              ![r].ids = list,
              ![r].target = Successor(list, req[r].seen.question),
              ![r].step = "keepFresh"]
      BY <2>2
    <3> DEFINE next == Successor(list, req[r].seen.question)
               new == [req[r] EXCEPT !.ids = list, !.target = next,
                                     !.step = "keepFresh"]
    <3>2. next = None \/ Follows(next, req[r].seen.question)
      BY SuccessorFollows
    <3>3. req' = [req EXCEPT ![r] = new]
      BY <1>1, <3>1
    <3> HIDE DEF next
    <3>4. /\ new.step = "keepFresh" /\ new.ids = list /\ new.op = "next"
          /\ new.todo = {} /\ new.seen = req[r].seen /\ new.target = next
      BY <1>1, <1>2, <1>8 DEF Request, NextFresh, StepFits
    <3> HIDE DEF new
    <3>5. GoesBy(new, row)
      BY <1>1, <1>3, <1>8, <3>2, <3>4 DEF GoesBy, NextFresh, StepFits
    <3> QED BY <1>1, <1>2, <1>8, <3>3, <3>5, Settled DEF NextFresh
  <2> QED BY <1>8, <2>1, <2>2 DEF NextFresh
<1>9. CASE KeepFresh(r) \/ EndSave(r)
  <2>1. PICK todo \in {{"update"}, {"update", "clear"}} :
          req' = [req EXCEPT ![r].step = "save", ![r].todo = todo]
    BY <1>9 DEF KeepFresh, EndSave
  <2> DEFINE new == [req[r] EXCEPT !.step = "save", !.todo = todo]
  <2>2. /\ new.step = "save" /\ new.op = req[r].op /\ new.todo = todo
        /\ new.seen = req[r].seen /\ new.target = req[r].target
    BY <1>1 DEF Request
  <2>3. req' = [req EXCEPT ![r] = new]
    BY <1>1, <2>1
  <2> HIDE DEF new
  <2>4. \/ req[r].op = "end" /\ req[r].target = None
        \/ /\ req[r].op = "next"
           /\ \/ req[r].target = None
              \/ Follows(req[r].target, req[r].seen.question)
    BY <1>1, <1>9 DEF KeepFresh, EndSave, StepFits, GoesBy
  <2>5. GoesBy(new, row)
    BY <1>3, <2>2, <2>4 DEF GoesBy
  <2>6. ids' \in Versions \cup {<<>>}
    BY <1>1, <1>9 DEF KeepFresh, EndSave, GoesBy
  <2> QED BY <1>1, <1>2, <2>3, <2>5, <2>6, Settled
<1> QED BY <1>4, <1>5, <1>6, <1>7, <1>8, <1>9 DEF Choose

----------------------------------------------------------------------------
\* Commands in flight: after the update the copy is invalidated, whatever
\* becomes of the clearing.
LEMMA SerialSave ==
  ASSUME Inv, NEW r, Serial(r), DecidesOnRow, Save(r)
  PROVE  DecidesOnRow'
<1>1. /\ r \in Requests /\ req[r] \in Request /\ StepFits(req[r])
      /\ GoesBy(req[r], row) /\ req \in [Requests -> Request]
      /\ cache["id"] \in {row, Absent} \/ Invalidating(req[r])
      /\ cache \in [{"id", "pk"} -> Session \cup {Absent}]
      /\ ids \in Versions \cup {<<>>}
  BY Alone
<1>2. ASSUME NEW new, req' = [req EXCEPT ![r] = new], ids' = ids,
             GoesBy(new, row'),
             cache'["id"] \in {row', Absent} \/ Invalidating(new)
      PROVE  DecidesOnRow'
  <2>1. req'[r] = new
    BY <1>1, <1>2
  <2> QED BY <1>1, <1>2, <2>1, AloneAfter
<1>3. CASE UpdateRow(r)
  <2>1. /\ ids' = ids /\ cache' = cache
        /\ "update" \in req[r].todo /\ req[r].step \in {"save", "failed"}
    BY <1>1, <1>3 DEF UpdateRow, StepFits
  <2>2. CASE req' = [req EXCEPT ![r].todo = (@ \ {"update"}) \cup {"invalidate"}]
    <3> DEFINE new == [req[r] EXCEPT
                         !.todo = (req[r].todo \ {"update"}) \cup {"invalidate"}]
    <3>1. req' = [req EXCEPT ![r] = new]
      BY <1>1, <2>2
    <3>2. /\ new.todo = (req[r].todo \ {"update"}) \cup {"invalidate"}
          /\ new.step = req[r].step /\ new.op = req[r].op
          /\ new.target = req[r].target
      BY <1>1 DEF Request
    <3> HIDE DEF new
    <3>3. Invalidating(new)
      BY <3>2 DEF Invalidating
    <3>4. GoesBy(new, row')
      BY <1>1, <2>1, <3>2 DEF GoesBy, Deciding
    <3> QED BY <1>2, <2>1, <3>1, <3>3, <3>4
  <2>3. CASE /\ req' = [req EXCEPT ![r].todo = @ \ {"update"}, ![r].step = "failed"]
             /\ row' = row
    <3> DEFINE new == [req[r] EXCEPT !.todo = req[r].todo \ {"update"},
                                     !.step = "failed"]
    <3>1. req' = [req EXCEPT ![r] = new]
      BY <1>1, <2>3
    <3>2. /\ new.todo = req[r].todo \ {"update"} /\ new.step = "failed"
          /\ new.op = req[r].op /\ new.target = req[r].target
      BY <1>1 DEF Request
    <3> HIDE DEF new
    <3>3. Invalidating(req[r]) => Invalidating(new)
      BY <2>1, <3>2 DEF Invalidating
    <3>4. GoesBy(new, row')
      BY <1>1, <3>2 DEF GoesBy, Deciding
    <3> QED BY <1>1, <1>2, <2>1, <2>3, <3>1, <3>3, <3>4
  <2> QED BY <1>3, <2>2, <2>3 DEF UpdateRow, LostReply, Serial
<1>4. CASE Invalidate(r)
  <2> DEFINE new == [req[r] EXCEPT !.todo = req[r].todo \ {"invalidate"}]
  <2>1. req' = [req EXCEPT ![r] = new]
    BY <1>1, <1>4 DEF Invalidate
  <2>2. /\ new.todo = req[r].todo \ {"invalidate"} /\ new.step = req[r].step
        /\ new.op = req[r].op /\ new.target = req[r].target
        /\ new.seen = req[r].seen /\ new.ids = req[r].ids
    BY <1>1 DEF Request
  <2> HIDE DEF new
  <2>3. GoesBy(new, row)
    BY <1>1, <2>2 DEF GoesBy
  <2>4. cache' = [cache EXCEPT !["id"] = Absent] /\ ids' = ids /\ row' = row
    BY <1>4, NoOutage DEF Invalidate
  <2>5. cache'["id"] = Absent
    BY <1>1, <2>4
  <2> QED BY <1>2, <2>1, <2>3, <2>4, <2>5
<1>5. CASE ClearQueue(r)
  <2> DEFINE new == [req[r] EXCEPT !.todo = req[r].todo \ {"clear"}]
  <2>1. req' = [req EXCEPT ![r] = new]
    BY <1>1, <1>5, NoOutage DEF ClearQueue
  <2>2. /\ new.todo = req[r].todo \ {"clear"} /\ new.step = req[r].step
        /\ new.op = req[r].op /\ new.target = req[r].target
        /\ new.seen = req[r].seen /\ new.ids = req[r].ids
    BY <1>1 DEF Request
  <2> HIDE DEF new
  <2>3. GoesBy(new, row)
    BY <1>1, <2>2 DEF GoesBy
  <2>4. Invalidating(req[r]) => Invalidating(new)
    BY <2>2 DEF Invalidating
  <2> QED BY <1>1, <1>2, <1>5, <2>1, <2>3, <2>4 DEF ClearQueue
<1>6. CASE Rejected(r)
  BY <1>6, SerialRenew
<1> QED BY <1>3, <1>4, <1>5, <1>6 DEF Save


\* A request that goes on without deciding, over a copy it may forget.
LEMMA SerialGoto ==
  ASSUME Inv, NEW r, Serial(r), DecidesOnRow,
         NEW step \in Step \ Deciding, Goto(r, step), req[r].todo = {},
         \/ step = "forgetId"
         \/ cache'["id"] \in {row', Absent},
         ids' \in {ids, <<>>}
  PROVE  DecidesOnRow'
<1> DEFINE new == [req[r] EXCEPT !.step = step]
<1>1. /\ r \in Requests /\ GoesBy(req[r], row) /\ req \in [Requests -> Request]
      /\ ids \in Versions \cup {<<>>}
  BY Alone
<1>2. /\ req'[r] = new /\ new.step = step /\ new.todo = {}
      /\ new.op = req[r].op /\ new.target = req[r].target
  <2>1. req[r] \in Request /\ step \in Step
    BY Alone
  <2>2. new.step = step /\ new.todo = req[r].todo /\ new.op = req[r].op
        /\ new.target = req[r].target
    BY <2>1 DEF Request
  <2>3. req' = [req EXCEPT ![r] = new]
    BY <1>1, <2>1, GotoRecord DEF Inv
  <2> HIDE DEF new
  <2> QED BY <1>1, <2>2, <2>3
<1> HIDE DEF new
<1>3. GoesBy(new, row')
  BY <1>1, <1>2, Undecided DEF GoesBy
<1> QED BY <1>1, <1>2, <1>3, AloneAfter DEF Invalidating

\* Deleting: the copy under the id is forgotten next.
LEMMA SerialDelete ==
  ASSUME Inv, NEW r, Serial(r), DecidesOnRow, Delete(r)
  PROVE  DecidesOnRow'
<1>1. /\ r \in Requests
      /\ cache["id"] \in {row, Absent} \/ Invalidating(req[r])
      /\ cache \in [{"id", "pk"} -> Session \cup {Absent}]
  BY Alone
<1>2. CASE DeletePlayers(r) \/ PublishDeleted(r)
  BY <1>2, SerialRenew
<1>3. CASE DeleteRow(r)
  <2>1. Goto(r, "forgetId")
    BY <1>3 DEF DeleteRow, LostReply, Serial
  <2> QED BY <1>1, <1>3, <2>1, NothingToDo, SerialGoto
             DEF DeleteRow, Step, Deciding
<1>4. CASE ForgetId(r)
  <2>1. cache' = [cache EXCEPT !["id"] = Absent]
    BY <1>4, NoOutage DEF ForgetId
  <2>2. PICK step \in {"forgetIds", "forgetKey"} : Goto(r, step)
    BY <1>4 DEF ForgetId
  <2> QED BY <1>1, <1>4, <2>1, <2>2, NothingToDo, SerialGoto
             DEF ForgetId, Step, Deciding
<1>5. CASE ForgetKey(r)
  <2>1. cache' = [cache EXCEPT !["pk"] = Absent] /\ cache'["id"] = cache["id"]
    BY <1>1, <1>5, NoOutage DEF ForgetKey
  <2> QED BY <1>1, <1>5, <2>1, NothingToDo, SerialGoto
             DEF ForgetKey, Step, Deciding, Invalidating
<1>6. CASE ForgetIds(r)
  BY <1>1, <1>6, NothingToDo, SerialGoto
     DEF ForgetIds, Step, Deciding, Invalidating
<1> QED BY <1>2, <1>3, <1>4, <1>5, <1>6 DEF Delete

LEMMA SerialTell ==
  ASSUME Inv, NEW r, Serial(r), DecidesOnRow, Tell(r)
  PROVE  DecidesOnRow'
<1>1. /\ r \in Requests /\ req[r] \in Request
      /\ cache["id"] \in {row, Absent} \/ Invalidating(req[r])
  BY Alone
<1>2. CASE Answer(r) \/ PublishNext(r) \/ PublishEnded(r) \/ PublishJoined(r)
  BY <1>2, SerialRenew
<1>3. CASE PublishStarted(r)
  BY <1>1, <1>3, SerialGoto DEF PublishStarted, Step, Deciding, Invalidating
<1>4. CASE JoinCreate(r)
  <2>1. CASE Reply(r)
    BY <1>1, <1>4, <2>1, NotInvalidating, Replied DEF JoinCreate
  <2>2. CASE Goto(r, "created")
    BY <1>1, <1>4, <2>2, NotInvalidating, SerialGoto
       DEF JoinCreate, Step, Deciding
  <2> QED BY <1>4, <2>1, <2>2 DEF JoinCreate
<1> QED BY <1>2, <1>3, <1>4 DEF Tell

LEMMA SerialInit == ASSUME Init PROVE DecidesOnRow
<1>1. \A r \in Requests : GoesBy(req[r], row)
  BY Sentinels, Undecided DEF Init, Deciding
<1> QED BY <1>1 DEF Init, DecidesOnRow

LEMMA SerialNext ==
  ASSUME Inv, NEW r, Serial(r), DecidesOnRow, [Next]_vars
  PROVE  DecidesOnRow'
<1>1. ASSUME NEW op \in Operations, Begin(r, op) PROVE DecidesOnRow'
  BY <1>1, SerialRenew
<1>2. CASE Advance(r)
  BY <1>2, SerialFind, SerialChoose, SerialSave, SerialDelete, SerialTell DEF Advance
<1>3. CASE Fail(r)
  BY <1>3, SerialRenew
<1>4. CASE (\E key \in {"id", "pk"} : Expire(key)) \/ ExpireIds
  BY <1>4, SerialExpire
<1>5. ~ Crash
  BY DEF Crash, Serial, Inv, TypeOK
<1>6. CASE UNCHANGED vars
  BY <1>6, Alone, AloneAfter DEF vars
<1> QED BY <1>1, <1>2, <1>3, <1>4, <1>5, <1>6 DEF Next, Serial

----------------------------------------------------------------------------
\* The update of a request is a step of the promise: what it has seen is the
\* row it overwrites.
LEMMA UpdatePromised ==
  ASSUME Inv, NEW r, Serial(r), DecidesOnRow, UpdateRow(r)
  PROVE  [Promise!Next]_<<row.status, row.question>>
<1>1. /\ r \in Requests /\ req[r] \in Request /\ StepFits(req[r])
      /\ GoesBy(req[r], row)
  BY Alone
<1>2. CASE UNCHANGED row
  BY <1>2
<1>3. CASE row # Absent /\ row' = Updated(req[r])
  <2>1. "update" \in req[r].todo /\ req[r].step \in {"save", "failed"}
        /\ req[r].op \in {"start", "next", "end"}
    BY <1>1, <1>3 DEF UpdateRow, StepFits
  <2>2. row \in Session /\ req[r].seen = row
    BY <1>1, <1>3, <2>1 DEF GoesBy, Inv, TypeOK
  <2>3. /\ row'.status = IF req[r].op = "end" THEN "FINISHED" ELSE "QUESTION_ACTIVE"
        /\ row'.question = IF req[r].target = None THEN row.question
                           ELSE req[r].target
    BY <1>3 DEF Updated
  <2>4. CASE req[r].op = "start"
    <3>1. PICK list \in Versions : req[r].target = list[1]
      BY <1>1, <2>1, <2>4 DEF GoesBy
    <3>2. row.status = "LOBBY" /\ req[r].target # None
      BY <1>1, <2>1, <2>2, <2>4 DEF GoesBy, StepFits
    <3> QED BY <2>3, <2>4, <3>1, <3>2 DEF Promise!Next, Promise!Start
  <2>5. CASE req[r].op = "end"
    <3>1. row'.status = "FINISHED" /\ row'.question = row.question
      BY <1>1, <2>3, <2>5 DEF GoesBy
    <3>2. row.status \in {"LOBBY", "QUESTION_ACTIVE", "FINISHED"}
      BY <2>2 DEF Session, Status
    <3> QED BY <3>1, <3>2 DEF Promise!Next, Promise!End
  <2>6. CASE req[r].op = "next"
    <3>1. row.status = "QUESTION_ACTIVE" /\ row'.status = "QUESTION_ACTIVE"
      BY <1>1, <2>1, <2>2, <2>3, <2>6 DEF StepFits
    <3>2. CASE req[r].target = None
      BY <2>3, <3>1, <3>2
    <3>3. CASE req[r].target # None
      <4>1. Follows(row'.question, row.question)
        BY <1>1, <2>1, <2>2, <2>3, <2>6, <3>3 DEF GoesBy
      <4> QED BY <3>1, <4>1 DEF Follows, Has, Promise!Next, Promise!Advance
    <3> QED BY <3>2, <3>3
  <2> QED BY <2>1, <2>4, <2>5, <2>6
<1> QED BY <1>2, <1>3 DEF UpdateRow, Commit, LostReply, Write

\* Nothing but an update and a deletion moves the row.
LEMMA StepPromised ==
  ASSUME Inv, NEW r, Serial(r), DecidesOnRow, [Next]_vars
  PROVE  [Promise!Next]_<<row.status, row.question>>
<1>1. ASSUME NEW op \in Operations, Begin(r, op) PROVE UNCHANGED row
  BY <1>1 DEF Begin
<1>2. CASE UpdateRow(r)
  BY <1>2, UpdatePromised
<1>3. CASE DeleteRow(r)
  BY <1>3 DEF DeleteRow, Write, Absent, None, Promise!Next, Promise!Delete
<1>4. CASE Find(r)
  BY <1>4 DEF Find, FindHit, FindMiss, FindRow, FindFill
<1>5. CASE Choose(r)
  BY <1>5 DEF Choose, GetQuestion, FullQuiz, NextIds, NextQuiz, KeepIds,
              NextFresh, KeepFresh, EndSave
<1>6. CASE Save(r) /\ ~ UpdateRow(r)
  BY <1>6 DEF Save, Invalidate, ClearQueue, Rejected
<1>7. CASE Delete(r) /\ ~ DeleteRow(r)
  BY <1>7 DEF Delete, DeletePlayers, ForgetId, ForgetKey, ForgetIds, PublishDeleted
<1>8. CASE Tell(r)
  BY <1>8 DEF Tell, Answer, PublishStarted, PublishNext, PublishEnded,
              JoinCreate, PublishJoined
<1>9. CASE \/ Fail(r) \/ ExpireIds \/ Crash \/ UNCHANGED vars
           \/ \E key \in {"id", "pk"} : Expire(key)
  BY <1>9 DEF Fail, ExpireIds, Crash, Expire, vars
<1> QED BY <1>1, <1>2, <1>3, <1>4, <1>5, <1>6, <1>7, <1>8, <1>9
        DEF Next, Advance, Serial

\* While requests are served one at a time, by a process that does not crash,
\* over a Valkey that does not fail and a PostgreSQL that loses no reply to a
\* write it has committed, a request decides on the row itself: no copy it reads
\* is stale, whatever expires and whichever operation is refused.
THEOREM SerialDecisions ==
  ASSUME NEW r, Serial(r)
  PROVE  Spec => []DecidesOnRow
<1>1. Init => DecidesOnRow
  BY SerialInit
<1>2. Inv /\ DecidesOnRow /\ [Next]_vars => DecidesOnRow'
  BY SerialNext
<1>3. Spec => []Inv
  BY InitInv, NextInv, PTL DEF Spec
<1> QED BY <1>1, <1>2, <1>3, PTL DEF Spec

\* The refinement: then the session starts once, at the first question of its
\* quiz, goes from question to question, finishes once and stays finished, and
\* a deleted session stays deleted.
THEOREM OneByOne ==
  ASSUME NEW r, Serial(r)
  PROVE  Spec => KeepsPromise
<1>1. Init => row.status = "LOBBY" /\ row.question = 0
  BY DEF Init, None
<1>2. Inv /\ DecidesOnRow /\ [Next]_vars
        => [Promise!Next]_<<row.status, row.question>>
  BY StepPromised
<1>3. Spec => []Inv
  BY InitInv, NextInv, PTL DEF Spec
<1>4. Spec => []DecidesOnRow
  BY SerialDecisions
<1> QED BY <1>1, <1>2, <1>3, <1>4, PTL DEF Spec, KeepsPromise, Promise!Spec

=============================================================================
