------------------------------- MODULE QuizCache -------------------------------
(***************************************************************************)
(* ms-quizz-management: quizzes, their questions and their choices, and    *)
(* the copies of them in Valkey that reads fill and writes drop.           *)
(*                                                                         *)
(* Every read that is cached looks for its copy, loads what it wants from  *)
(* the tables and stores it; every write works on the tables first and     *)
(* drops copies afterwards.  A request is the list of its awaits, and a    *)
(* step of the model is one of them.  No request looks at a copy other     *)
(* than its own, so that a behaviour follows one key, any, from the start. *)
(***************************************************************************)
EXTENDS Integers, Sequences, FiniteSets

CONSTANTS
  Quizzes, Questions, Choices,    \* ids that may be given to rows
  ParentOf,      \* the quiz of a question, the question of a choice
  MaxFlight,     \* bound on requests in flight at the same time
  MaxWrites,     \* bound on the writes of a behaviour
  MaxFaults,     \* bound on commands of Valkey and queries that fail
  Unborn, Gone,  \* no row yet, no row any more
  None           \* no copy, no request, nothing loaded or shown

Rows     == Quizzes \cup Questions \cup Choices
Requests == 1..MaxFlight

ASSUME RowsApart ==
  /\ Quizzes \cap (Questions \cup Choices) = {}
  /\ Questions \cap Choices = {}
ASSUME ParentType ==
  /\ ParentOf \in [Questions \cup Choices -> Quizzes \cup Questions]
  /\ \A k \in Questions : ParentOf[k] \in Quizzes
  /\ \A c \in Choices : ParentOf[c] \in Questions
ASSUME BoundsType == MaxFlight \in Nat /\ MaxWrites \in Nat /\ MaxFaults \in Nat
ASSUME NoneType ==
  /\ Unborn # Gone
  /\ Unborn \notin Nat /\ Gone \notin Nat /\ None \notin Nat

VARIABLES
  rows,      \* rows[x]: the write that made the row what it is
  key,       \* the key whose copy is followed
  copy,      \* what is stored under it
  req,       \* req[r]: the request, and the await it is at
  excused,   \* history: the copy is one of those nothing drops, see below
  asked,     \* writes so far
  faults     \* counter for the bound

vars == <<rows, key, copy, req, excused, asked, faults>>

All(kind) == <<kind, None>>

Key ==
  {All("quizzes:all"), All("questions:all"), All("choices:all")}
  \cup ({"quiz", "quiz:questions", "quiz:full", "quiz:ids", "quiz:answers"} \X Quizzes)
  \cup ({"question", "question:choices"} \X Questions)
  \cup ({"choice"} \X Choices)

QuizOf(c)      == ParentOf[ParentOf[c]]
ChildrenOf(x)  == {y \in Questions \cup Choices : ParentOf[y] = x}
Under(x)       == ChildrenOf(x) \cup UNION {ChildrenOf(y) : y \in ChildrenOf(x)}
Exists(x)      == rows[x] \notin {Unborn, Gone}

----------------------------------------------------------------------------
(* What the reads load from the tables t.                                   *)

\* Mutant: rows are told apart from their absence by the caller.
ShowAll(t, S) == [x \in Rows |-> IF x \in S /\ t[x] # Unborn THEN t[x] ELSE None]

\* Of every row what it is, or that it is not shown.
Show(t, S) ==
  [x \in Rows |-> IF x \in S /\ t[x] \notin {Unborn, Gone} THEN t[x] ELSE None]

GetAllQuizzes(t)             == Show(t, Quizzes)
GetQuizById(t, q)            == Show(t, {q})
GetFullQuiz(t, q)            == Show(t, {q} \cup Under(q))
GetQuizIdsOnly(t, q) ==
  [x \in Rows |-> IF Show(t, {q} \cup Under(q))[x] = None THEN None ELSE 0]
GetQuizAnswers(t, q)         == Show(t, Under(q) \cap Choices)  \* which one is right is in its row
GetAllQuestions(t)           == Show(t, Questions)
GetQuestionsByQuizId(t, q)   == Show(t, ChildrenOf(q))
GetQuestionById(t, k)        == Show(t, {k})
GetAllChoices(t)             == Show(t, Choices)
GetChoicesByQuestionId(t, k) == Show(t, ChildrenOf(k))
GetChoiceById(t, c)          == Show(t, {c})

\* What is stored under k.
Stored(k, t) ==
  LET x == k[2]
  IN  CASE k[1] = "quizzes:all"      -> GetAllQuizzes(t)
        [] k[1] = "quiz"             -> GetQuizById(t, x)
        [] k[1] = "quiz:full"        -> GetFullQuiz(t, x)
        [] k[1] = "quiz:ids"         -> GetQuizIdsOnly(t, x)
        [] k[1] = "quiz:answers"     -> GetQuizAnswers(t, x)
        [] k[1] = "questions:all"    -> GetAllQuestions(t)
        [] k[1] = "quiz:questions"   -> GetQuestionsByQuizId(t, x)
        [] k[1] = "question"         -> GetQuestionById(t, x)
        [] k[1] = "choices:all"      -> GetAllChoices(t)
        [] k[1] = "question:choices" -> GetChoicesByQuestionId(t, x)
        [] k[1] = "choice"           -> GetChoiceById(t, x)

View(t) == Stored(key, t)

\* The reads of one row answer 404 without it; those of a list do not look for
\* the row the list is of.
OfOneRow ==
  key[1] \in {"quiz", "quiz:full", "quiz:ids", "quiz:answers", "question", "choice"}

----------------------------------------------------------------------------
(* The writes: their awaits, what they drop in any case, and what they drop *)
(* when a last look at the question of their choice has found it.           *)

Read == [on |-> None, awaits |-> <<"get", "load", "set">>, drops |-> {}, ofQuiz |-> {}]

CopiesOfQuestion(k) ==
  {All("questions:all"), <<"question", k>>, <<"question:choices", k>>}
CopiesOfQuiz(q) ==
  {<<"quiz:questions", q>>, <<"quiz", q>>, <<"quiz:full", q>>}

CreateQuiz(q) ==
  [on |-> q, awaits |-> <<"insert", "drop">>,
   drops |-> {All("quizzes:all")}, ofQuiz |-> {}]

UpdateQuiz(q) ==
  [on |-> q, awaits |-> <<"find", "update", "find", "drop">>,
   drops |-> {<<"quiz", q>>, All("quizzes:all")}, ofQuiz |-> {}]

\* The copies of what was found under the quiz are dropped with it.
DeleteQuiz(q) ==
  [on |-> q, awaits |-> <<"children", "delete", "drop">>,
   drops |-> {<<"quiz", q>>, <<"quiz:questions", q>>, All("quizzes:all"),
              All("questions:all"), All("choices:all")}, ofQuiz |-> {}]

CreateQuestion(k) ==
  [on |-> k, awaits |-> <<"insert", "drop">>,
   drops |-> {All("questions:all"), All("quizzes:all")} \cup CopiesOfQuiz(ParentOf[k]),
   ofQuiz |-> {}]

\* Mutant: the list of the quiz's questions is forgotten.
UpdateQuestionButList(k) ==
  [on |-> k, awaits |-> <<"find", "update", "find", "drop">>,
   drops |-> {<<"question", k>>, All("questions:all"), All("quizzes:all"),
              <<"quiz", ParentOf[k]>>, <<"quiz:full", ParentOf[k]>>},
   ofQuiz |-> {}]

UpdateQuestion(k) ==
  [on |-> k, awaits |-> <<"find", "update", "find", "drop">>,
   drops |-> {<<"question", k>>, All("questions:all"), All("quizzes:all")}
               \cup CopiesOfQuiz(ParentOf[k]),
   ofQuiz |-> {}]

DeleteQuestion(k) ==
  [on |-> k, awaits |-> <<"children", "delete", "drop">>,
   drops |-> {All("quizzes:all"), All("choices:all")}
               \cup CopiesOfQuestion(k) \cup CopiesOfQuiz(ParentOf[k]),
   ofQuiz |-> {}]

CreateChoice(c) ==
  [on |-> c, awaits |-> <<"parent", "insert", "again", "drop", "dropQuiz">>,
   drops |-> {All("choices:all")} \cup CopiesOfQuestion(ParentOf[c]),
   ofQuiz |-> {All("quizzes:all")} \cup CopiesOfQuiz(QuizOf(c))]

UpdateChoice(c) ==
  [on |-> c, awaits |-> <<"find", "update", "find", "again", "drop", "dropQuiz">>,
   drops |-> {<<"choice", c>>, All("choices:all")} \cup CopiesOfQuestion(ParentOf[c]),
   ofQuiz |-> {All("quizzes:all")} \cup CopiesOfQuiz(QuizOf(c))]

\* The first copies are dropped before the question is looked for.
DeleteChoice(c) ==
  [on |-> c, awaits |-> <<"find", "delete", "drop", "again", "dropQuiz">>,
   drops |-> {<<"choice", c>>, All("choices:all"), All("quizzes:all")}
               \cup CopiesOfQuestion(ParentOf[c]),
   ofQuiz |-> CopiesOfQuiz(QuizOf(c))]

Creations ==
  {CreateQuiz(q) : q \in Quizzes} \cup {CreateQuestion(k) : k \in Questions}
  \cup {CreateChoice(c) : c \in Choices}

Plans ==
  {Read} \cup Creations
  \cup {UpdateQuiz(q) : q \in Quizzes} \cup {DeleteQuiz(q) : q \in Quizzes}
  \cup {UpdateQuestion(k) : k \in Questions} \cup {DeleteQuestion(k) : k \in Questions}
  \cup {UpdateChoice(c) : c \in Choices} \cup {DeleteChoice(c) : c \in Choices}

Copies == [Rows -> 0..MaxWrites \cup {None}]

\* A request: its plan and place in it, which write it is, the children a deletion has read,
\* whether the tables are changed, whether the last look has found the
\* question, and what a read has loaded.
Request ==
  [plan : Plans, at : Nat, number : Nat, children : SUBSET Rows,
   wrote : BOOLEAN, question : BOOLEAN, view : Copies \cup {None}]

ASSUME NoRequestIsNone == None \notin Request

TypeOK ==
  /\ rows \in [Rows -> 0..MaxWrites \cup {Unborn, Gone}]
  /\ key \in Key
  /\ copy \in Copies \cup {None}
  /\ req \in [Requests -> Request \cup {None}]
  /\ \A r \in Requests : req[r] # None =>
       req[r].at \in DOMAIN req[r].plan.awaits /\ req[r].number \in 0..asked
  /\ excused \in BOOLEAN
  /\ asked \in 0..MaxWrites
  /\ faults \in 0..MaxFaults

\* Rows of 0 are there from before.
Init ==
  /\ \E old \in SUBSET Rows :
       /\ \A x \in old \ Quizzes : ParentOf[x] \in old
       /\ rows = [x \in Rows |-> IF x \in old THEN 0 ELSE Unborn]
  /\ key \in Key
  /\ copy = None
  /\ req = [r \in Requests |-> None]
  /\ excused = FALSE
  /\ asked = 0
  /\ faults = 0

----------------------------------------------------------------------------
(* Awaits.                                                                  *)

\* Reads do not end: only the writes are bounded.
Ask(r, plan) ==
  /\ req[r] = None
  /\ \A p \in Requests : p < r => req[p] # None    \* which one does not matter
  /\ IF plan = Read THEN asked' = asked
                    ELSE asked < MaxWrites /\ asked' = asked + 1
  /\ plan \in Creations =>           \* an id is given to one row only
       /\ rows[plan.on] = Unborn
       /\ \A p \in Requests : req[p] # None => req[p].plan # plan
  /\ req' = [req EXCEPT ![r] =
       [plan |-> plan, at |-> 1,
        number |-> IF plan = Read THEN 0 ELSE asked + 1, children |-> {},
        wrote |-> FALSE, question |-> FALSE, view |-> None]]
  /\ UNCHANGED <<rows, key, copy, excused, faults>>

At(r, await) == req[r] # None /\ req[r].plan.awaits[req[r].at] = await
On(r)        == req[r].plan.on

Finish(r) == req' = [req EXCEPT ![r] = None]

\* r goes on as q to its next await, if there is one.
GoOn(r, q) ==
  req' = [req EXCEPT ![r] =
    IF q.at = Len(q.plan.awaits) THEN None ELSE [q EXCEPT !.at = @ + 1]]

\* findOne; 404 when it finds nothing, before an update and after it.
Find(r) ==
  /\ At(r, "find")
  /\ IF Exists(On(r)) THEN GoOn(r, req[r]) ELSE Finish(r)
  /\ UNCHANGED <<rows, key, copy, excused, asked, faults>>

\* The question of a new choice is there, and not one for the buzzer.
FindParent(r) ==
  /\ At(r, "parent")
  /\ \/ Exists(ParentOf[On(r)]) /\ GoOn(r, req[r])
     \/ Finish(r)
  /\ UNCHANGED <<rows, key, copy, excused, asked, faults>>

FindByIdWithChildren(r) ==
  /\ At(r, "children")
  /\ IF Exists(On(r))
     THEN GoOn(r, [req[r] EXCEPT !.children = {x \in Under(On(r)) : Exists(x)}])
     ELSE Finish(r)
  /\ UNCHANGED <<rows, key, copy, excused, asked, faults>>

\* The copies of the children that were read before the deletion.
CopiesOf(children) ==
  {<<"question", k>> : k \in children \cap Questions}
  \cup {<<"question:choices", k>> : k \in children \cap Questions}
  \cup {<<"choice", c>> : c \in children \cap Choices}

\* Known not to be dropped: the ids and the answers of a quiz by any write,
\* the full quiz by those of the quiz itself, and the copies of a row that is
\* deleted with one above it, if it was not there yet to be read.
Overlooked(q) ==
  \/ key[1] \in {"quiz:ids", "quiz:answers"}
  \/ key[1] = "quiz:full" /\ q.plan.on \in Quizzes
  \/ /\ q.plan.awaits[q.at] = "delete"
     /\ key[2] \in Under(q.plan.on) \ q.children

\* The tables change.
Write(r, table) ==
  /\ rows' = table
  /\ excused' = (excused \/ (copy # None /\ View(table) # View(rows) /\ Overlooked(req[r])))
  /\ GoOn(r, [req[r] EXCEPT !.wrote = TRUE])
  /\ UNCHANGED <<key, copy, asked, faults>>

\* A foreign key that refers to nothing is refused.
Insert(r) ==
  /\ At(r, "insert")
  /\ IF On(r) \in Quizzes \/ Exists(ParentOf[On(r)])
     THEN Write(r, [rows EXCEPT ![On(r)] = req[r].number])
     ELSE Finish(r) /\ UNCHANGED <<rows, key, copy, excused, asked, faults>>

\* An update of a row that has gone changes nothing.
Update(r) ==
  /\ At(r, "update")
  /\ IF Exists(On(r))
     THEN Write(r, [rows EXCEPT ![On(r)] = req[r].number])
     ELSE GoOn(r, req[r]) /\ UNCHANGED <<rows, key, copy, excused, asked, faults>>

\* ON DELETE CASCADE.
Delete(r) ==
  /\ At(r, "delete")
  /\ Write(r, [x \in Rows |->
       IF x \in {On(r)} \cup Under(On(r)) /\ Exists(x) THEN Gone ELSE rows[x]])

FindAgain(r) ==
  /\ At(r, "again")
  /\ GoOn(r, [req[r] EXCEPT !.question = Exists(ParentOf[On(r)])])
  /\ UNCHANGED <<rows, key, copy, excused, asked, faults>>

DropsOf(q)       == q.plan.drops \cup CopiesOf(q.children)
DropsOfQuizOf(q) == IF q.question THEN q.plan.ofQuiz ELSE {}

\* del: of the keys, one at a time and in no order, only one is followed.
Drop(r) ==
  LET keys == IF At(r, "drop") THEN DropsOf(req[r]) ELSE DropsOfQuizOf(req[r])
  IN  /\ At(r, "drop") \/ At(r, "dropQuiz")
      /\ copy' = IF key \in keys THEN None ELSE copy
      /\ excused' = (excused /\ key \notin keys)
      /\ GoOn(r, req[r])
      /\ UNCHANGED <<rows, key, asked, faults>>

\* Mutant: a read renews the copy it finds, with what it has found.
GetRenews(r) ==
  /\ At(r, "get")
  /\ IF copy # None THEN req' = [req EXCEPT ![r].at = 3, ![r].view = copy]
                    ELSE GoOn(r, req[r])
  /\ UNCHANGED <<rows, key, copy, excused, asked, faults>>

Get(r) ==
  /\ At(r, "get")
  /\ IF copy # None THEN Finish(r) ELSE GoOn(r, req[r])
  /\ UNCHANGED <<rows, key, copy, excused, asked, faults>>

Load(r) ==
  /\ At(r, "load")
  /\ IF OfOneRow /\ ~Exists(key[2]) THEN Finish(r)
     ELSE GoOn(r, [req[r] EXCEPT !.view = View(rows)])
  /\ UNCHANGED <<rows, key, copy, excused, asked, faults>>

Set(r) ==
  /\ At(r, "set")
  /\ copy' = req[r].view
  /\ excused' = (req[r].view # View(rows))     \* a write has overtaken the read
  /\ GoOn(r, req[r])
  /\ UNCHANGED <<rows, key, asked, faults>>

\* A copy lives as long as its TTL.
Expire ==
  /\ copy # None
  /\ copy' = None
  /\ excused' = FALSE
  /\ UNCHANGED <<rows, key, req, asked, faults>>

\* The awaits that q has not come through.
Left(q) == {q.plan.awaits[i] : i \in q.at .. Len(q.plan.awaits)}

\* Keys that q has still to drop for what it has written.
Owes(q) ==
  /\ q.wrote
  /\ \/ "drop" \in Left(q) /\ key \in DropsOf(q)
     \/ /\ "dropQuiz" \in Left(q) /\ key \in q.plan.ofQuiz
        /\ "again" \in Left(q) \/ q.question

\* A command of Valkey fails, which is logged and no more.
FailCommand(r) ==
  /\ faults < MaxFaults
  /\ faults' = faults + 1
  /\ \E await \in {"get", "set", "drop", "dropQuiz"} : At(r, await)
  /\ excused' = (excused \/ (copy # None /\ Owes(req[r])))
  /\ GoOn(r, req[r])
  /\ UNCHANGED <<rows, key, copy, asked>>

\* A query fails, and the request with it; or the service dies.
FailRequest(r) ==
  /\ faults < MaxFaults
  /\ faults' = faults + 1
  /\ req[r] # None
  /\ excused' = (excused \/ (copy # None /\ Owes(req[r])))
  /\ Finish(r)
  /\ UNCHANGED <<rows, key, copy, asked>>

----------------------------------------------------------------------------

Step(r) ==
  \/ Find(r) \/ FindParent(r) \/ FindByIdWithChildren(r) \/ FindAgain(r)
  \/ Insert(r) \/ Update(r) \/ Delete(r) \/ Drop(r)
  \/ Get(r) \/ Load(r) \/ Set(r)

Next ==
  \/ \E r \in Requests, plan \in Plans : Ask(r, plan)
  \/ \E r \in Requests : Step(r) \/ FailCommand(r) \/ FailRequest(r)
  \/ Expire

Spec == Init /\ [][Next]_vars

\* Awaits come to an end, and so does a TTL.
FairSpec == Spec /\ (\A r \in Requests : WF_vars(Step(r))) /\ WF_vars(Expire)

----------------------------------------------------------------------------
(* Properties.                                                              *)

\* A copy that is not what the tables hold is about to be dropped, unless a
\* write overtook the read that stored it, a command or a query failed, or no
\* write drops such copies: between them, the invalidations of the nine writes
\* leave nothing else behind.
StaleIsExcused ==
  copy # None /\ copy # View(rows) =>
    excused \/ \E r \in Requests : req[r] # None /\ Owes(req[r])

\* What has been deleted goes from every copy for good, however many reads go on
\* filling it: the reads that loaded the row before come to an end, later ones do
\* not show it, no read stores a copy it has found, and the TTL is the last resort
\* of the copies that no write drops.
DeletedGoes ==
  \A x \in Rows : <>[](rows[x] = Gone => copy = None \/ copy[x] = None)

=============================================================================
