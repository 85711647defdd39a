---------------------------- MODULE QuizCacheProofs ----------------------------
(***************************************************************************)
(* Proofs about QuizCache, for any quizzes, questions and choices, any     *)
(* requests in flight, and every key.                                      *)
(***************************************************************************)
EXTENDS QuizCache, TLAPS

\* The rows that what is stored under k depends on.
ScopeOf(k) ==
  CASE k[1] = "quizzes:all"                             -> Quizzes
    [] k[1] \in {"quiz:full", "quiz:ids"}               -> {k[2]} \cup Under(k[2])
    [] k[1] = "quiz:answers"                            -> Under(k[2]) \cap Choices
    [] k[1] = "questions:all"                           -> Questions
    [] k[1] \in {"quiz:questions", "question:choices"}  -> ChildrenOf(k[2])
    [] k[1] = "choices:all"                             -> Choices
    [] k[1] \in {"quiz", "question", "choice"}          -> {k[2]}

There(t, x) == t[x] \notin {Unborn, Gone}

\* With the tables t, q will come to drop the copy under k, unless a query or a
\* command fails: what q looks for on the way is there.
Surely(k, t, q) ==
  /\ q.wrote
  /\ "find" \in Left(q) => There(t, q.plan.on) /\ q.plan.on \in ScopeOf(k)
  /\ \/ "drop" \in Left(q) /\ k \in DropsOf(q)
     \/ /\ "dropQuiz" \in Left(q) /\ k \in q.plan.ofQuiz
        /\ q.plan.on \in ScopeOf(k)
        /\ IF "again" \in Left(q) THEN There(t, ParentOf[q.plan.on]) ELSE q.question

Covered ==
  copy # None /\ copy # View(rows) =>
    excused \/ \E r \in Requests : req[r] # None /\ Surely(key, rows, req[r])

\* Foreign keys.
Attached == \A x \in Questions \cup Choices : Exists(x) => Exists(ParentOf[x])

\* There is no copy of a row before the row.
Born ==
  OfOneRow /\ rows[key[2]] = Unborn =>
    copy = None /\ \A r \in Requests : req[r] # None => req[r].view = None

\* A row has one creation, which is first to write it.
Coming ==
  \A r \in Requests : req[r] # None /\ "insert" \in Left(req[r]) =>
    /\ rows[req[r].plan.on] = Unborn
    /\ \A p \in Requests : p # r /\ req[p] # None => req[p].plan # req[r].plan

\* A request changes the tables once; reads do not.
Once ==
  \A r \in Requests : req[r] # None /\ req[r].wrote =>
    Left(req[r]) \cap {"parent", "children", "insert", "update", "delete",
                       "get", "load", "set"} = {}

IInv == TypeOK /\ Attached /\ Born /\ Coming /\ Once /\ Covered

----------------------------------------------------------------------------
(* Keys and rows.                                                           *)

LEMMA KeyKinds ==
  ASSUME NEW k \in Key
  PROVE  \/ k[1] \in {"quizzes:all", "questions:all", "choices:all"} /\ k = All(k[1])
         \/ /\ k[1] \in {"quiz", "quiz:questions", "quiz:full", "quiz:ids", "quiz:answers"}
            /\ k[2] \in Quizzes /\ k = <<k[1], k[2]>>
         \/ k[1] \in {"question", "question:choices"} /\ k[2] \in Questions /\ k = <<k[1], k[2]>>
         \/ k[1] = "choice" /\ k[2] \in Choices /\ k = <<k[1], k[2]>>
BY DEF Key, All

LEMMA Family ==
  /\ \A q \in Quizzes :
       /\ ChildrenOf(q) = {k \in Questions : ParentOf[k] = q}
       /\ Under(q) = ChildrenOf(q) \cup {c \in Choices : QuizOf(c) = q}
  /\ \A k \in Questions :
       /\ ChildrenOf(k) = {c \in Choices : ParentOf[c] = k}
       /\ Under(k) = ChildrenOf(k)
  /\ \A c \in Choices : ChildrenOf(c) = {} /\ Under(c) = {}
<1>1. \A q \in Quizzes : ChildrenOf(q) = {k \in Questions : ParentOf[k] = q}
  BY RowsApart, ParentType DEF ChildrenOf
<1>2. \A k \in Questions : ChildrenOf(k) = {c \in Choices : ParentOf[c] = k}
  BY RowsApart, ParentType DEF ChildrenOf
<1>3. \A c \in Choices : ChildrenOf(c) = {}
  BY RowsApart, ParentType DEF ChildrenOf
<1>4. ASSUME NEW q \in Quizzes
      PROVE  Under(q) = ChildrenOf(q) \cup {c \in Choices : QuizOf(c) = q}
  <2>1. UNION {ChildrenOf(y) : y \in ChildrenOf(q)} = {c \in Choices : QuizOf(c) = q}
    <3>1. \A y \in ChildrenOf(q) : y \in Questions /\ ParentOf[y] = q
      BY <1>1
    <3>2. \A c \in Choices : ParentOf[c] \in Questions /\ QuizOf(c) = ParentOf[ParentOf[c]]
      BY ParentType DEF QuizOf
    <3> QED BY <1>1, <1>2, <3>1, <3>2
  <2> QED BY <2>1 DEF Under
<1>5. ASSUME NEW k \in Questions
      PROVE  Under(k) = ChildrenOf(k)
  <2>1. \A y \in ChildrenOf(k) : ChildrenOf(y) = {}
    BY <1>2, <1>3
  <2>2. UNION {ChildrenOf(y) : y \in ChildrenOf(k)} = {}
    BY <2>1
  <2> QED BY <2>2 DEF Under
<1>6. ASSUME NEW c \in Choices
      PROVE  Under(c) = {}
  <2>1. ChildrenOf(c) = {}
    BY <1>3
  <2>2. UNION {ChildrenOf(y) : y \in ChildrenOf(c)} = {}
    BY <2>1
  <2> QED BY <2>1, <2>2 DEF Under
<1> QED BY <1>1, <1>2, <1>3, <1>4, <1>5, <1>6

\* The keys whose copies depend on a row.
LEMMA InScope ==
  ASSUME NEW k \in Key, NEW x \in ScopeOf(k)
  PROVE  /\ x \in Rows
         /\ x \in Quizzes =>
              k \in {All("quizzes:all"), <<"quiz", x>>, <<"quiz:full", x>>, <<"quiz:ids", x>>}
         /\ x \in Questions =>
              k \in {All("questions:all"), <<"question", x>>, <<"quiz:questions", ParentOf[x]>>,
                     <<"quiz:full", ParentOf[x]>>, <<"quiz:ids", ParentOf[x]>>}
         /\ x \in Choices =>
              k \in {All("choices:all"), <<"choice", x>>, <<"question:choices", ParentOf[x]>>,
                     <<"quiz:full", QuizOf(x)>>, <<"quiz:ids", QuizOf(x)>>,
                     <<"quiz:answers", QuizOf(x)>>}
<1>1. CASE k[1] \in {"quizzes:all", "questions:all", "choices:all"} /\ k = All(k[1])
  BY <1>1, RowsApart DEF ScopeOf, Rows
<1>2. CASE /\ k[1] \in {"quiz", "quiz:questions", "quiz:full", "quiz:ids", "quiz:answers"}
           /\ k[2] \in Quizzes /\ k = <<k[1], k[2]>>
  <2>1. /\ k[1] = "quiz" => x = k[2]
        /\ k[1] \in {"quiz:full", "quiz:ids"} => x = k[2] \/ x \in Under(k[2])
        /\ k[1] = "quiz:answers" => x \in Under(k[2]) /\ x \in Choices
        /\ k[1] = "quiz:questions" => x \in ChildrenOf(k[2])
    BY <1>2 DEF ScopeOf
  <2>2. /\ x \in Under(k[2]) => \/ x \in Questions /\ ParentOf[x] = k[2]
                                \/ x \in Choices /\ QuizOf(x) = k[2]
        /\ x \in ChildrenOf(k[2]) => x \in Questions /\ ParentOf[x] = k[2]
    BY <1>2, Family
  <2> QED BY <1>2, <2>1, <2>2, RowsApart DEF Rows
<1>3. CASE k[1] \in {"question", "question:choices"} /\ k[2] \in Questions /\ k = <<k[1], k[2]>>
  BY <1>3, Family, RowsApart DEF ScopeOf, Rows
<1>4. CASE k[1] = "choice" /\ k[2] \in Choices /\ k = <<k[1], k[2]>>
  BY <1>4, RowsApart DEF ScopeOf, Rows
<1> QED BY <1>1, <1>2, <1>3, <1>4, KeyKinds

Table == [Rows -> 0..MaxWrites \cup {Unborn, Gone}]

\* What is stored depends on the rows of its scope, and on each of them.
LEMMA StoredSame ==
  ASSUME NEW k \in Key, NEW t, NEW u, \A x \in ScopeOf(k) : t[x] = u[x]
  PROVE  Stored(k, t) = Stored(k, u)
<1>1. \A S \in SUBSET Rows : (\A x \in S : t[x] = u[x]) => Show(t, S) = Show(u, S)
  BY DEF Show
<1>2. ScopeOf(k) \subseteq Rows
  BY InScope
<1>3. Show(t, ScopeOf(k)) = Show(u, ScopeOf(k))
  BY <1>1, <1>2
<1> QED BY <1>3, KeyKinds DEF Stored, ScopeOf, GetAllQuizzes, GetQuizById, GetFullQuiz,
  GetQuizIdsOnly, GetQuizAnswers, GetAllQuestions, GetQuestionsByQuizId, GetQuestionById,
  GetAllChoices, GetChoicesByQuestionId, GetChoiceById

----------------------------------------------------------------------------
(* Plans and their awaits.                                                  *)

Shape ==
  {<<"get", "load", "set">>, <<"insert", "drop">>, <<"find", "update", "find", "drop">>,
   <<"children", "delete", "drop">>, <<"parent", "insert", "again", "drop", "dropQuiz">>,
   <<"find", "update", "find", "again", "drop", "dropQuiz">>,
   <<"find", "delete", "drop", "again", "dropQuiz">>}

Rest(s, i) == {s[j] : j \in i .. Len(s)}

Firsts == {"parent", "children", "insert", "update", "delete", "get", "load", "set"}
Writes == {"insert", "update", "delete"}

\* What follows an await, and what never does.
OrderOK(s) ==
  /\ Len(s) \in Nat /\ DOMAIN s = 1 .. Len(s)
  /\ \A i \in 1 .. Len(s) : s[i] = "dropQuiz" => i = Len(s)
  /\ s[Len(s)] \in {"set", "drop", "dropQuiz"}
  /\ \A i \in 1 .. Len(s) : s[i] \in Writes =>
       /\ i < Len(s)
       /\ Rest(s, i + 1) \cap Firsts = {}
       /\ "drop" \in Rest(s, i + 1)
       /\ s[i] = "delete" => "find" \notin Rest(s, i + 1)
       /\ Len(s) > 4 => {"again", "dropQuiz"} \subseteq Rest(s, i + 1)

LEMMA ShapesInOrder == \A s \in Shape : OrderOK(s)
<1>1. OrderOK(<<"get", "load", "set">>)
  BY DEF OrderOK, Rest, Firsts, Writes
<1>2. OrderOK(<<"insert", "drop">>)
  BY DEF OrderOK, Rest, Firsts, Writes
<1>3. OrderOK(<<"find", "update", "find", "drop">>)
  BY DEF OrderOK, Rest, Firsts, Writes
<1>4. OrderOK(<<"children", "delete", "drop">>)
  BY DEF OrderOK, Rest, Firsts, Writes
<1>5. OrderOK(<<"parent", "insert", "again", "drop", "dropQuiz">>)
  BY DEF OrderOK, Rest, Firsts, Writes
<1>6. OrderOK(<<"find", "update", "find", "again", "drop", "dropQuiz">>)
  BY DEF OrderOK, Rest, Firsts, Writes
<1>7. OrderOK(<<"find", "delete", "drop", "again", "dropQuiz">>)
  BY DEF OrderOK, Rest, Firsts, Writes
<1> QED BY <1>1, <1>2, <1>3, <1>4, <1>5, <1>6, <1>7 DEF Shape


\* The requests there are.
LEMMA PlanKinds ==
  ASSUME NEW p \in Plans
  PROVE  \/ p = Read
         \/ \E q \in Quizzes : p = CreateQuiz(q) \/ p = UpdateQuiz(q) \/ p = DeleteQuiz(q)
         \/ \E k \in Questions :
              p = CreateQuestion(k) \/ p = UpdateQuestion(k) \/ p = DeleteQuestion(k)
         \/ \E c \in Choices : p = CreateChoice(c) \/ p = UpdateChoice(c) \/ p = DeleteChoice(c)
BY DEF Plans, Creations

Creation(p) ==
  \/ p.on \in Quizzes /\ p = CreateQuiz(p.on)
  \/ p.on \in Questions /\ p = CreateQuestion(p.on)
  \/ p.on \in Choices /\ p = CreateChoice(p.on)

Edit(p) ==
  \/ p.on \in Quizzes /\ p = UpdateQuiz(p.on)
  \/ p.on \in Questions /\ p = UpdateQuestion(p.on)
  \/ p.on \in Choices /\ p = UpdateChoice(p.on)

Deletion(p) ==
  \/ p.on \in Quizzes /\ p = DeleteQuiz(p.on)
  \/ p.on \in Questions /\ p = DeleteQuestion(p.on)
  \/ p.on \in Choices /\ p = DeleteChoice(p.on)

LEMMA CreationsOn == \A p : p \in Creations <=> Creation(p)
<1>1. /\ \A q : CreateQuiz(q).on = q
      /\ \A k : CreateQuestion(k).on = k
      /\ \A c : CreateChoice(c).on = c
  BY DEF CreateQuiz, CreateQuestion, CreateChoice
<1> QED BY <1>1 DEF Creations, Creation

SortOK(p) ==
  /\ p.awaits \in Shape
  /\ p # Read => p.on \in Rows
  /\ \A i \in DOMAIN p.awaits :
       /\ p.awaits[i] = "insert" => Creation(p)
       /\ p.awaits[i] = "update" => Edit(p)
       /\ p.awaits[i] = "delete" => Deletion(p)
       /\ p.awaits[i] \notin {"get", "load", "set"} => p # Read
  /\ p.ofQuiz # {} => p.on \in Choices /\ Len(p.awaits) > 4
  /\ Creation(p) => \E i \in DOMAIN p.awaits : p.awaits[i] = "insert"

\* A plan is known by its awaits.
LEMMA PlanSorts ==
  ASSUME NEW p \in Plans
  PROVE  SortOK(p)
<1>0. Creation(p) => \E i \in DOMAIN p.awaits : p.awaits[i] = "insert"
  <2>1. ASSUME p.awaits = <<"insert", "drop">>
        PROVE  \E i \in DOMAIN p.awaits : p.awaits[i] = "insert"
    <3>1. 1 \in DOMAIN p.awaits /\ p.awaits[1] = "insert"
      BY <2>1
    <3> QED BY <3>1
  <2>2. ASSUME p.awaits = <<"parent", "insert", "again", "drop", "dropQuiz">>
        PROVE  \E i \in DOMAIN p.awaits : p.awaits[i] = "insert"
    <3>1. 2 \in DOMAIN p.awaits /\ p.awaits[2] = "insert"
      BY <2>2
    <3> QED BY <3>1
  <2>3. /\ \A q : CreateQuiz(q).awaits = <<"insert", "drop">>
        /\ \A k : CreateQuestion(k).awaits = <<"insert", "drop">>
        /\ \A c : CreateChoice(c).awaits = <<"parent", "insert", "again", "drop", "dropQuiz">>
    BY DEF CreateQuiz, CreateQuestion, CreateChoice
  <2> QED BY <2>1, <2>2, <2>3 DEF Creation
<1>1. CASE p = Read
  <2>1. p.awaits = <<"get", "load", "set">> /\ p.ofQuiz = {}
    BY <1>1 DEF Read
  <2>2. \A i \in DOMAIN p.awaits : p.awaits[i] \in {"get", "load", "set"}
    BY <2>1
  <2> QED BY <1>0, <1>1, <2>1, <2>2 DEF SortOK, Shape
<1>2. ASSUME p.awaits = <<"insert", "drop">>, p.ofQuiz = {}, Creation(p), p.on \in Rows
      PROVE  SortOK(p)
  <2>1. p # Read
    BY <1>2 DEF Read
  <2>2. \A i \in DOMAIN p.awaits : p.awaits[i] \in {"insert", "drop"}
    BY <1>2
  <2> QED BY <1>0, <1>2, <2>1, <2>2 DEF SortOK, Shape
<1>3. ASSUME p.awaits = <<"find", "update", "find", "drop">>, p.ofQuiz = {}, Edit(p),
             p.on \in Rows
      PROVE  SortOK(p)
  <2>1. p # Read
    BY <1>3 DEF Read
  <2>2. \A i \in DOMAIN p.awaits : p.awaits[i] \in {"find", "update", "drop"}
    BY <1>3
  <2> QED BY <1>0, <1>3, <2>1, <2>2 DEF SortOK, Shape
<1>4. ASSUME p.awaits = <<"children", "delete", "drop">>, p.ofQuiz = {}, Deletion(p),
             p.on \in Rows
      PROVE  SortOK(p)
  <2>1. p # Read
    BY <1>4 DEF Read
  <2>2. \A i \in DOMAIN p.awaits : p.awaits[i] \in {"children", "delete", "drop"}
    BY <1>4
  <2> QED BY <1>0, <1>4, <2>1, <2>2 DEF SortOK, Shape
<1>5. CASE \E q \in Quizzes : p = CreateQuiz(q) \/ p = UpdateQuiz(q) \/ p = DeleteQuiz(q)
  <2> PICK q \in Quizzes : p = CreateQuiz(q) \/ p = UpdateQuiz(q) \/ p = DeleteQuiz(q)
    BY <1>5
  <2>1. p.on = q /\ p.ofQuiz = {} /\ q \in Rows
    BY DEF CreateQuiz, UpdateQuiz, DeleteQuiz, Rows
  <2>2. CASE p = CreateQuiz(q)
    <3>1. Creation(p) /\ p.awaits = <<"insert", "drop">>
      BY <2>1, <2>2 DEF Creation, CreateQuiz
    <3> QED BY <1>2, <2>1, <3>1
  <2>3. CASE p = UpdateQuiz(q)
    <3>1. Edit(p) /\ p.awaits = <<"find", "update", "find", "drop">>
      BY <2>1, <2>3 DEF Edit, UpdateQuiz
    <3> QED BY <1>3, <2>1, <3>1
  <2>4. CASE p = DeleteQuiz(q)
    <3>1. Deletion(p) /\ p.awaits = <<"children", "delete", "drop">>
      BY <2>1, <2>4 DEF Deletion, DeleteQuiz
    <3> QED BY <1>4, <2>1, <3>1
  <2> QED BY <2>2, <2>3, <2>4
<1>6. CASE \E k \in Questions :
             p = CreateQuestion(k) \/ p = UpdateQuestion(k) \/ p = DeleteQuestion(k)
  <2> PICK k \in Questions :
        p = CreateQuestion(k) \/ p = UpdateQuestion(k) \/ p = DeleteQuestion(k)
    BY <1>6
  <2>1. p.on = k /\ p.ofQuiz = {} /\ k \in Rows
    BY DEF CreateQuestion, UpdateQuestion, DeleteQuestion, Rows
  <2>2. CASE p = CreateQuestion(k)
    <3>1. Creation(p) /\ p.awaits = <<"insert", "drop">>
      BY <2>1, <2>2 DEF Creation, CreateQuestion
    <3> QED BY <1>2, <2>1, <3>1
  <2>3. CASE p = UpdateQuestion(k)
    <3>1. Edit(p) /\ p.awaits = <<"find", "update", "find", "drop">>
      BY <2>1, <2>3 DEF Edit, UpdateQuestion
    <3> QED BY <1>3, <2>1, <3>1
  <2>4. CASE p = DeleteQuestion(k)
    <3>1. Deletion(p) /\ p.awaits = <<"children", "delete", "drop">>
      BY <2>1, <2>4 DEF Deletion, DeleteQuestion
    <3> QED BY <1>4, <2>1, <3>1
  <2> QED BY <2>2, <2>3, <2>4
<1>7. CASE \E c \in Choices : p = CreateChoice(c) \/ p = UpdateChoice(c) \/ p = DeleteChoice(c)
  <2> PICK c \in Choices : p = CreateChoice(c) \/ p = UpdateChoice(c) \/ p = DeleteChoice(c)
    BY <1>7
  <2>1. p.on = c /\ c \in Rows
    BY DEF CreateChoice, UpdateChoice, DeleteChoice, Rows
  <2>2. CASE p = CreateChoice(c)
    <3>1. Creation(p) /\ p.awaits = <<"parent", "insert", "again", "drop", "dropQuiz">>
      BY <2>1, <2>2 DEF Creation, CreateChoice
    <3>2. p # Read /\ Len(p.awaits) > 4
      BY <3>1 DEF Read
    <3>3. \A i \in DOMAIN p.awaits :
            p.awaits[i] \in {"parent", "insert", "again", "drop", "dropQuiz"}
      BY <3>1
    <3> QED BY <1>0, <2>1, <3>1, <3>2, <3>3 DEF SortOK, Shape
  <2>3. CASE p = UpdateChoice(c)
    <3>1. Edit(p) /\ p.awaits = <<"find", "update", "find", "again", "drop", "dropQuiz">>
      BY <2>1, <2>3 DEF Edit, UpdateChoice
    <3>2. p # Read /\ Len(p.awaits) > 4
      BY <3>1 DEF Read
    <3>3. \A i \in DOMAIN p.awaits :
            p.awaits[i] \in {"find", "update", "again", "drop", "dropQuiz"}
      BY <3>1
    <3> QED BY <1>0, <2>1, <3>1, <3>2, <3>3 DEF SortOK, Shape
  <2>4. CASE p = DeleteChoice(c)
    <3>1. Deletion(p) /\ p.awaits = <<"find", "delete", "drop", "again", "dropQuiz">>
      BY <2>1, <2>4 DEF Deletion, DeleteChoice
    <3>2. p # Read /\ Len(p.awaits) > 4
      BY <3>1 DEF Read
    <3>3. \A i \in DOMAIN p.awaits :
            p.awaits[i] \in {"find", "delete", "drop", "again", "dropQuiz"}
      BY <3>1
    <3> QED BY <1>0, <2>1, <3>1, <3>2, <3>3 DEF SortOK, Shape
  <2> QED BY <2>2, <2>3, <2>4
<1> QED BY <1>1, <1>5, <1>6, <1>7, PlanKinds


----------------------------------------------------------------------------
(* What is stored shows the rows there are of its scope.                    *)

LEMMA StoredIs ==
  ASSUME NEW k \in Key, NEW t
  PROVE  IF k[1] = "quiz:ids"
         THEN Stored(k, t) =
                [x \in Rows |-> IF Show(t, ScopeOf(k))[x] = None THEN None ELSE 0]
         ELSE Stored(k, t) = Show(t, ScopeOf(k))
BY KeyKinds DEF Stored, ScopeOf, GetAllQuizzes, GetQuizById, GetFullQuiz, GetQuizIdsOnly,
  GetQuizAnswers, GetAllQuestions, GetQuestionsByQuizId, GetQuestionById, GetAllChoices,
  GetChoicesByQuestionId, GetChoiceById

LEMMA StoredType ==
  ASSUME NEW k \in Key, NEW t \in Table
  PROVE  Stored(k, t) \in Copies
<1>1. \A x \in Rows : There(t, x) => t[x] \in 0..MaxWrites
  BY DEF Table, There
<1>2. Show(t, ScopeOf(k)) \in Copies
  BY <1>1 DEF Show, Copies, There
<1>3. 0 \in 0..MaxWrites
  BY BoundsType
<1>4. [x \in Rows |-> IF Show(t, ScopeOf(k))[x] = None THEN None ELSE 0] \in Copies
  BY <1>3 DEF Copies
<1> QED BY <1>2, <1>4, StoredIs

LEMMA StoredShows ==
  ASSUME NEW k \in Key, NEW t \in Table, NEW x \in ScopeOf(k)
  PROVE  Stored(k, t)[x] # None <=> There(t, x)
<1>1. x \in Rows
  BY InScope
<1>2. There(t, x) => t[x] # None
  BY <1>1, NoneType, BoundsType DEF Table, There
<1>3. Show(t, ScopeOf(k))[x] # None <=> There(t, x)
  BY <1>1, <1>2 DEF Show, There
<1>4. 0 # None
  BY NoneType
<1> QED BY <1>1, <1>3, <1>4, StoredIs

----------------------------------------------------------------------------
(* What the writes drop.                                                    *)

\* Overlooked by the code, whatever the request has read.
Passed(k, p) ==
  \/ k[1] \in {"quiz:ids", "quiz:answers"}
  \/ k[1] = "quiz:full" /\ p.on \in Quizzes

OneRow(k) ==
  k[1] \in {"quiz", "quiz:full", "quiz:ids", "quiz:answers", "question", "choice"}

LEMMA CreationDrops ==
  ASSUME NEW p, Creation(p), NEW k \in Key, p.on \in ScopeOf(k)
  PROVE  \/ k \in p.drops \/ k \in p.ofQuiz \/ Passed(k, p)
         \/ OneRow(k) /\ k[2] = p.on
<1> DEFINE x == p.on
<1>1. CASE x \in Quizzes /\ p = CreateQuiz(x)
  <2>1. p.drops = {All("quizzes:all")}
    BY <1>1 DEF CreateQuiz
  <2> QED BY <1>1, <2>1, InScope DEF Passed, OneRow
<1>2. CASE x \in Questions /\ p = CreateQuestion(x)
  <2>1. p.drops = {All("questions:all"), All("quizzes:all")} \cup CopiesOfQuiz(ParentOf[x])
    BY <1>2 DEF CreateQuestion
  <2> QED BY <1>2, <2>1, InScope DEF Passed, OneRow, CopiesOfQuiz
<1>3. CASE x \in Choices /\ p = CreateChoice(x)
  <2>1. /\ p.drops = {All("choices:all")} \cup CopiesOfQuestion(ParentOf[x])
        /\ p.ofQuiz = {All("quizzes:all")} \cup CopiesOfQuiz(QuizOf(x))
    BY <1>3 DEF CreateChoice
  <2> QED BY <1>3, <2>1, InScope DEF Passed, OneRow, CopiesOfQuiz, CopiesOfQuestion
<1> QED BY <1>1, <1>2, <1>3 DEF Creation

LEMMA EditDrops ==
  ASSUME NEW p, Edit(p), NEW k \in Key, p.on \in ScopeOf(k)
  PROVE  k \in p.drops \/ k \in p.ofQuiz \/ Passed(k, p)
<1> DEFINE x == p.on
<1>1. CASE x \in Quizzes /\ p = UpdateQuiz(x)
  <2>1. p.drops = {<<"quiz", x>>, All("quizzes:all")}
    BY <1>1 DEF UpdateQuiz
  <2> QED BY <1>1, <2>1, InScope DEF Passed
<1>2. CASE x \in Questions /\ p = UpdateQuestion(x)
  <2>1. p.drops = {<<"question", x>>, All("questions:all"), All("quizzes:all")}
                    \cup CopiesOfQuiz(ParentOf[x])
    BY <1>2 DEF UpdateQuestion
  <2> QED BY <1>2, <2>1, InScope DEF Passed, CopiesOfQuiz
<1>3. CASE x \in Choices /\ p = UpdateChoice(x)
  <2>1. /\ p.drops = {<<"choice", x>>, All("choices:all")} \cup CopiesOfQuestion(ParentOf[x])
        /\ p.ofQuiz = {All("quizzes:all")} \cup CopiesOfQuiz(QuizOf(x))
    BY <1>3 DEF UpdateChoice
  <2> QED BY <1>3, <2>1, InScope DEF Passed, CopiesOfQuiz, CopiesOfQuestion
<1> QED BY <1>1, <1>2, <1>3 DEF Edit

LEMMA CopyBelow ==
  ASSUME NEW p, NEW y \in Under(p.on), NEW k,
         \/ y \in Questions /\ k \in {<<"question", y>>, <<"question:choices", y>>}
         \/ y \in Choices /\ k = <<"choice", y>>
  PROVE  k[2] \in Under(p.on) /\ k \in CopiesOf({k[2]})
<1>1. k[2] = y
  OBVIOUS
<1>2. k \in CopiesOf({y})
  BY DEF CopiesOf
<1> QED BY <1>1, <1>2

LEMMA CopiesOfMore == \A S, T : S \subseteq T => CopiesOf(S) \subseteq CopiesOf(T)
BY DEF CopiesOf

\* A deletion takes the rows below with it.
LEMMA DeletionDrops ==
  ASSUME NEW p, Deletion(p), NEW k \in Key,
         NEW x \in ScopeOf(k), x = p.on \/ x \in Under(p.on)
  PROVE  \/ k \in p.drops \/ Passed(k, p)
         \/ k \in p.ofQuiz /\ x = p.on
         \/ k[2] \in Under(p.on) /\ k \in CopiesOf({k[2]})
<1> DEFINE d == p.on
<1>1. CASE d \in Quizzes /\ p = DeleteQuiz(d)
  <2>1. p.drops = {<<"quiz", d>>, <<"quiz:questions", d>>, All("quizzes:all"),
                   All("questions:all"), All("choices:all")}
    BY <1>1 DEF DeleteQuiz
  <2>2. CASE x = d
    BY <1>1, <2>1, <2>2, InScope DEF Passed
  <2>3. CASE x \in Questions /\ ParentOf[x] = d
    <3>1. x \in Under(d)
      BY <1>1, <2>3, Family
    <3> QED BY <1>1, <2>1, <2>3, <3>1, InScope, CopyBelow DEF Passed
  <2>4. CASE x \in Choices /\ QuizOf(x) = d
    <3>1. x \in Under(d) /\ ParentOf[x] \in Under(d) /\ ParentOf[x] \in Questions
      BY <1>1, <2>4, Family, ParentType DEF QuizOf
    <3> QED BY <1>1, <2>1, <2>4, <3>1, InScope, CopyBelow DEF Passed
  <2> QED BY <1>1, <2>2, <2>3, <2>4, Family
<1>2. CASE d \in Questions /\ p = DeleteQuestion(d)
  <2>1. p.drops = {All("quizzes:all"), All("choices:all")}
                    \cup CopiesOfQuestion(d) \cup CopiesOfQuiz(ParentOf[d])
    BY <1>2 DEF DeleteQuestion
  <2>2. CASE x = d
    BY <1>2, <2>1, <2>2, InScope DEF Passed, CopiesOfQuiz, CopiesOfQuestion
  <2>3. CASE x \in Choices /\ ParentOf[x] = d
    <3>1. x \in Under(d) /\ QuizOf(x) = ParentOf[d]
      BY <1>2, <2>3, Family DEF QuizOf
    <3> QED BY <1>2, <2>1, <2>3, <3>1, InScope, CopyBelow, SMTT(30)
              DEF Passed, CopiesOfQuiz, CopiesOfQuestion
  <2> QED BY <1>2, <2>2, <2>3, Family
<1>3. CASE d \in Choices /\ p = DeleteChoice(d)
  <2>1. /\ p.drops = {<<"choice", d>>, All("choices:all"), All("quizzes:all")}
                       \cup CopiesOfQuestion(ParentOf[d])
        /\ p.ofQuiz = CopiesOfQuiz(QuizOf(d))
    BY <1>3 DEF DeleteChoice
  <2>2. x = d
    BY <1>3, Family
  <2> QED BY <1>3, <2>1, <2>2, InScope DEF Passed, CopiesOfQuiz, CopiesOfQuestion
<1> QED BY <1>1, <1>2, <1>3 DEF Deletion

\* Of the keys dropped when the question is found, the only one that a choice
\* matters to is the full quiz, which the question matters to as well.
LEMMA QuestionMatters ==
  ASSUME NEW p \in Plans, NEW k \in Key, k \in p.ofQuiz, p.on \in ScopeOf(k)
  PROVE  ParentOf[p.on] \in ScopeOf(k) /\ p.on \in Choices
<1>1. p.on \in Choices
  BY PlanSorts DEF SortOK
<1> DEFINE c == p.on
<1>2. p.ofQuiz \subseteq {All("quizzes:all")} \cup CopiesOfQuiz(QuizOf(c))
  <2>1. p = CreateChoice(c) \/ p = UpdateChoice(c) \/ p = DeleteChoice(c)
    BY <1>1, PlanKinds, RowsApart
       DEF Read, CreateQuiz, UpdateQuiz, DeleteQuiz, CreateQuestion, UpdateQuestion,
           DeleteQuestion, CreateChoice, UpdateChoice, DeleteChoice
  <2> QED BY <2>1 DEF CreateChoice, UpdateChoice, DeleteChoice
<1>3. k = <<"quiz:full", QuizOf(c)>> /\ QuizOf(c) \in Quizzes
  <2>1. \/ k = All("choices:all") \/ k = <<"choice", c>> \/ k = <<"question:choices", ParentOf[c]>>
        \/ k[1] \in {"quiz:full", "quiz:ids", "quiz:answers"}
    BY <1>1, InScope
  <2>2. QuizOf(c) \in Quizzes
    BY <1>1, ParentType DEF QuizOf
  <2> QED BY <1>2, <2>1, <2>2 DEF CopiesOfQuiz, All
<1>4. ParentOf[c] \in Questions /\ ParentOf[ParentOf[c]] = QuizOf(c)
  BY <1>1, ParentType DEF QuizOf
<1>5. ParentOf[c] \in Under(QuizOf(c))
  BY <1>3, <1>4, Family
<1>6. ScopeOf(k) = {QuizOf(c)} \cup Under(QuizOf(c))
  BY <1>3 DEF ScopeOf
<1> QED BY <1>1, <1>5, <1>6


----------------------------------------------------------------------------
(* A request goes on.                                                       *)

LEMMA RestOfShape ==
  ASSUME NEW s \in Shape, NEW i \in DOMAIN s
  PROVE  /\ i \in Nat /\ Len(s) \in Nat /\ i \in 1 .. Len(s)
         /\ i # Len(s) => i + 1 \in DOMAIN s /\ Rest(s, i) = {s[i]} \cup Rest(s, i + 1)
         /\ i = Len(s) => Rest(s, i) = {s[i]} /\ s[i] \in {"set", "drop", "dropQuiz"}
<1>1. OrderOK(s)
  BY ShapesInOrder
<1> DEFINE n == Len(s)
<1>2. n \in Nat /\ DOMAIN s = 1 .. n /\ s[n] \in {"set", "drop", "dropQuiz"}
  BY <1>1 DEF OrderOK
<1> HIDE DEF n
<1>3. CASE i # n
  <2>1. i .. n = {i} \cup ((i + 1) .. n)
    BY <1>2, <1>3
  <2> QED BY <1>2, <1>3, <2>1 DEF Rest, n
<1>4. CASE i = n
  <2>1. i .. n = {i}
    BY <1>2, <1>4
  <2> QED BY <1>2, <1>4, <2>1 DEF Rest, n
<1> QED BY <1>3, <1>4

\* A request that has been asked.
Underway(q, a) ==
  q \in Request /\ q.at \in DOMAIN q.plan.awaits /\ q.number \in 0 .. a

\* q with its next await.
IsNext(new, q) ==
  /\ new.plan = q.plan /\ new.number = q.number /\ new.children = q.children
  /\ new.wrote = q.wrote /\ new.question = q.question /\ new.view = q.view
  /\ Left(new) = Rest(q.plan.awaits, q.at + 1)
  /\ Left(q) = {q.plan.awaits[q.at]} \cup Left(new)

LEMMA GoesOn ==
  ASSUME TypeOK, NEW r \in Requests, NEW q, Underway(q, asked), GoOn(r, q)
  PROVE  /\ req' \in [Requests -> Request \cup {None}]
         /\ \A p \in Requests : p # r => req'[p] = req[p]
         /\ IF q.at = Len(q.plan.awaits)
            THEN req'[r] = None /\ Left(q) = {q.plan.awaits[q.at]}
                 /\ q.plan.awaits[q.at] \in {"set", "drop", "dropQuiz"}
            ELSE Underway(req'[r], asked) /\ req'[r] # None /\ IsNext(req'[r], q)
<1> DEFINE s == q.plan.awaits
<1>1. req \in [Requests -> Request \cup {None}]
  BY DEF TypeOK
<1>2. s \in Shape /\ q.at \in DOMAIN s /\ q \in Request
  BY PlanSorts DEF Underway, Request, SortOK
<1>3. Left(q) = Rest(s, q.at)
  BY DEF Left, Rest
<1>4. CASE q.at = Len(s)
  <2>1. req' = [req EXCEPT ![r] = None]
    BY <1>4 DEF GoOn
  <2> QED BY <1>1, <1>2, <1>3, <1>4, <2>1, RestOfShape
<1>5. CASE q.at # Len(s)
  <2> DEFINE new == [q EXCEPT !.at = @ + 1]
  <2>1. req' = [req EXCEPT ![r] = new]
    BY <1>5 DEF GoOn
  <2>2. q.at \in Nat /\ q.at + 1 \in DOMAIN s
    BY <1>2, <1>5, RestOfShape
  <2>3. /\ new \in Request
        /\ new.plan = q.plan /\ new.number = q.number /\ new.children = q.children
        /\ new.wrote = q.wrote /\ new.question = q.question /\ new.view = q.view
        /\ new.at = q.at + 1
    BY <1>2, <2>2 DEF Request
  <2> HIDE DEF new
  <2>4. Left(new) = Rest(s, q.at + 1)
    BY <2>3 DEF Left, Rest
  <2>5. Rest(s, q.at) = {s[q.at]} \cup Rest(s, q.at + 1)
    BY <1>2, <1>5, RestOfShape
  <2>6. IsNext(new, q) /\ Underway(new, asked) /\ new # None
    BY <1>3, <2>2, <2>3, <2>4, <2>5, NoRequestIsNone DEF IsNext, Underway
  <2>7. req'[r] = new /\ req' \in [Requests -> Request \cup {None}]
        /\ \A p \in Requests : p # r => req'[p] = req[p]
    BY <1>1, <2>1, <2>3
  <2> QED BY <1>5, <2>6, <2>7
<1> QED BY <1>4, <1>5


----------------------------------------------------------------------------
(* Steps that leave the tables alone.                                       *)

LEMMA Typed ==
  ASSUME TypeOK
  PROVE  /\ rows \in Table /\ key \in Key
         /\ req \in [Requests -> Request \cup {None}]
         /\ asked \in Nat
         /\ \A r \in Requests : req[r] # None => Underway(req[r], asked)
BY BoundsType DEF TypeOK, Table, Underway

\* r goes on, or has come to an end; of what it has read, it has not seen a row
\* that is not there yet.
Goes(r, q) ==
  /\ q.plan = req[r].plan /\ q.at = req[r].at /\ q.number = req[r].number
  /\ q.wrote = req[r].wrote
  /\ q \in Request
  /\ GoOn(r, q) \/ Finish(r)
  /\ OfOneRow /\ rows[key[2]] = Unborn => q.view = None

LEMMA QuietStep ==
  ASSUME IInv, NEW r \in Requests, req[r] # None, NEW q, Goes(r, q),
         rows' = rows, key' = key, asked' = asked,
         copy' = None \/ copy' = copy \/ copy' = req[r].view,
         excused' \in BOOLEAN, faults' \in 0..MaxFaults
  PROVE  /\ TypeOK' /\ Attached' /\ Born' /\ Coming' /\ Once'
         /\ \A p \in Requests : p # r => req'[p] = req[p]
         /\ req'[r] # None => IsNext(req'[r], q)
<1>1. /\ req \in [Requests -> Request \cup {None}] /\ TypeOK
      /\ \A p \in Requests : req[p] # None => Underway(req[p], asked)
  BY Typed DEF IInv
<1>2. Underway(q, asked) /\ Left(q) = Left(req[r])
  BY <1>1 DEF Goes, Underway, Left
<1>3. /\ req' \in [Requests -> Request \cup {None}]
      /\ \A p \in Requests : p # r => req'[p] = req[p]
      /\ req'[r] # None => Underway(req'[r], asked) /\ IsNext(req'[r], q)
  <2>1. CASE GoOn(r, q)
    BY <1>1, <1>2, <2>1, GoesOn
  <2>2. CASE Finish(r)
    BY <1>1, <2>2 DEF Finish
  <2> QED BY <2>1, <2>2 DEF Goes
<1>4. req'[r] # None =>
        /\ req'[r].plan = req[r].plan /\ Left(req'[r]) \subseteq Left(req[r])
        /\ req'[r].wrote = req[r].wrote /\ req'[r].view = q.view
  BY <1>2, <1>3 DEF IsNext, Goes
<1>5. TypeOK'
  <2>1. copy' \in Copies \cup {None}
    BY <1>1 DEF TypeOK, Request
  <2>2. \A p \in Requests : req'[p] # None => Underway(req'[p], asked)
    BY <1>1, <1>3
  <2> QED BY <1>1, <1>3, <2>1, <2>2 DEF TypeOK, Underway
<1>6. Attached'
  BY DEF IInv, Attached, Exists
<1>7. Born'
  <2>1. OfOneRow' = OfOneRow
    BY DEF OfOneRow
  <2>2. ASSUME OfOneRow, rows[key[2]] = Unborn
        PROVE  copy' = None /\ \A p \in Requests : req'[p] # None => req'[p].view = None
    <3>1. copy = None /\ \A p \in Requests : req[p] # None => req[p].view = None
      BY <2>2 DEF IInv, Born
    <3> QED BY <1>3, <1>4, <2>2, <3>1 DEF Goes
  <2> QED BY <2>1, <2>2 DEF Born
<1>8. Coming'
  <2>1. ASSUME NEW p \in Requests, req'[p] # None, "insert" \in Left(req'[p])
        PROVE  /\ rows[req'[p].plan.on] = Unborn
               /\ \A o \in Requests : o # p /\ req'[o] # None => req'[o].plan # req'[p].plan
    <3>1. req[p] # None /\ "insert" \in Left(req[p]) /\ req'[p].plan = req[p].plan
      BY <1>3, <1>4, <2>1
    <3>2. /\ rows[req[p].plan.on] = Unborn
          /\ \A o \in Requests : o # p /\ req[o] # None => req[o].plan # req[p].plan
      BY <3>1 DEF IInv, Coming
    <3>3. \A o \in Requests : req'[o] # None => req[o] # None /\ req'[o].plan = req[o].plan
      BY <1>3, <1>4
    <3> QED BY <3>1, <3>2, <3>3
  <2> QED BY <2>1 DEF Coming
<1>9. Once'
  <2>1. ASSUME NEW p \in Requests, req'[p] # None, req'[p].wrote
        PROVE  Left(req'[p]) \cap Firsts = {}
    <3>1. req[p] # None /\ req[p].wrote /\ Left(req'[p]) \subseteq Left(req[p])
      BY <1>3, <1>4, <2>1
    <3> QED BY <3>1 DEF IInv, Once, Firsts
  <2> QED BY <2>1 DEF Once, Firsts
<1> QED BY <1>3, <1>5, <1>6, <1>7, <1>8, <1>9

\* A copy that was covered still is, by the same request.
LEMMA StillCovered ==
  ASSUME IInv, NEW r \in Requests, req[r] # None,
         rows' = rows, key' = key, copy' = copy, excused => excused',
         \A p \in Requests : p # r => req'[p] = req[p],
         copy # None /\ Surely(key, rows, req[r]) =>
           excused' \/ (req'[r] # None /\ Surely(key, rows, req'[r]))
  PROVE  Covered'
<1>1. View(rows)' = View(rows)
  BY DEF View
<1>2. ASSUME copy # None, copy # View(rows)
      PROVE  excused' \/ \E p \in Requests : req'[p] # None /\ Surely(key, rows, req'[p])
  <2>1. excused \/ \E p \in Requests : req[p] # None /\ Surely(key, rows, req[p])
    BY <1>2 DEF IInv, Covered
  <2> QED BY <1>2, <2>1
<1> QED BY <1>1, <1>2 DEF Covered

\* A request that is to drop the copy owes it to.
LEMMA SurelyOwes ==
  ASSUME NEW q, Surely(key, rows, q)
  PROVE  Owes(q)
BY DEF Surely, Owes


LEMMA SameGoes ==
  ASSUME IInv, NEW r \in Requests, req[r] # None, GoOn(r, req[r]) \/ Finish(r)
  PROVE  Goes(r, req[r])
<1>1. req[r] \in Request
  BY Typed DEF IInv, Underway
<1> QED BY <1>1 DEF IInv, Born, Goes

\* Awaits that drop nothing leave r with what it has to drop.
LEMMA SurelyGoesOn ==
  ASSUME IInv, NEW r \in Requests, req[r] # None, Surely(key, rows, req[r]),
         NEW q, Goes(r, q), GoOn(r, q), q.children = req[r].children,
         NEW await, At(r, await), await \notin {"drop", "dropQuiz", "set"},
         q.question = IF await = "again" THEN There(rows, ParentOf[On(r)]) ELSE req[r].question
  PROVE  req'[r] # None /\ Surely(key, rows, req'[r])
<1>1. Underway(q, asked) /\ Left(q) = Left(req[r]) /\ q.plan.awaits[q.at] = await
  BY Typed DEF IInv, Goes, Underway, Left, At
<1>2. req'[r] # None /\ IsNext(req'[r], q)
  BY <1>1, GoesOn DEF IInv
<1>3. /\ req'[r].plan = req[r].plan /\ req'[r].wrote /\ req'[r].children = req[r].children
      /\ req'[r].question = q.question
      /\ Left(req[r]) = {await} \cup Left(req'[r])
  BY <1>1, <1>2 DEF IsNext, Goes, Surely
<1>4. DropsOf(req'[r]) = DropsOf(req[r])
  BY <1>3 DEF DropsOf
<1>5. "find" \in Left(req'[r]) => There(rows, req[r].plan.on) /\ req[r].plan.on \in ScopeOf(key)
  BY <1>3 DEF Surely
<1>6. CASE "drop" \in Left(req[r]) /\ key \in DropsOf(req[r])
  BY <1>2, <1>3, <1>4, <1>5, <1>6 DEF Surely
<1>7. CASE /\ "dropQuiz" \in Left(req[r]) /\ key \in req[r].plan.ofQuiz
           /\ req[r].plan.on \in ScopeOf(key)
           /\ IF "again" \in Left(req[r]) THEN There(rows, ParentOf[req[r].plan.on])
              ELSE req[r].question
  <2>1. "dropQuiz" \in Left(req'[r])
    BY <1>3, <1>7
  <2>2. IF "again" \in Left(req'[r]) THEN There(rows, ParentOf[req[r].plan.on])
        ELSE req'[r].question
    <3>1. CASE await = "again"
      BY <1>3, <1>7, <3>1 DEF On
    <3>2. CASE await # "again"
      BY <1>3, <1>7, <3>2
    <3> QED BY <3>1, <3>2
  <2> QED BY <1>2, <1>3, <1>5, <1>7, <2>1, <2>2 DEF Surely
<1> QED BY <1>6, <1>7 DEF Surely

LEMMA FindStep ==
  ASSUME IInv, NEW r \in Requests, Find(r)
  PROVE  IInv'
<1>1. /\ At(r, "find") /\ req[r] # None
      /\ rows' = rows /\ key' = key /\ copy' = copy /\ excused' = excused /\ asked' = asked
      /\ faults' = faults
  BY DEF Find, At
<1>2. GoOn(r, req[r]) \/ Finish(r)
  BY DEF Find
<1>3. Goes(r, req[r]) /\ excused' \in BOOLEAN /\ faults' \in 0..MaxFaults
  BY <1>1, <1>2, SameGoes DEF IInv, TypeOK
<1>4. /\ TypeOK' /\ Attached' /\ Born' /\ Coming' /\ Once'
      /\ \A p \in Requests : p # r => req'[p] = req[p]
  BY <1>1, <1>3, QuietStep
<1>5. ASSUME Surely(key, rows, req[r])
      PROVE  req'[r] # None /\ Surely(key, rows, req'[r])
  <2>1. req[r].at \in DOMAIN req[r].plan.awaits /\ "find" \in Left(req[r])
    <3>1. Underway(req[r], asked)
      BY <1>1, Typed DEF IInv
    <3>2. req[r].plan.awaits \in Shape /\ req[r].at \in DOMAIN req[r].plan.awaits
      BY <3>1, PlanSorts DEF Underway, Request, SortOK
    <3>3. req[r].at \in req[r].at .. Len(req[r].plan.awaits)
      BY <3>2, RestOfShape
    <3> QED BY <1>1, <3>2, <3>3 DEF Left, At
  <2>2. GoOn(r, req[r])
    BY <1>5, <2>1 DEF Surely, There, Find, Exists, On
  <2> QED BY <1>1, <1>3, <1>5, <2>2, SurelyGoesOn
<1>6. Covered'
  BY <1>1, <1>4, <1>5, StillCovered
<1> QED BY <1>4, <1>6 DEF IInv


LEMMA AwaitLeft ==
  ASSUME IInv, NEW r \in Requests, NEW await, At(r, await)
  PROVE  /\ req[r] # None /\ await \in Left(req[r]) /\ Underway(req[r], asked)
         /\ req[r].plan \in Plans /\ req[r].plan.awaits \in Shape
         /\ req[r].at \in DOMAIN req[r].plan.awaits
         /\ await \in Firsts => ~req[r].wrote
<1>1. req[r] # None /\ Underway(req[r], asked)
  BY Typed DEF IInv, At
<1>2. /\ req[r].plan \in Plans /\ req[r].plan.awaits \in Shape
      /\ req[r].at \in DOMAIN req[r].plan.awaits
  BY <1>1, PlanSorts DEF Underway, Request, SortOK
<1>3. req[r].at \in req[r].at .. Len(req[r].plan.awaits)
  BY <1>2, RestOfShape
<1>4. await \in Left(req[r])
  BY <1>3 DEF Left, At
<1>5. await \in Firsts => ~req[r].wrote
  BY <1>1, <1>4 DEF IInv, Once, Firsts
<1> QED BY <1>1, <1>2, <1>4, <1>5

\* Awaits that come before a change of the tables.
LEMMA UnwrittenStep ==
  ASSUME IInv, NEW r \in Requests, NEW await \in Firsts, At(r, await), NEW q, Goes(r, q),
         UNCHANGED <<rows, key, copy, excused, asked, faults>>
  PROVE  IInv'
<1>1. req[r] # None /\ ~Surely(key, rows, req[r])
  BY AwaitLeft DEF Surely
<1>2. excused' \in BOOLEAN /\ faults' \in 0..MaxFaults
  BY DEF IInv, TypeOK
<1>3. /\ TypeOK' /\ Attached' /\ Born' /\ Coming' /\ Once'
      /\ \A p \in Requests : p # r => req'[p] = req[p]
  BY <1>1, <1>2, QuietStep
<1>4. Covered'
  BY <1>1, <1>3, StillCovered
<1> QED BY <1>3, <1>4 DEF IInv

LEMMA FindParentStep ==
  ASSUME IInv, NEW r \in Requests, FindParent(r)
  PROVE  IInv'
<1>1. At(r, "parent") /\ UNCHANGED <<rows, key, copy, excused, asked, faults>>
      /\ (GoOn(r, req[r]) \/ Finish(r))
  BY DEF FindParent
<1>2. Goes(r, req[r])
  BY <1>1, SameGoes DEF At
<1> QED BY <1>1, <1>2, UnwrittenStep DEF Firsts

LEMMA FindByIdWithChildrenStep ==
  ASSUME IInv, NEW r \in Requests, FindByIdWithChildren(r)
  PROVE  IInv'
<1> DEFINE found == {x \in Under(On(r)) : Exists(x)}
<1>1. At(r, "children") /\ UNCHANGED <<rows, key, copy, excused, asked, faults>>
      /\ (GoOn(r, [req[r] EXCEPT !.children = found]) \/ Finish(r))
  BY DEF FindByIdWithChildren
<1>2. found \subseteq Rows
  BY DEF Under, ChildrenOf, Rows
<1> HIDE DEF found
<1>3. req[r] \in Request /\ req[r] # None
  BY <1>1, AwaitLeft DEF Underway
<1> DEFINE q == [req[r] EXCEPT !.children = found]
<1>4. /\ q.plan = req[r].plan /\ q.at = req[r].at /\ q.number = req[r].number
      /\ q.wrote = req[r].wrote /\ q.view = req[r].view /\ q \in Request
  BY <1>2, <1>3 DEF Request
<1>5. OfOneRow /\ rows[key[2]] = Unborn => req[r].view = None
  BY <1>3 DEF IInv, Born
<1> HIDE DEF q
<1>6. Goes(r, q)
  BY <1>1, <1>4, <1>5 DEF Goes, q
<1> QED BY <1>1, <1>6, UnwrittenStep DEF Firsts

LEMMA GetStep ==
  ASSUME IInv, NEW r \in Requests, Get(r)
  PROVE  IInv'
<1>1. At(r, "get") /\ UNCHANGED <<rows, key, copy, excused, asked, faults>>
      /\ (GoOn(r, req[r]) \/ Finish(r))
  BY DEF Get
<1>2. Goes(r, req[r])
  BY <1>1, SameGoes DEF At
<1> QED BY <1>1, <1>2, UnwrittenStep DEF Firsts

\* A read of one row answers 404 without it, and so has nothing to store.
LEMMA LoadStep ==
  ASSUME IInv, NEW r \in Requests, Load(r)
  PROVE  IInv'
<1>1. /\ At(r, "load") /\ UNCHANGED <<rows, key, copy, excused, asked, faults>>
      /\ IF OfOneRow /\ ~Exists(key[2]) THEN Finish(r)
         ELSE GoOn(r, [req[r] EXCEPT !.view = View(rows)])
  BY DEF Load
<1>2. req[r] \in Request /\ req[r] # None
  BY <1>1, AwaitLeft DEF Underway
<1>3. CASE OfOneRow /\ ~Exists(key[2])
  <2>1. Goes(r, req[r])
    BY <1>1, <1>2, <1>3, SameGoes
  <2> QED BY <1>1, <2>1, UnwrittenStep DEF Firsts
<1>4. CASE ~(OfOneRow /\ ~Exists(key[2]))
  <2> DEFINE view == View(rows)
             q == [req[r] EXCEPT !.view = view]
  <2>1. view \in Copies
    BY StoredType, Typed DEF IInv, View
  <2> HIDE DEF view
  <2>2. /\ q.plan = req[r].plan /\ q.at = req[r].at /\ q.number = req[r].number
        /\ q.wrote = req[r].wrote /\ q \in Request
    BY <1>2, <2>1 DEF Request
  <2>3. OfOneRow => rows[key[2]] # Unborn
    BY <1>4 DEF Exists
  <2>4. GoOn(r, q)
    BY <1>1, <1>4 DEF view
  <2> HIDE DEF q
  <2>5. Goes(r, q)
    BY <2>2, <2>3, <2>4 DEF Goes
  <2> QED BY <1>1, <2>5, UnwrittenStep DEF Firsts
<1> QED BY <1>3, <1>4


LEMMA FindAgainStep ==
  ASSUME IInv, NEW r \in Requests, FindAgain(r)
  PROVE  IInv'
<1> DEFINE there == Exists(ParentOf[On(r)])
           q == [req[r] EXCEPT !.question = there]
<1>1. /\ At(r, "again") /\ UNCHANGED <<rows, key, copy, excused, asked, faults>>
      /\ GoOn(r, q)
  BY DEF FindAgain
<1>2. req[r] \in Request /\ req[r] # None
  BY <1>1, AwaitLeft DEF Underway
<1>3. there \in BOOLEAN /\ (there <=> There(rows, ParentOf[On(r)]))
  BY DEF Exists, There
<1> HIDE DEF there
<1>4. /\ q.plan = req[r].plan /\ q.at = req[r].at /\ q.number = req[r].number
      /\ q.wrote = req[r].wrote /\ q.view = req[r].view /\ q.children = req[r].children
      /\ q.question = there /\ q \in Request
  BY <1>2, <1>3 DEF Request
<1> HIDE DEF q
<1>5. Goes(r, q)
  <2>1. OfOneRow /\ rows[key[2]] = Unborn => req[r].view = None
    BY <1>2 DEF IInv, Born
  <2> QED BY <1>1, <1>4, <2>1 DEF Goes
<1>6. excused' \in BOOLEAN /\ faults' \in 0..MaxFaults
  BY <1>1 DEF IInv, TypeOK
<1>7. /\ TypeOK' /\ Attached' /\ Born' /\ Coming' /\ Once'
      /\ \A p \in Requests : p # r => req'[p] = req[p]
  BY <1>1, <1>2, <1>5, <1>6, QuietStep
<1>8. ASSUME Surely(key, rows, req[r])
      PROVE  req'[r] # None /\ Surely(key, rows, req'[r])
  <2>1. q.question = There(rows, ParentOf[On(r)])
    BY <1>3, <1>4 DEF There
  <2> QED BY <1>1, <1>2, <1>4, <1>5, <1>8, <2>1, SurelyGoesOn
<1>9. Covered'
  BY <1>1, <1>2, <1>7, <1>8, StillCovered
<1> QED BY <1>7, <1>9 DEF IInv

\* What r had to drop with this await is gone; what is left comes with the last.
LEMMA DropStep ==
  ASSUME IInv, NEW r \in Requests, Drop(r)
  PROVE  IInv'
<1> DEFINE keys == IF At(r, "drop") THEN DropsOf(req[r]) ELSE DropsOfQuizOf(req[r])
<1>1. /\ At(r, "drop") \/ At(r, "dropQuiz")
      /\ copy' = IF key \in keys THEN None ELSE copy
      /\ excused' = (excused /\ key \notin keys)
      /\ GoOn(r, req[r])
      /\ rows' = rows /\ key' = key /\ asked' = asked /\ faults' = faults
  BY DEF Drop
<1>2. PICK await \in {"drop", "dropQuiz"} : At(r, await)
  BY <1>1
<1>3. /\ req[r] # None /\ Underway(req[r], asked) /\ req[r].plan.awaits \in Shape
      /\ req[r].at \in DOMAIN req[r].plan.awaits
  BY <1>2, AwaitLeft
<1>4. Goes(r, req[r])
  BY <1>1, <1>3, SameGoes
<1>5. excused' \in BOOLEAN /\ faults' \in 0..MaxFaults
  BY <1>1 DEF IInv, TypeOK
<1>6. /\ TypeOK' /\ Attached' /\ Born' /\ Coming' /\ Once'
      /\ \A p \in Requests : p # r => req'[p] = req[p]
  BY <1>1, <1>3, <1>4, <1>5, QuietStep
<1>7. CASE key \in keys
  <2>1. Covered'
    BY <1>1, <1>7 DEF Covered
  <2> QED BY <1>6, <2>1 DEF IInv
<1>8. CASE key \notin keys
  <2>1. ASSUME Surely(key, rows, req[r])
        PROVE  req'[r] # None /\ Surely(key, rows, req'[r])
    <3> DEFINE s == req[r].plan.awaits
    <3>1. CASE await = "dropQuiz"
      <4>1. s[req[r].at] = "dropQuiz" /\ ~At(r, "drop")
        BY <1>2, <3>1 DEF At
      <4>2. req[r].at = Len(s)
        BY <1>3, <4>1, ShapesInOrder DEF OrderOK
      <4>3. Left(req[r]) = {"dropQuiz"}
        BY <1>3, <4>1, <4>2, RestOfShape DEF Left, Rest
      <4>4. key \in req[r].plan.ofQuiz /\ req[r].question
        BY <2>1, <4>3 DEF Surely
      <4> QED BY <1>8, <4>1, <4>4 DEF DropsOfQuizOf
    <3>2. CASE await = "drop"
      <4>1. s[req[r].at] = "drop" /\ key \notin DropsOf(req[r])
        BY <1>2, <1>8, <3>2 DEF At
      <4>2. /\ "dropQuiz" \in Left(req[r]) /\ key \in req[r].plan.ofQuiz
            /\ req[r].plan.on \in ScopeOf(key)
            /\ IF "again" \in Left(req[r]) THEN There(rows, ParentOf[req[r].plan.on])
               ELSE req[r].question
        BY <2>1, <4>1 DEF Surely
      <4>3. req'[r] # None /\ IsNext(req'[r], req[r])
        BY <1>1, <1>3, <4>1, <4>2, GoesOn DEF IInv
      <4>4. /\ "dropQuiz" \in Left(req'[r])
            /\ "again" \in Left(req'[r]) <=> "again" \in Left(req[r])
            /\ "find" \in Left(req'[r]) => "find" \in Left(req[r])
            /\ req'[r].plan = req[r].plan /\ req'[r].wrote = req[r].wrote
            /\ req'[r].question = req[r].question
        BY <4>1, <4>2, <4>3 DEF IsNext
      <4> QED BY <2>1, <4>2, <4>3, <4>4 DEF Surely
    <3> QED BY <3>1, <3>2
  <2>2. Covered'
    BY <1>1, <1>3, <1>6, <1>8, <2>1, StillCovered
  <2> QED BY <1>6, <2>2 DEF IInv
<1> QED BY <1>7, <1>8

\* What is stored is what the tables hold, or a write has overtaken the read.
LEMMA SetStep ==
  ASSUME IInv, NEW r \in Requests, Set(r)
  PROVE  IInv'
<1>1. /\ At(r, "set") /\ copy' = req[r].view /\ excused' = (req[r].view # View(rows))
      /\ GoOn(r, req[r])
      /\ rows' = rows /\ key' = key /\ asked' = asked /\ faults' = faults
  BY DEF Set
<1>2. req[r] # None /\ Goes(r, req[r])
  BY <1>1, SameGoes DEF At
<1>3. excused' \in BOOLEAN /\ faults' \in 0..MaxFaults
  BY <1>1 DEF IInv, TypeOK
<1>4. /\ TypeOK' /\ Attached' /\ Born' /\ Coming' /\ Once'
  BY <1>1, <1>2, <1>3, QuietStep
<1>5. View(rows)' = View(rows)
  BY <1>1 DEF View
<1>6. Covered'
  BY <1>1, <1>5 DEF Covered
<1> QED BY <1>4, <1>6 DEF IInv

LEMMA ExpireStep ==
  ASSUME IInv, Expire
  PROVE  IInv'
<1>1. copy' = None /\ excused' = FALSE /\ UNCHANGED <<rows, key, req, asked, faults>>
  BY DEF Expire
<1>2. TypeOK'
  BY <1>1 DEF IInv, TypeOK
<1>3. Attached' /\ Born'
  BY <1>1 DEF IInv, Attached, Born, Exists, OfOneRow
<1>4. Coming' /\ Once'
  BY <1>1 DEF IInv, Coming, Once
<1>5. Covered'
  BY <1>1 DEF Covered
<1> QED BY <1>2, <1>3, <1>4, <1>5 DEF IInv

\* Whoever is to drop a copy and fails leaves it with an excuse.
LEMMA FailStep ==
  ASSUME IInv, NEW r \in Requests, FailCommand(r) \/ FailRequest(r)
  PROVE  IInv'
<1>1. /\ req[r] # None /\ faults < MaxFaults /\ faults' = faults + 1
      /\ excused' = (excused \/ (copy # None /\ Owes(req[r])))
      /\ GoOn(r, req[r]) \/ Finish(r)
      /\ rows' = rows /\ key' = key /\ copy' = copy /\ asked' = asked
  BY DEF FailCommand, FailRequest, At
<1>2. Goes(r, req[r])
  BY <1>1, SameGoes
<1>3. excused' \in BOOLEAN /\ faults' \in 0..MaxFaults
  BY <1>1, BoundsType DEF IInv, TypeOK
<1>4. /\ TypeOK' /\ Attached' /\ Born' /\ Coming' /\ Once'
      /\ \A p \in Requests : p # r => req'[p] = req[p]
  BY <1>1, <1>2, <1>3, QuietStep
<1>5. copy # None /\ Surely(key, rows, req[r]) => excused'
  BY <1>1, SurelyOwes
<1>6. excused => excused'
  BY <1>1
<1>7. Covered'
  BY <1>1, <1>4, <1>5, <1>6, StillCovered
<1> QED BY <1>4, <1>7 DEF IInv


\* Awaits of a request, and what they say of its plan.
LEMMA LeftOf ==
  ASSUME NEW q, NEW a, Underway(q, a), NEW await \in Left(q)
  PROVE  /\ \E i \in DOMAIN q.plan.awaits : q.plan.awaits[i] = await
         /\ q.plan \in Plans
         /\ await = "insert" => q.plan \in Creations
         /\ q.plan # Read \/ await \in {"get", "load", "set"}
<1>1. q.plan \in Plans /\ q.plan.awaits \in Shape /\ q.at \in DOMAIN q.plan.awaits
  BY PlanSorts DEF Underway, Request, SortOK
<1> DEFINE s == q.plan.awaits
<1>2. Len(s) \in Nat /\ DOMAIN s = 1 .. Len(s) /\ q.at \in 1 .. Len(s)
  BY <1>1, RestOfShape, ShapesInOrder DEF OrderOK
<1>3. PICK i \in q.at .. Len(s) : s[i] = await
  BY DEF Left
<1>4. i \in DOMAIN s
  BY <1>2, <1>3
<1>5. /\ await = "insert" => Creation(q.plan)
      /\ await \notin {"get", "load", "set"} => q.plan # Read
  BY <1>1, <1>3, <1>4, PlanSorts DEF SortOK
<1> QED BY <1>1, <1>3, <1>4, <1>5, CreationsOn

LEMMA AskStep ==
  ASSUME IInv, NEW r \in Requests, NEW plan \in Plans, Ask(r, plan)
  PROVE  IInv'
<1> DEFINE n == IF plan = Read THEN 0 ELSE asked + 1
           new == [plan |-> plan, at |-> 1, number |-> n, children |-> {},
                   wrote |-> FALSE, question |-> FALSE, view |-> None]
<1>1. /\ req[r] = None
      /\ IF plan = Read THEN asked' = asked ELSE asked < MaxWrites /\ asked' = asked + 1
      /\ plan \in Creations =>
           /\ rows[plan.on] = Unborn
           /\ \A p \in Requests : req[p] # None => req[p].plan # plan
      /\ req' = [req EXCEPT ![r] = new]
      /\ UNCHANGED <<rows, key, copy, excused, faults>>
  BY DEF Ask
<1>2. /\ req \in [Requests -> Request \cup {None}] /\ asked \in Nat /\ TypeOK
      /\ \A p \in Requests : req[p] # None => Underway(req[p], asked)
  BY Typed DEF IInv
<1>3. Underway(new, asked') /\ new # None
  <2>1. 1 \in DOMAIN plan.awaits
    BY PlanSorts DEF SortOK, Shape
  <2>2. n \in Nat /\ n \in 0 .. asked'
    BY <1>1, <1>2
  <2>3. new \in Request
    BY <2>2 DEF Request
  <2> QED BY <2>1, <2>2, <2>3, NoRequestIsNone DEF Underway
<1>4. new.plan = plan /\ new.wrote = FALSE /\ new.view = None
  OBVIOUS
<1> HIDE DEF new
<1>5. /\ req' \in [Requests -> Request \cup {None}] /\ req'[r] = new
      /\ \A p \in Requests : p # r => req'[p] = req[p]
  BY <1>1, <1>2, <1>3 DEF Underway
<1>6. TypeOK'
  <2>1. asked' \in Nat /\ asked <= asked' /\ asked' \in 0..MaxWrites
    BY <1>1, <1>2, BoundsType DEF TypeOK
  <2>2. \A p \in Requests : req'[p] # None => Underway(req'[p], asked')
    BY <1>2, <1>3, <1>5, <2>1 DEF Underway
  <2> QED BY <1>1, <1>2, <1>5, <2>1, <2>2 DEF TypeOK, Underway
<1>7. Attached' /\ Born'
  BY <1>1, <1>4, <1>5 DEF IInv, Attached, Born, Exists, OfOneRow
<1>8. Coming'
  <2>1. ASSUME NEW p \in Requests, req'[p] # None, "insert" \in Left(req'[p])
        PROVE  /\ rows[req'[p].plan.on] = Unborn
               /\ \A o \in Requests : o # p /\ req'[o] # None => req'[o].plan # req'[p].plan
    <3>1. req'[p].plan \in Creations
      BY <1>2, <1>3, <1>5, <2>1, LeftOf
    <3>2. CASE p = r
      BY <1>1, <1>4, <1>5, <3>1, <3>2
    <3>3. CASE p # r
      <4>1. /\ rows[req[p].plan.on] = Unborn
            /\ \A o \in Requests : o # p /\ req[o] # None => req[o].plan # req[p].plan
        BY <1>5, <2>1, <3>3 DEF IInv, Coming
      <4>2. plan # req[p].plan
        BY <1>1, <1>5, <2>1, <3>1, <3>3
      <4> QED BY <1>4, <1>5, <3>3, <4>1, <4>2
    <3> QED BY <3>2, <3>3
  <2> QED BY <1>1, <2>1 DEF Coming
<1>9. Once'
  <2>1. \A p \in Requests : req'[p] # None /\ req'[p].wrote => req'[p] = req[p] /\ req[p] # None
    BY <1>4, <1>5
  <2>2. ASSUME NEW p \in Requests, req'[p] # None, req'[p].wrote
        PROVE  Left(req'[p]) \cap Firsts = {}
    BY <2>1, <2>2 DEF IInv, Once, Firsts
  <2> QED BY <2>2 DEF Once, Firsts
<1>10. Covered'
  <2>1. View(rows)' = View(rows)
    BY <1>1 DEF View
  <2>2. \A p \in Requests : req[p] # None => req'[p] = req[p]
    BY <1>1, <1>5
  <2>3. ASSUME copy # None, copy # View(rows)
        PROVE  excused \/ \E p \in Requests : req'[p] # None /\ Surely(key, rows, req'[p])
    BY <2>2, <2>3 DEF IInv, Covered
  <2> QED BY <1>1, <2>1, <2>3 DEF Covered
<1> QED BY <1>6, <1>7, <1>8, <1>9, <1>10 DEF IInv


----------------------------------------------------------------------------
(* The steps that change the tables.                                        *)

\* What a write on the row d makes of the tables.
Changed(table, d, await) ==
  /\ table \in Table
  /\ \A x \in Rows : table[x] # rows[x] =>
       /\ x = d \/ (await = "delete" /\ x \in Under(d))
       /\ rows[x] = Unborn => await = "insert"
       /\ await = "delete" => There(rows, x)
       /\ table[x] # Unborn
  /\ await # "delete" => There(table, d)
  /\ \A x \in Questions \cup Choices : There(table, x) => There(table, ParentOf[x])

\* A creation is the only one on its row.
LEMMA OneCreation ==
  ASSUME NEW p \in Creations, NEW q \in Creations, p.on = q.on
  PROVE  p = q
BY CreationsOn, RowsApart DEF Creation

\* What was covered before a change that does not matter to the key still is.
LEMMA OthersCover ==
  ASSUME IInv, NEW table \in Table, Stored(key, table) = Stored(key, rows),
         NEW p \in Requests, req[p] # None, Surely(key, rows, req[p])
  PROVE  Surely(key, table, req[p])
<1>1. key \in Key /\ rows \in Table
  BY Typed DEF IInv
<1>2. \A x \in ScopeOf(key) : There(rows, x) => There(table, x)
  BY <1>1, StoredShows
<1>3. req[p].plan \in Plans
  BY Typed DEF IInv, Underway, Request
<1>4. key \in req[p].plan.ofQuiz /\ req[p].plan.on \in ScopeOf(key) =>
        ParentOf[req[p].plan.on] \in ScopeOf(key)
  BY <1>1, <1>3, QuestionMatters
<1>5. "find" \in Left(req[p]) =>
        There(table, req[p].plan.on) /\ req[p].plan.on \in ScopeOf(key)
  BY <1>2 DEF Surely
<1>6. CASE "drop" \in Left(req[p]) /\ key \in DropsOf(req[p])
  BY <1>5, <1>6 DEF Surely
<1>7. CASE /\ "dropQuiz" \in Left(req[p]) /\ key \in req[p].plan.ofQuiz
           /\ req[p].plan.on \in ScopeOf(key)
           /\ IF "again" \in Left(req[p]) THEN There(rows, ParentOf[req[p].plan.on])
              ELSE req[p].question
  <2>1. IF "again" \in Left(req[p]) THEN There(table, ParentOf[req[p].plan.on])
        ELSE req[p].question
    BY <1>2, <1>4, <1>7
  <2> QED BY <1>5, <1>7, <2>1 DEF Surely
<1> QED BY <1>6, <1>7 DEF Surely

\* What the writer has not overlooked it is to drop, with new what it goes on as.
LEMMA WriterCovers ==
  ASSUME IInv, NEW r \in Requests, NEW await \in Writes, At(r, await),
         NEW table, Changed(table, On(r), await), ~Overlooked(req[r]), copy # None,
         NEW x \in ScopeOf(key), table[x] # rows[x],
         NEW new, new.plan = req[r].plan, new.children = req[r].children, new.wrote = TRUE,
         Left(new) = Rest(req[r].plan.awaits, req[r].at + 1)
  PROVE  Surely(key, table, new)
<1> DEFINE p == req[r].plan
           s == p.awaits
           d == p.on
<1>1. /\ p \in Plans /\ s \in Shape /\ req[r].at \in DOMAIN s /\ s[req[r].at] = await
      /\ req[r] # None /\ await \in Left(req[r]) /\ key \in Key
  BY AwaitLeft, Typed DEF IInv, At
<1>2. /\ "drop" \in Left(new)
      /\ await = "delete" => "find" \notin Left(new)
      /\ Len(s) > 4 => {"again", "dropQuiz"} \subseteq Left(new)
  BY <1>1, ShapesInOrder DEF OrderOK
<1>3. /\ await = "insert" => Creation(p)
      /\ await = "update" => Edit(p)
      /\ await = "delete" => Deletion(p)
      /\ p.ofQuiz # {} => d \in Choices /\ Len(s) > 4
  BY <1>1, PlanSorts DEF SortOK
<1>4. x \in Rows /\ (x = d \/ (await = "delete" /\ x \in Under(d)))
  BY <1>1, InScope DEF Changed, On
<1>5. ~Passed(key, p)
  BY DEF Overlooked, Passed
<1>6. DropsOf(new) = p.drops \cup CopiesOf(req[r].children)
  BY DEF DropsOf
<1>7. "find" \in Left(new) => There(table, d) /\ d \in ScopeOf(key)
  BY <1>2, <1>4 DEF Changed, On
<1>8. CASE key \in p.drops
  BY <1>2, <1>6, <1>7, <1>8 DEF Surely
<1>9. CASE key \in p.ofQuiz /\ d \in ScopeOf(key) /\ There(table, ParentOf[d])
  BY <1>2, <1>3, <1>7, <1>9 DEF Surely
<1>10. CASE await # "delete"
  <2>1. x = d /\ There(table, d)
    BY <1>4, <1>10 DEF Changed, On
  <2>2. key \in p.ofQuiz => There(table, ParentOf[d])
    BY <1>3, <2>1 DEF Changed
  <2>3. CASE await = "insert"
    <3>1. rows[d] = Unborn
      BY <1>1, <2>3 DEF IInv, Coming
    <3>2. ~(OneRow(key) /\ key[2] = d)
      BY <3>1 DEF IInv, Born, OneRow, OfOneRow
    <3>3. key \in p.drops \/ key \in p.ofQuiz
      BY <1>1, <1>3, <1>5, <2>1, <2>3, <3>2, CreationDrops
    <3> QED BY <1>8, <1>9, <2>1, <2>2, <3>3
  <2>4. CASE await = "update"
    <3>1. key \in p.drops \/ key \in p.ofQuiz
      BY <1>1, <1>3, <1>5, <2>1, <2>4, EditDrops
    <3> QED BY <1>8, <1>9, <2>1, <2>2, <3>1
  <2> QED BY <1>10, <2>3, <2>4 DEF Writes
<1>11. CASE await = "delete"
  <2>1. \/ key \in p.drops
        \/ key \in p.ofQuiz /\ x = d
        \/ key[2] \in Under(d) /\ key \in CopiesOf({key[2]})
    BY <1>1, <1>3, <1>4, <1>5, <1>11, DeletionDrops
  <2>2. CASE key \in p.ofQuiz /\ x = d
    <3>1. d \in Choices /\ There(rows, d)
      BY <1>3, <1>4, <1>11, <2>2 DEF Changed
    <3>2. There(rows, ParentOf[d])
      BY <3>1 DEF IInv, Attached, Exists, There
    <3>3. ParentOf[d] \in Rows /\ ParentOf[d] # d /\ ParentOf[d] \notin Under(d)
      BY <3>1, Family, ParentType, RowsApart DEF Rows
    <3>4. table[ParentOf[d]] = rows[ParentOf[d]]
      BY <3>3 DEF Changed, On
    <3>5. There(table, ParentOf[d])
      BY <3>2, <3>4 DEF There
    <3> QED BY <1>9, <2>2, <3>5
  <2>3. CASE key[2] \in Under(d) /\ key \in CopiesOf({key[2]})
    <3>1. key[2] \in req[r].children
      BY <1>1, <1>11, <2>3 DEF Overlooked
    <3>2. CopiesOf({key[2]}) \subseteq CopiesOf(req[r].children)
      BY <3>1, CopiesOfMore
    <3> QED BY <1>2, <1>6, <1>7, <2>3, <3>2 DEF Surely
  <2> QED BY <1>8, <2>1, <2>2, <2>3
<1> QED BY <1>10, <1>11


\* The row that a key of one row is for.
LEMMA RowOfKey ==
  ASSUME NEW k \in Key, OneRow(k)
  PROVE  k[2] \in Rows
BY KeyKinds DEF OneRow, Rows

LEMMA WriteStep ==
  ASSUME IInv, NEW r \in Requests, NEW await \in Writes, At(r, await),
         NEW table, Changed(table, On(r), await), Write(r, table)
  PROVE  IInv'
<1> DEFINE q == [req[r] EXCEPT !.wrote = TRUE]
<1>1. /\ rows' = table /\ key' = key /\ copy' = copy /\ asked' = asked /\ faults' = faults
      /\ excused' = (excused \/ (copy # None /\ View(table) # View(rows) /\ Overlooked(req[r])))
      /\ GoOn(r, q)
  BY DEF Write
<1>2. /\ req[r] # None /\ await \in Left(req[r]) /\ Underway(req[r], asked)
      /\ req[r].plan \in Plans /\ req[r].plan.awaits \in Shape
      /\ req[r].at \in DOMAIN req[r].plan.awaits
      /\ ~req[r].wrote /\ req[r].plan.awaits[req[r].at] = await
  BY AwaitLeft DEF Writes, Firsts, At
<1>3. /\ q.plan = req[r].plan /\ q.at = req[r].at /\ q.number = req[r].number
      /\ q.wrote = TRUE /\ q.view = req[r].view /\ q.children = req[r].children
      /\ q.question = req[r].question /\ q \in Request
  BY <1>2 DEF Underway, Request
<1> HIDE DEF q
<1>4. /\ TypeOK /\ rows \in Table /\ table \in Table /\ key \in Key
      /\ req \in [Requests -> Request \cup {None}]
      /\ \A p \in Requests : req[p] # None => Underway(req[p], asked)
  BY Typed DEF IInv, Changed
<1>5. Underway(q, asked)
  BY <1>2, <1>3 DEF Underway
<1>6. /\ req' \in [Requests -> Request \cup {None}]
      /\ \A p \in Requests : p # r => req'[p] = req[p]
      /\ req'[r] # None /\ Underway(req'[r], asked) /\ IsNext(req'[r], q)
  BY <1>1, <1>2, <1>3, <1>4, <1>5, GoesOn DEF Writes
<1>7. /\ req'[r].plan = req[r].plan /\ req'[r].view = req[r].view
      /\ req'[r].children = req[r].children /\ req'[r].wrote = TRUE
      /\ Left(req'[r]) = Rest(req[r].plan.awaits, req[r].at + 1)
  BY <1>3, <1>6 DEF IsNext
<1>8. Left(req'[r]) \cap Firsts = {}
  BY <1>2, <1>7, ShapesInOrder DEF OrderOK
<1>9. TypeOK'
  <2>1. \A p \in Requests : req'[p] # None => Underway(req'[p], asked)
    BY <1>4, <1>6
  <2>2. excused' \in BOOLEAN
    BY <1>1
  <2>3. table \in [Rows -> 0..MaxWrites \cup {Unborn, Gone}]
    BY <1>4 DEF Table
  <2> QED BY <1>1, <1>4, <1>6, <2>1, <2>2, <2>3 DEF TypeOK, Underway
<1>10. Attached'
  BY <1>1 DEF Attached, Exists, Changed, There
<1>11. Born'
  <2>1. OfOneRow' = OfOneRow
    BY <1>1 DEF OfOneRow
  <2>2. ASSUME OfOneRow, table[key[2]] = Unborn
        PROVE  copy = None /\ \A p \in Requests : req'[p] # None => req'[p].view = None
    <3>1. key[2] \in Rows
      BY <1>4, <2>2, RowOfKey DEF OneRow, OfOneRow
    <3>2. rows[key[2]] = Unborn
      BY <2>2, <3>1 DEF Changed
    <3>3. copy = None /\ \A p \in Requests : req[p] # None => req[p].view = None
      BY <2>2, <3>2 DEF IInv, Born
    <3> QED BY <1>2, <1>6, <1>7, <3>3
  <2> QED BY <1>1, <2>1, <2>2 DEF Born
<1>12. Coming'
  <2>1. ASSUME NEW p \in Requests, req'[p] # None, "insert" \in Left(req'[p])
        PROVE  /\ table[req'[p].plan.on] = Unborn
               /\ \A o \in Requests : o # p /\ req'[o] # None => req'[o].plan # req'[p].plan
    <3>1. p # r /\ req'[p] = req[p]
      BY <1>6, <1>8, <2>1 DEF Firsts
    <3>2. /\ rows[req[p].plan.on] = Unborn
          /\ \A o \in Requests : o # p /\ req[o] # None => req[o].plan # req[p].plan
      BY <2>1, <3>1 DEF IInv, Coming
    <3>3. req[p].plan \in Creations
      BY <1>4, <2>1, <3>1, LeftOf
    <3>4. req[p].plan.on \in Rows
      BY <3>3, CreationsOn DEF Creation, Rows
    <3>5. table[req[p].plan.on] = Unborn
      <4>1. SUFFICES ASSUME table[req[p].plan.on] # rows[req[p].plan.on]
                     PROVE  FALSE
        BY <3>2
      <4>2. await = "insert" /\ req[p].plan.on = On(r)
        BY <3>2, <3>4, <4>1 DEF Changed
      <4>3. req[r].plan \in Creations
        BY <1>2, <4>2, LeftOf
      <4>4. req[r].plan = req[p].plan
        BY <3>3, <4>2, <4>3, OneCreation DEF On
      <4> QED BY <1>2, <3>1, <3>2, <4>4
    <3>6. \A o \in Requests : o # p /\ req'[o] # None => req'[o].plan # req[p].plan
      BY <1>2, <1>6, <1>7, <3>2
    <3> QED BY <3>1, <3>5, <3>6
  <2> QED BY <1>1, <2>1 DEF Coming
<1>13. Once'
  <2>1. ASSUME NEW p \in Requests, req'[p] # None, req'[p].wrote
        PROVE  Left(req'[p]) \cap Firsts = {}
    <3>1. CASE p = r
      BY <1>8, <3>1
    <3>2. CASE p # r
      BY <1>6, <2>1, <3>2 DEF IInv, Once, Firsts
    <3> QED BY <3>1, <3>2
  <2> QED BY <2>1 DEF Once, Firsts
<1>14. Covered'
  <2>1. View(rows)' = Stored(key, table)
    BY <1>1 DEF View
  <2>2. ASSUME copy # None, copy # Stored(key, table), ~excused'
        PROVE  \E p \in Requests : req'[p] # None /\ Surely(key, table, req'[p])
    <3>1. CASE Stored(key, table) = Stored(key, rows)
      <4>1. PICK p \in Requests : req[p] # None /\ Surely(key, rows, req[p])
        BY <1>1, <2>2, <3>1 DEF IInv, Covered, View
      <4>2. p # r
        BY <1>2, <4>1 DEF Surely
      <4>3. Surely(key, table, req[p])
        BY <1>4, <3>1, <4>1, OthersCover
      <4> QED BY <1>6, <4>1, <4>2, <4>3
    <3>2. CASE Stored(key, table) # Stored(key, rows)
      <4>1. ~Overlooked(req[r])
        BY <1>1, <2>2, <3>2 DEF View
      <4>2. PICK x \in ScopeOf(key) : table[x] # rows[x]
        BY <1>4, <3>2, StoredSame
      <4>3. Surely(key, table, req'[r])
        BY <1>7, <2>2, <4>1, <4>2, WriterCovers
      <4> QED BY <1>6, <4>3
    <3> QED BY <3>1, <3>2
  <2> QED BY <1>1, <2>1, <2>2 DEF Covered
<1> QED BY <1>9, <1>10, <1>11, <1>12, <1>13, <1>14 DEF IInv

LEMMA InsertStep ==
  ASSUME IInv, NEW r \in Requests, Insert(r)
  PROVE  IInv'
<1> DEFINE d == On(r)
<1>1. /\ req[r] # None /\ "insert" \in Left(req[r]) /\ Underway(req[r], asked)
      /\ rows \in Table /\ asked \in 0..MaxWrites /\ At(r, "insert")
  BY AwaitLeft, Typed DEF Insert, IInv, TypeOK
<1>2. CASE d \in Quizzes \/ Exists(ParentOf[d])
  <2> DEFINE table == [rows EXCEPT ![d] = req[r].number]
  <2>1. Write(r, table)
    BY <1>2 DEF Insert
  <2>2. req[r].number \in 0..MaxWrites /\ req[r].number \notin {Unborn, Gone}
    <3>1. req[r].number \in 0..asked /\ asked \in Nat /\ MaxWrites \in Nat
      BY <1>1, BoundsType DEF Underway
    <3>2. req[r].number \in Nat /\ req[r].number \in 0..MaxWrites
      BY <1>1, <3>1
    <3> QED BY <3>2, NoneType
  <2>3. rows[d] = Unborn
    BY <1>1 DEF IInv, Coming, On
  <2>4. d \in Rows /\ (d \in Quizzes \/ d \in Questions \cup Choices)
    <3>1. req[r].plan \in Creations
      BY <1>1, LeftOf
    <3> QED BY <3>1, CreationsOn DEF Creation, Rows, On
  <2>5. /\ table \in Table /\ table[d] = req[r].number
        /\ \A x \in Rows : x # d => table[x] = rows[x]
    BY <1>1, <2>2, <2>4 DEF Table
  <2> HIDE DEF table, d
  <2>6. ASSUME NEW x \in Questions \cup Choices, There(table, x)
        PROVE  There(table, ParentOf[x])
    <3>1. x \in Rows /\ ParentOf[x] \in Rows
      BY ParentType DEF Rows
    <3>2. There(rows, ParentOf[x])
      <4>1. CASE x = d
        BY <1>2, <2>6, <4>1, RowsApart DEF Exists, There
      <4>2. CASE x # d
        BY <2>5, <2>6, <3>1, <4>2 DEF IInv, Attached, Exists, There
      <4> QED BY <4>1, <4>2
    <3>3. ParentOf[x] # d
      BY <2>3, <3>2 DEF There
    <3> QED BY <2>5, <3>1, <3>2, <3>3 DEF There
  <2>7. Changed(table, d, "insert")
    BY <2>2, <2>3, <2>5, <2>6 DEF Changed, There
  <2> QED BY <1>1, <2>1, <2>7, WriteStep DEF Writes, d
<1>3. CASE ~(d \in Quizzes \/ Exists(ParentOf[d]))
  <2>1. Finish(r) /\ UNCHANGED <<rows, key, copy, excused, asked, faults>>
    BY <1>3 DEF Insert
  <2>2. Goes(r, req[r])
    BY <1>1, <2>1, SameGoes
  <2> QED BY <1>1, <2>1, <2>2, UnwrittenStep DEF Firsts
<1> QED BY <1>2, <1>3

LEMMA UpdateStep ==
  ASSUME IInv, NEW r \in Requests, Update(r)
  PROVE  IInv'
<1> DEFINE d == On(r)
<1>1. /\ req[r] # None /\ "update" \in Left(req[r]) /\ Underway(req[r], asked)
      /\ rows \in Table /\ asked \in 0..MaxWrites /\ At(r, "update")
  BY AwaitLeft, Typed DEF Update, IInv, TypeOK
<1>2. CASE Exists(d)
  <2> DEFINE table == [rows EXCEPT ![d] = req[r].number]
  <2>1. Write(r, table)
    BY <1>2 DEF Update
  <2>2. req[r].number \in 0..MaxWrites /\ req[r].number \notin {Unborn, Gone}
    <3>1. req[r].number \in 0..asked /\ asked \in Nat /\ MaxWrites \in Nat
      BY <1>1, BoundsType DEF Underway
    <3>2. req[r].number \in Nat /\ req[r].number \in 0..MaxWrites
      BY <1>1, <3>1
    <3> QED BY <3>2, NoneType
  <2>3. d \in Rows
    <3>1. req[r].plan \in Plans /\ req[r].plan # Read
      BY <1>1, LeftOf
    <3> QED BY <3>1, PlanSorts DEF SortOK, On
  <2>4. /\ table \in Table /\ table[d] = req[r].number
        /\ \A x \in Rows : x # d => table[x] = rows[x]
    BY <1>1, <2>2, <2>3 DEF Table
  <2>5. rows[d] # Unborn
    BY <1>2 DEF Exists
  <2> HIDE DEF table, d
  <2>6. \A x \in Rows : There(table, x) <=> There(rows, x)
    BY <1>2, <2>2, <2>4 DEF Exists, There
  <2>7. ASSUME NEW x \in Questions \cup Choices, There(table, x)
        PROVE  There(table, ParentOf[x])
    <3>1. x \in Rows /\ ParentOf[x] \in Rows
      BY ParentType DEF Rows
    <3> QED BY <2>6, <2>7, <3>1 DEF IInv, Attached, Exists, There
  <2>8. Changed(table, d, "update")
    BY <2>2, <2>4, <2>5, <2>7 DEF Changed, There
  <2> QED BY <1>1, <2>1, <2>8, WriteStep DEF Writes, d
<1>3. CASE ~Exists(d)
  <2>1. GoOn(r, req[r]) /\ UNCHANGED <<rows, key, copy, excused, asked, faults>>
    BY <1>3 DEF Update
  <2>2. Goes(r, req[r])
    BY <1>1, <2>1, SameGoes
  <2> QED BY <1>1, <2>1, <2>2, UnwrittenStep DEF Firsts
<1> QED BY <1>2, <1>3

\* What is below a row that is below another is below that one.
LEMMA BelowBelow ==
  ASSUME NEW d \in Rows, NEW x \in Questions \cup Choices,
         ParentOf[x] \in {d} \cup Under(d)
  PROVE  x \in Under(d)
<1>1. CASE d \in Quizzes
  <2>1. ParentOf[x] = d \/ ParentOf[x] \in ChildrenOf(d)
        \/ (ParentOf[x] \in Choices /\ QuizOf(ParentOf[x]) = d)
    BY <1>1, Family
  <2>2. /\ x \in Questions => ParentOf[x] \in Quizzes
        /\ x \in Choices => ParentOf[x] \in Questions
    BY ParentType
  <2>3. CASE x \in Questions
    <3>1. ParentOf[x] = d
      BY <1>1, <2>1, <2>2, <2>3, Family, RowsApart
    <3> QED BY <1>1, <2>3, <3>1, Family
  <2>4. CASE x \in Choices
    <3>1. QuizOf(x) = d
      BY <1>1, <2>1, <2>2, <2>4, Family, RowsApart DEF QuizOf
    <3> QED BY <1>1, <2>4, <3>1, Family
  <2> QED BY <2>3, <2>4
<1>2. CASE d \in Questions
  <2>1. Under(d) = {c \in Choices : ParentOf[c] = d}
    BY <1>2, Family
  <2>2. /\ x \in Questions => ParentOf[x] \in Quizzes
        /\ x \in Choices => ParentOf[x] \in Questions
    BY ParentType
  <2> QED BY <1>2, <2>1, <2>2, RowsApart
<1>3. CASE d \in Choices
  <2>1. Under(d) = {}
    BY <1>3, Family
  <2> QED BY <1>3, <2>1, ParentType, RowsApart
<1> QED BY <1>1, <1>2, <1>3 DEF Rows

LEMMA DeleteStep ==
  ASSUME IInv, NEW r \in Requests, Delete(r)
  PROVE  IInv'
<1> DEFINE d == On(r)
           table == [x \in Rows |->
             IF x \in {d} \cup Under(d) /\ Exists(x) THEN Gone ELSE rows[x]]
<1>1. At(r, "delete") /\ Write(r, table)
  BY DEF Delete
<1>2. req[r] # None /\ "delete" \in Left(req[r]) /\ Underway(req[r], asked) /\ rows \in Table
  BY <1>1, AwaitLeft, Typed DEF IInv
<1>3. d \in Rows
  <2>1. req[r].plan \in Plans /\ req[r].plan # Read
    BY <1>2, LeftOf
  <2> QED BY <2>1, PlanSorts DEF SortOK, On
<1> HIDE DEF d
<1>4. table \in Table
  BY <1>2 DEF Table
<1>5. ASSUME NEW x \in Rows, table[x] # rows[x]
      PROVE  /\ x = d \/ x \in Under(d)
             /\ rows[x] # Unborn /\ There(rows, x) /\ table[x] # Unborn
  BY <1>5, NoneType DEF Exists, There
<1>6. ASSUME NEW x \in Questions \cup Choices, There(table, x)
      PROVE  There(table, ParentOf[x])
  <2>1. x \in Rows /\ ParentOf[x] \in Rows
    BY ParentType DEF Rows
  <2>2. There(rows, x) /\ x \notin {d} \cup Under(d)
    BY <1>6, <2>1 DEF There, Exists
  <2>3. There(rows, ParentOf[x])
    BY <2>2 DEF IInv, Attached, Exists, There
  <2>4. ParentOf[x] \notin {d} \cup Under(d)
    BY <1>3, <2>2, BelowBelow
  <2> QED BY <2>1, <2>3, <2>4 DEF There
<1> HIDE DEF table
<1>7. Changed(table, d, "delete")
  BY <1>4, <1>5, <1>6 DEF Changed
<1> QED BY <1>1, <1>7, WriteStep DEF Writes, d

----------------------------------------------------------------------------
(* Theorems.                                                                *)

LEMMA InitOK == Init => IInv
<1> SUFFICES ASSUME Init
             PROVE  IInv
  OBVIOUS
<1>1. PICK old \in SUBSET Rows :
        /\ \A x \in old \ Quizzes : ParentOf[x] \in old
        /\ rows = [x \in Rows |-> IF x \in old THEN 0 ELSE Unborn]
  BY DEF Init
<1>2. /\ key \in Key /\ copy = None /\ req = [r \in Requests |-> None]
      /\ excused = FALSE /\ asked = 0 /\ faults = 0
  BY DEF Init
<1>3. TypeOK
  <2>1. 0 \in 0..MaxWrites /\ 0 \in 0..MaxFaults
    BY BoundsType
  <2>2. rows \in [Rows -> 0..MaxWrites \cup {Unborn, Gone}]
    BY <1>1, <2>1
  <2>3. \A r \in Requests : req[r] = None
    BY <1>2
  <2>4. req \in [Requests -> Request \cup {None}]
    BY <1>2
  <2> QED BY <1>2, <2>1, <2>2, <2>3, <2>4 DEF TypeOK
<1>4. Attached
  <2>1. ASSUME NEW x \in Questions \cup Choices, Exists(x)
        PROVE  Exists(ParentOf[x])
    <3>1. x \in Rows /\ ParentOf[x] \in Rows /\ x \notin Quizzes
      BY ParentType, RowsApart DEF Rows
    <3>2. x \in old
      BY <1>1, <2>1, <3>1 DEF Exists
    <3>3. rows[ParentOf[x]] = 0
      BY <1>1, <3>1, <3>2
    <3> QED BY <3>3, NoneType DEF Exists
  <2> QED BY <2>1 DEF Attached
<1>5. Born /\ Coming /\ Once /\ Covered
  BY <1>2 DEF Born, Coming, Once, Covered
<1> QED BY <1>3, <1>4, <1>5 DEF IInv

LEMMA StepOK ==
  ASSUME IInv, NEW r \in Requests, Step(r)
  PROVE  IInv'
BY FindStep, FindParentStep, FindByIdWithChildrenStep, FindAgainStep, InsertStep, UpdateStep,
   DeleteStep, DropStep, GetStep, LoadStep, SetStep DEF Step

LEMMA NextOK == IInv /\ [Next]_vars => IInv'
<1> SUFFICES ASSUME IInv, [Next]_vars
             PROVE  IInv'
  OBVIOUS
<1>1. CASE \E r \in Requests, plan \in Plans : Ask(r, plan)
  BY <1>1, AskStep
<1>2. CASE \E r \in Requests : Step(r) \/ FailCommand(r) \/ FailRequest(r)
  <2> PICK r \in Requests : Step(r) \/ FailCommand(r) \/ FailRequest(r)
    BY <1>2
  <2> QED BY StepOK, FailStep
<1>3. CASE Expire
  BY <1>3, ExpireStep
<1>4. CASE UNCHANGED vars
  <2>1. TypeOK'
    BY <1>4 DEF vars, IInv, TypeOK
  <2>2. Attached' /\ Born' /\ Coming' /\ Once'
    BY <1>4 DEF vars, IInv, Attached, Born, Coming, Once, Exists, OfOneRow
  <2>3. Covered'
    BY <1>4 DEF vars, IInv, Covered, View
  <2> QED BY <2>1, <2>2, <2>3 DEF IInv
<1> QED BY <1>1, <1>2, <1>3, <1>4 DEF Next

\* The strengthening holds whatever the requests, their order, and the copies,
\* commands and queries that come to nothing.
THEOREM InvariantHolds == Spec => []IInv
<1>1. Init => IInv
  BY InitOK
<1>2. IInv /\ [Next]_vars => IInv'
  BY NextOK
<1> QED BY <1>1, <1>2, PTL DEF Spec

\* The rows, the followed copy and the requests stay in their ranges, a request
\* stays inside its awaits.
THEOREM TypeCorrect == Spec => []TypeOK
<1>1. IInv => TypeOK
  BY DEF IInv
<1> QED BY <1>1, InvariantHolds, PTL

\* A copy under any key that is not what the tables hold has an excuse or is
\* about to be dropped: the nine writes of quiz.service.js, question.service.js
\* and choice.service.js, in any interleaving, leave nothing else behind.
THEOREM StaleExcused == Spec => []StaleIsExcused
<1>1. IInv => StaleIsExcused
  BY SurelyOwes DEF IInv, Covered, StaleIsExcused
<1> QED BY <1>1, InvariantHolds, PTL

=============================================================================
