-------------------------- MODULE SessionLifecycle --------------------------
(***************************************************************************)
(* One game session of ms-session: its row in PostgreSQL, the copies of    *)
(* the row in Valkey under session:<id> and session:pk:<public key>, and   *)
(* the requests start, next, end, delete, join and get that work on them,  *)
(* each a sequence of awaits between which the others run.                 *)
(*                                                                         *)
(* Requests read the row through the cache (TypeOrmSessionRepository.find  *)
(* and findByPublicKey), decide on what they have seen, write the row and  *)
(* then invalidate the copy under the id.                                  *)
(***************************************************************************)
EXTENDS Integers, Sequences, FiniteSets

CONSTANTS
  Requests,     \* concurrent request handlers
  Operations,   \* what is asked of the session in this instance
  Questions,    \* ids of questions
  Versions,     \* the question lists the quiz service may answer
  RepliesLost,  \* may the reply to a committed PostgreSQL write be lost?
  MaxPlayers,   \* bound on the participants
  MaxRequests,  \* bound on the requests served
  MaxFaults,    \* bound on failed PostgreSQL, HTTP and Kafka operations
  MaxOutages,   \* bound on failed Valkey commands
  MaxCrashes    \* bound on crashes of the process

None == 0       \* a null or undefined question id

ASSUME OperationsType ==
  Operations \subseteq {"start", "next", "end", "delete", "join", "get"}
ASSUME QuestionsType == None \notin Questions
\* A quiz without questions is refused by start and next without effect.
ASSUME VersionsType ==
  /\ Versions # {}
  /\ Versions \subseteq Seq(Questions) \ {<<>>}
ASSUME RepliesLostType == RepliesLost \in BOOLEAN
ASSUME BoundsType ==
  /\ MaxPlayers \in Nat
  /\ MaxRequests \in Nat
  /\ MaxFaults \in Nat
  /\ MaxOutages \in Nat
  /\ MaxCrashes \in Nat

VARIABLES
  row,        \* the row of table sessions
  cache,      \* cache["id"], cache["pk"]: Valkey copies of the row
  ids,        \* Valkey key session:<id>:questions:ids, <<>> when unset
  players,    \* number of rows of table participants
  published,  \* history: the session's events on quizz.events
  was,        \* history: every value the row has had
  req,        \* req[r]: the request handler r works on
  served,     \* requests begun
  faults,     \* failures so far
  outages,    \* Valkey failures so far
  crashes     \* crashes so far

bounds == <<served, faults, outages, crashes>>
vars == <<row, cache, ids, players, published, was, req, bounds>>

Status == {"LOBBY", "QUESTION_ACTIVE", "FINISHED"}
Session == [status : Status, question : Questions \cup {None}]
Absent == [status |-> "ABSENT", question |-> None]  \* no row, or a cache miss

Event == [type : {"SESSION_STARTED", "SESSION_ENDED", "SESSION_DELETED",
                  "PARTICIPANT_JOINED"}, question : {None}]
         \cup [type : {"SESSION_NEXT_QUESTION"},
               question : Questions \cup {None}]
EventOf(type, question) == [type |-> type, question |-> question]

\* Steps are named for the await the handler is at.
Step == {"idle", "find", "findRow", "fill", "found", "quiz", "keepIds",
         "fresh", "keepFresh", "save", "failed", "announce",
         "forgetId", "forgetKey", "forgetIds", "forgotten", "created"}

Request ==
  [op     : {"none", "start", "next", "end", "delete", "erase", "join", "get",
             "question"},
   step   : Step,
   seen   : Session \cup {Absent},        \* the session found
   ids    : Seq(Questions),               \* questionIds
   target : Questions \cup {None},        \* questionId
   todo   : SUBSET {"update", "clear", "invalidate"}]  \* commands in flight

Idle == [op |-> "none", step |-> "idle", seen |-> Absent, ids |-> <<>>,
         target |-> None, todo |-> {}]

TypeOK ==
  /\ row \in Session \cup {Absent}
  /\ cache \in [{"id", "pk"} -> Session \cup {Absent}]
  /\ ids \in Seq(Questions)
  /\ players \in 0..MaxPlayers
  /\ published \subseteq Event
  /\ was \subseteq Session \cup {Absent}
  /\ req \in [Requests -> Request]
  /\ served \in 0..MaxRequests
  /\ faults \in 0..MaxFaults
  /\ outages \in 0..MaxOutages
  /\ crashes \in 0..MaxCrashes

\* createSession has answered: the host has the game token that every request
\* but join carries, players have the public key.
Init ==
  /\ row = [status |-> "LOBBY", question |-> None]
  /\ cache = [key \in {"id", "pk"} |-> row]
  /\ ids \in Versions
  /\ players = 0
  /\ published = {}
  /\ was = {row}
  /\ req = [r \in Requests |-> Idle]
  /\ served = 0
  /\ faults = 0
  /\ outages = 0
  /\ crashes = 0

\* A PostgreSQL, HTTP or Kafka operation fails; a Valkey command fails.
Fault  == faults < MaxFaults /\ faults' = faults + 1
Outage == outages < MaxOutages /\ outages' = outages + 1

Goto(r, step) == req' = [req EXCEPT ![r].step = step]
Reply(r)      == req' = [req EXCEPT ![r] = Idle]

Publish(type, question) == published' = published \cup {EventOf(type, question)}

Write(value) == row' = value /\ was' = was \cup {value}

\* PostgreSQL commits a write and its reply does not arrive: the handler is
\* rejected as if nothing had happened.
LostReply == RepliesLost /\ Fault

----------------------------------------------------------------------------
(* find and findByPublicKey                                                *)

Begin(r, op) ==
  /\ req[r] = Idle
  /\ served < MaxRequests
  /\ served' = served + 1
  /\ req' = [req EXCEPT ![r].op = op, ![r].step = "find"]
  /\ UNCHANGED <<row, cache, ids, players, published, was, faults, outages,
                 crashes>>

KeyOf(op) == IF op = "join" THEN "pk" ELSE "id"

FindHit(r) ==
  LET copy == cache[KeyOf(req[r].op)]
  IN /\ req[r].step = "find"
     /\ copy # Absent
     /\ req' = [req EXCEPT ![r].seen = copy, ![r].step = "found"]
     /\ UNCHANGED <<row, cache, ids, players, published, was, bounds>>

\* ValkeyRepository.get returns null when it fails.
FindMiss(r) ==
  /\ req[r].step = "find"
  /\ \/ cache[KeyOf(req[r].op)] = Absent /\ UNCHANGED outages
     \/ Outage
  /\ Goto(r, "findRow")
  /\ UNCHANGED <<row, cache, ids, players, published, was, served, faults,
                 crashes>>

\* Without a row the request ends with SESSION_NOT_FOUND; the second find of
\* a delete goes on with null.
FindRow(r) ==
  /\ req[r].step = "findRow"
  /\ \/ row # Absent /\ req' = [req EXCEPT ![r].seen = row, ![r].step = "fill"]
     \/ row = Absent /\ req[r].op # "erase" /\ Reply(r)
     \/ /\ row = Absent
        /\ req[r].op = "erase"
        /\ req' = [req EXCEPT ![r].seen = Absent, ![r].step = "found"]
  /\ UNCHANGED <<row, cache, ids, players, published, was, bounds>>

\* ValkeyRepository.set swallows its failure.
FindFill(r) ==
  /\ req[r].step = "fill"
  /\ Goto(r, "found")
  /\ \/ /\ cache' = [cache EXCEPT ![KeyOf(req[r].op)] = req[r].seen]
        /\ UNCHANGED outages
     \/ Outage /\ UNCHANGED cache
  /\ UNCHANGED <<row, ids, players, published, was, served, faults, crashes>>

\* Mutant: session:pk:<public key> is set without a time to live.
ExpireId(key) ==
  /\ key = "id"
  /\ cache[key] # Absent
  /\ cache' = [cache EXCEPT ![key] = Absent]
  /\ UNCHANGED <<row, ids, players, published, was, req, bounds>>

\* The keys are set for an hour.
Expire(key) ==
  /\ cache[key] # Absent
  /\ cache' = [cache EXCEPT ![key] = Absent]
  /\ UNCHANGED <<row, ids, players, published, was, req, bounds>>

ExpireIds ==
  /\ ids # <<>>
  /\ ids' = <<>>
  /\ UNCHANGED <<row, cache, players, published, was, req, bounds>>

\* get of a session without a question has its answer, and so has question
\* when it needs no list; start, next and join refuse on the status they saw.
Answer(r) ==
  /\ req[r].step = "found"
  /\ \/ req[r].op = "get" /\ req[r].seen.question = None
     \/ req[r].op = "question"
     \/ req[r].op \in {"start", "join"} /\ req[r].seen.status # "LOBBY"
     \/ req[r].op = "next" /\ req[r].seen.status # "QUESTION_ACTIVE"
  /\ Reply(r)
  /\ UNCHANGED <<row, cache, ids, players, published, was, bounds>>

\* A rejected database, HTTP or Kafka promise ends the request.
Fail(r) ==
  /\ \/ req[r].step \in {"findRow", "quiz", "announce", "created", "forgotten"}
     \/ req[r].step = "found" /\ req[r].op \in {"start", "join", "erase"}
     \/ req[r].step = "save" /\ req[r].todo = {}
  /\ Fault
  /\ Reply(r)
  /\ UNCHANGED <<row, cache, ids, players, published, was, served, outages,
                 crashes>>

----------------------------------------------------------------------------
(* The question to go to                                                   *)

IndexIn(list, q) == CHOOSE i \in DOMAIN list : list[i] = q
Has(list, q) == \E i \in DOMAIN list : list[i] = q

\* Mutant: the index for the id.
NextIndex(list, q) == IF Has(list, q) THEN IndexIn(list, q) + 1 ELSE 1

\* questionIds[currentIndex + 1], where indexOf gives -1 for a question that
\* is not in the list and an index past the end gives undefined.
Successor(list, q) ==
  LET index == IF Has(list, q) THEN IndexIn(list, q) ELSE 0
  IN IF index < Len(list) THEN list[index + 1] ELSE None

\* The request once it has a list: getCurrentQuestion is done; nextQuestion
\* refuses when the current question is not in the list, and asks for a fresh
\* one when it is the last.
WithIds(request, list) ==
  LET q == request.seen.question
      at(step, target, todo) ==
        [request EXCEPT !.ids = list, !.step = step, !.target = target,
                        !.todo = todo]
  IN CASE request.op = "start" -> at("save", list[1], {"update", "clear"})
       [] request.op = "question" \/ (request.op = "next" /\ ~ Has(list, q)) ->
            Idle
       [] request.op = "next" /\ Has(list, q) /\ list[Len(list)] = q ->
            at("fresh", None, {})
       [] OTHER -> at("save", Successor(list, q), {"update", "clear"})

\* getSession goes on with getCurrentQuestion, which finds the session again.
GetQuestion(r) ==
  /\ req[r].step = "found"
  /\ req[r].op = "get"
  /\ req[r].seen.question # None
  /\ req' = [req EXCEPT ![r] = [Idle EXCEPT !.op = "question",
                                           !.step = "find"]]
  /\ UNCHANGED <<row, cache, ids, players, published, was, bounds>>

\* The whole quiz: start always asks for it, getCurrentQuestion when the
\* question is not cached.
FullQuiz(r) ==
  /\ req[r].step = "found"
  /\ \/ req[r].op = "start" /\ req[r].seen.status = "LOBBY"
     \/ req[r].op = "question" /\ req[r].seen.question # None
  /\ \E list \in Versions :
       req' = [req EXCEPT ![r].ids = list, ![r].step = "keepIds"]
  /\ UNCHANGED <<row, cache, ids, players, published, was, bounds>>

NextIds(r) ==
  /\ req[r].step = "found"
  /\ req[r].op = "next"
  /\ req[r].seen.status = "QUESTION_ACTIVE"
  /\ \/ /\ ids # <<>>
        /\ req' = [req EXCEPT ![r] = WithIds(@, ids)]
        /\ UNCHANGED outages
     \/ /\ \/ ids = <<>> /\ UNCHANGED outages
           \/ Outage
        /\ Goto(r, "quiz")
  /\ UNCHANGED <<row, cache, ids, players, published, was, served, faults,
                 crashes>>

NextQuiz(r) ==
  /\ req[r].step = "quiz"
  /\ \E list \in Versions :
       req' = [req EXCEPT ![r].ids = list, ![r].step = "keepIds"]
  /\ UNCHANGED <<row, cache, ids, players, published, was, bounds>>

KeepIds(r) ==
  /\ req[r].step = "keepIds"
  /\ req' = [req EXCEPT ![r] = WithIds(@, @.ids)]
  /\ \/ ids' = req[r].ids /\ UNCHANGED outages
     \/ Outage /\ UNCHANGED ids
  /\ UNCHANGED <<row, cache, players, published, was, served, faults,
                 crashes>>

\* After the last question: a longer list goes on, anything else (a failed
\* call included) ends the session.
NextFresh(r) ==
  /\ req[r].step = "fresh"
  /\ \/ \E list \in Versions :
          /\ Len(list) > Len(req[r].ids)
          /\ req' = [req EXCEPT
               ![r].ids = list,
               ![r].target = Successor(list, req[r].seen.question),
               ![r].step = "keepFresh"]
     \/ req' = [req EXCEPT ![r] = [Idle EXCEPT !.op = "end", !.step = "find"]]
  /\ UNCHANGED <<row, cache, ids, players, published, was, bounds>>

KeepFresh(r) ==
  /\ req[r].step = "keepFresh"
  /\ req' = [req EXCEPT ![r].step = "save", ![r].todo = {"update", "clear"}]
  /\ \/ ids' = req[r].ids /\ UNCHANGED outages
     \/ Outage /\ UNCHANGED ids
  /\ UNCHANGED <<row, cache, players, published, was, served, faults,
                 crashes>>

----------------------------------------------------------------------------
(* Writing the row.  start and next update it and clear the buzzer queue   *)
(* in parallel: when one is rejected the request fails, and the other one  *)
(* still runs.                                                             *)

EndSave(r) ==
  /\ req[r].step = "found"
  /\ req[r].op = "end"
  /\ req' = [req EXCEPT ![r].step = "save", ![r].todo = {"update"}]
  /\ UNCHANGED <<row, cache, ids, players, published, was, bounds>>

\* Mutant: an undefined question id is written as null.
UpdatedToNull(request) ==
  [status   |-> IF request.op = "end" THEN "FINISHED" ELSE "QUESTION_ACTIVE",
   question |-> request.target]

\* An undefined question id leaves its column alone.
Updated(request) ==
  [status   |-> IF request.op = "end" THEN "FINISHED" ELSE "QUESTION_ACTIVE",
   question |-> IF request.target = None THEN row.question
                ELSE request.target]

\* Mutant: Promise.allSettled, a failed update is not noticed.
UpdateRowSettled(r) ==
  /\ "update" \in req[r].todo
  /\ \/ /\ req' = [req EXCEPT ![r].todo = (@ \ {"update"}) \cup {"invalidate"}]
        /\ Write(Updated(req[r]))
        /\ UNCHANGED faults
     \/ /\ Fault
        /\ req' = [req EXCEPT ![r].todo = @ \ {"update"}]
        /\ UNCHANGED <<row, was>>
  /\ UNCHANGED <<cache, ids, players, published, served, outages, crashes>>

\* The update of a deleted row has no effect.
Commit(request) ==
  IF row = Absent THEN UNCHANGED <<row, was>> ELSE Write(Updated(request))

\* The copy is invalidated after an update that returns: one that is rejected,
\* committed or not, leaves the copy as it is.
UpdateRow(r) ==
  /\ "update" \in req[r].todo
  /\ \/ /\ req' = [req EXCEPT ![r].todo = (@ \ {"update"}) \cup {"invalidate"}]
        /\ Commit(req[r])
        /\ UNCHANGED faults
     \/ /\ req' = [req EXCEPT ![r].todo = @ \ {"update"}, ![r].step = "failed"]
        /\ \/ Fault /\ UNCHANGED <<row, was>>
           \/ LostReply /\ Commit(req[r])
  /\ UNCHANGED <<cache, ids, players, published, served, outages, crashes>>

\* Mutant: the copy is replaced by what the request believes it wrote.
WriteThrough(r) ==
  /\ "invalidate" \in req[r].todo
  /\ req' = [req EXCEPT ![r].todo = @ \ {"invalidate"}]
  /\ cache' = [cache EXCEPT !["id"] = Updated(req[r])]
  /\ UNCHANGED <<row, ids, players, published, was, bounds>>

\* Mutant: the other copy is invalidated.
InvalidateKey(r) ==
  /\ "invalidate" \in req[r].todo
  /\ req' = [req EXCEPT ![r].todo = @ \ {"invalidate"}]
  /\ cache' = [cache EXCEPT !["pk"] = Absent]
  /\ UNCHANGED <<row, ids, players, published, was, bounds>>

\* ValkeyRepository.del swallows its failure.  Only session:<id> is deleted:
\* the update carries no public key.
Invalidate(r) ==
  /\ "invalidate" \in req[r].todo
  /\ req' = [req EXCEPT ![r].todo = @ \ {"invalidate"}]
  /\ \/ cache' = [cache EXCEPT !["id"] = Absent] /\ UNCHANGED outages
     \/ Outage /\ UNCHANGED cache
  /\ UNCHANGED <<row, ids, players, published, was, served, faults, crashes>>

\* BuzzerRepository.clear does not swallow its failure.
ClearQueue(r) ==
  /\ "clear" \in req[r].todo
  /\ \/ req' = [req EXCEPT ![r].todo = @ \ {"clear"}] /\ UNCHANGED outages
     \/ /\ Outage
        /\ req' = [req EXCEPT ![r].todo = @ \ {"clear"}, ![r].step = "failed"]
  /\ UNCHANGED <<row, cache, ids, players, published, was, served, faults,
                 crashes>>

Rejected(r) ==
  /\ req[r].step = "failed"
  /\ req[r].todo = {}
  /\ Reply(r)
  /\ UNCHANGED <<row, cache, ids, players, published, was, bounds>>

PublishStarted(r) ==
  /\ req[r].step = "save"
  /\ req[r].op = "start"
  /\ req[r].todo = {}
  /\ Publish("SESSION_STARTED", None)
  /\ Goto(r, "announce")
  /\ UNCHANGED <<row, cache, ids, players, was, bounds>>

PublishNext(r) ==
  /\ \/ req[r].step = "announce"
     \/ req[r].step = "save" /\ req[r].op = "next" /\ req[r].todo = {}
  /\ Publish("SESSION_NEXT_QUESTION", req[r].target)
  /\ Reply(r)
  /\ UNCHANGED <<row, cache, ids, players, was, bounds>>

PublishEnded(r) ==
  /\ req[r].step = "save"
  /\ req[r].op = "end"
  /\ req[r].todo = {}
  /\ Publish("SESSION_ENDED", None)
  /\ Reply(r)
  /\ UNCHANGED <<row, cache, ids, players, was, bounds>>

----------------------------------------------------------------------------
(* joinSession and deleteSession                                           *)

\* The foreign key refuses a participant of a deleted session.
JoinCreate(r) ==
  /\ req[r].step = "found"
  /\ req[r].op = "join"
  /\ req[r].seen.status = "LOBBY"
  /\ players < MaxPlayers
  /\ IF row = Absent
     THEN Reply(r) /\ UNCHANGED players
     ELSE Goto(r, "created") /\ players' = players + 1
  /\ UNCHANGED <<row, cache, ids, published, was, bounds>>

PublishJoined(r) ==
  /\ req[r].step = "created"
  /\ Publish("PARTICIPANT_JOINED", None)
  /\ Reply(r)
  /\ UNCHANGED <<row, cache, ids, players, was, bounds>>

\* Deletes the participants it finds, which may be a stale list of them; the
\* repository then finds the session again for its public key.
DeletePlayers(r) ==
  /\ req[r].step = "found"
  /\ req[r].op = "delete"
  /\ players' \in 0..players
  /\ \/ /\ req' = [req EXCEPT ![r] = [Idle EXCEPT !.op = "erase",
                                                 !.step = "find"]]
        /\ UNCHANGED faults
     \/ Fault /\ Reply(r)
  /\ UNCHANGED <<row, cache, ids, published, was, served, outages, crashes>>

\* The remaining participants go with the row (ON DELETE CASCADE); the copies
\* stay when the reply is lost.
DeleteRow(r) ==
  /\ req[r].step = "found"
  /\ req[r].op = "erase"
  /\ Write(Absent)
  /\ players' = 0
  /\ \/ Goto(r, "forgetId") /\ UNCHANGED faults
     \/ LostReply /\ Reply(r)
  /\ UNCHANGED <<cache, ids, published, served, outages, crashes>>

ForgetId(r) ==
  /\ req[r].step = "forgetId"
  /\ Goto(r, IF req[r].seen = Absent THEN "forgetIds" ELSE "forgetKey")
  /\ \/ cache' = [cache EXCEPT !["id"] = Absent] /\ UNCHANGED outages
     \/ Outage /\ UNCHANGED cache
  /\ UNCHANGED <<row, ids, players, published, was, served, faults, crashes>>

ForgetKey(r) ==
  /\ req[r].step = "forgetKey"
  /\ Goto(r, "forgetIds")
  /\ \/ cache' = [cache EXCEPT !["pk"] = Absent] /\ UNCHANGED outages
     \/ Outage /\ UNCHANGED cache
  /\ UNCHANGED <<row, ids, players, published, was, served, faults, crashes>>

ForgetIds(r) ==
  /\ req[r].step = "forgetIds"
  /\ Goto(r, "forgotten")
  /\ \/ ids' = <<>> /\ UNCHANGED outages
     \/ Outage /\ UNCHANGED ids
  /\ UNCHANGED <<row, cache, players, published, was, served, faults,
                 crashes>>

PublishDeleted(r) ==
  /\ req[r].step = "forgotten"
  /\ Publish("SESSION_DELETED", None)
  /\ Reply(r)
  /\ UNCHANGED <<row, cache, ids, players, was, bounds>>

----------------------------------------------------------------------------
\* The process dies: requests in flight are gone, Valkey and PostgreSQL stay.
Crash ==
  /\ crashes < MaxCrashes
  /\ crashes' = crashes + 1
  /\ req' = [r \in Requests |-> Idle]
  /\ UNCHANGED <<row, cache, ids, players, published, was, served, faults,
                 outages>>

Find(r) == FindHit(r) \/ FindMiss(r) \/ FindRow(r) \/ FindFill(r)

Choose(r) ==
  GetQuestion(r) \/ FullQuiz(r) \/ NextIds(r) \/ NextQuiz(r) \/ KeepIds(r)
    \/ NextFresh(r) \/ KeepFresh(r) \/ EndSave(r)

Save(r) == UpdateRow(r) \/ Invalidate(r) \/ ClearQueue(r) \/ Rejected(r)

Delete(r) ==
  DeletePlayers(r) \/ DeleteRow(r) \/ ForgetId(r) \/ ForgetKey(r)
    \/ ForgetIds(r) \/ PublishDeleted(r)

Tell(r) ==
  Answer(r) \/ PublishStarted(r) \/ PublishNext(r) \/ PublishEnded(r)
    \/ JoinCreate(r) \/ PublishJoined(r)

Advance(r) == Find(r) \/ Choose(r) \/ Save(r) \/ Delete(r) \/ Tell(r)

Next ==
  \/ \E r \in Requests :
       \/ \E op \in Operations : Begin(r, op)
       \/ Advance(r)
       \/ Fail(r)
  \/ \E key \in {"id", "pk"} : Expire(key)
  \/ ExpireIds
  \/ Crash

Spec == Init /\ [][Next]_vars

\* The event loop runs a request to its end, and Valkey drops a key when its
\* hour is over; nobody has to ask for anything.
Fairness ==
  /\ \A r \in Requests : WF_vars(Advance(r))
  /\ \A key \in {"id", "pk"} : WF_vars(Expire(key))

FairSpec == Spec /\ Fairness

----------------------------------------------------------------------------
(* Safety                                                                  *)

\* Wherever a session is QUESTION_ACTIVE - in its row, in a copy, in what a
\* request has seen - it has a current question: submitResponse's check for
\* an active session without one never fires.
HasQuestion(session) ==
  session.status = "QUESTION_ACTIVE" => session.question # None

ActiveHasQuestion ==
  /\ HasQuestion(row)
  /\ \A key \in {"id", "pk"} : HasQuestion(cache[key])
  /\ \A r \in Requests : HasQuestion(req[r].seen)

\* A copy may be stale but is never invented: it, and what a request goes by,
\* is a value the row has had.
CopiesAreFromRow ==
  /\ \A key \in {"id", "pk"} : cache[key] \in was \cup {Absent}
  /\ \A r \in Requests : req[r].seen \in was \cup {Absent}

\* Nothing is announced that did not happen: the event of a change follows
\* the change of the row, whatever failed, was retried or ran beside it.
\* (The update of a deleted row changes nothing, hence the deletions.)
HadStatus(status) == \E value \in was : value.status = status
EventsFollowRow ==
  \A e \in published :
    \/ Absent \in was
    \/ e.type = "PARTICIPANT_JOINED"
    \/ e.type = "SESSION_STARTED" /\ HadStatus("QUESTION_ACTIVE")
    \/ e.type = "SESSION_ENDED" /\ HadStatus("FINISHED")
    \/ /\ e.type = "SESSION_NEXT_QUESTION"
       /\ \/ e.question = None
          \/ [status |-> "QUESTION_ACTIVE", question |-> e.question] \in was

----------------------------------------------------------------------------
(* The inductive invariant behind them                                     *)

\* The row is the last of its values, each with a question when it is active,
\* and a question once set is lost only with the row.
RowHistory(values) ==
  /\ row \in values
  /\ \A value \in values : HasQuestion(value)
  /\ \A value \in values :
       value.question # None => row = Absent \/ row.question # None

\* Where a handler is says what it serves; a start has a question to go to,
\* and a next goes by an active session.
StepFits(request) ==
  /\ request.step = "announce" => request.op = "start"
  /\ request.step = "keepIds" =>
       request.op \in {"start", "next", "question"} /\ request.ids # <<>>
  /\ request.step \in {"quiz", "fresh", "keepFresh"} => request.op = "next"
  /\ request.step \in {"save", "failed"} =>
       request.op \in {"start", "next", "end"}
  /\ request.todo # {} => request.step \in {"save", "failed"}
  /\ request.op = "start" /\ request.step \in {"save", "failed", "announce"}
       => request.target # None
  /\ request.op = "next"
       /\ request.step \in {"quiz", "keepIds", "fresh", "keepFresh", "save",
                            "failed"}
       => request.seen.status = "QUESTION_ACTIVE"

\* The change a request is about to announce has happened to the row.
Happened(request, values) ==
  \/ Absent \in values
  \/ /\ request.op = "end"
     /\ \E value \in values : value.status = "FINISHED"
  \/ /\ request.op \in {"start", "next"}
     /\ \E value \in values : value.status = "QUESTION_ACTIVE"
     /\ \/ request.target = None
        \/ [status |-> "QUESTION_ACTIVE", question |-> request.target]
              \in values

\* After deleting the row.
Forgetting == {"forgetId", "forgetKey", "forgetIds", "forgotten"}

RequestOK(request, values) ==
  /\ StepFits(request)
  /\ request.seen \in values \cup {Absent}
  /\ request.step \in Forgetting => Absent \in values
  /\ request.step = "announce"
       \/ (request.step = "save" /\ "update" \notin request.todo)
       => Happened(request, values)

LifecycleInv ==
  /\ RowHistory(was)
  /\ \A key \in {"id", "pk"} : cache[key] \in was \cup {Absent}
  /\ \A r \in Requests : RequestOK(req[r], was)
  /\ EventsFollowRow

----------------------------------------------------------------------------
\* Served one at a time by a process that does not crash, over a Valkey that
\* does not fail and a PostgreSQL whose replies arrive (RepliesLost is FALSE),
\* the requests keep the promise of Session, whichever of their operations are
\* refused: every update invalidates the copy the next one reads.  (A lost
\* reply skips the invalidation: next then goes by the copy from before an end
\* that was committed, and the finished session is active again.)
Promise == INSTANCE Session WITH status <- row.status, question <- row.question
KeepsPromise == Promise!Spec

\* Why the promise is kept.  While no invalidation is pending the copy under
\* the id is the row; so a request decides on the row itself and nothing moves
\* the row before its update, and the question it goes to is the first one or
\* the successor of the current one in some version of the quiz.
Deciding == {"fill", "found", "quiz", "keepIds", "fresh", "keepFresh"}

Follows(target, q) ==
  \E list \in Versions :
    \/ \E i \in 1..(Len(list) - 1) : list[i] = q /\ target = list[i + 1]
    \/ ~ Has(list, q) /\ target = list[1]

GoesBy(request, current) ==
  /\ request.op # "join"
       /\ (request.step \in Deciding \/ "update" \in request.todo)
       => request.seen = current
  /\ request.step \in {"keepIds", "keepFresh"} => request.ids \in Versions
  /\ request.op = "end" => request.target = None
  /\ request.op = "start"
       /\ (request.step = "keepIds" \/ "update" \in request.todo)
       => request.seen.status = "LOBBY"
  /\ request.op = "start" /\ "update" \in request.todo
       => \E list \in Versions : request.target = list[1]
  /\ request.op = "next"
       /\ (request.step = "keepFresh" \/ "update" \in request.todo)
       => request.target = None \/ Follows(request.target, request.seen.question)

Invalidating(request) ==
  "invalidate" \in request.todo \/ request.step = "forgetId"

DecidesOnRow ==
  /\ ids \in Versions \cup {<<>>}
  /\ \/ cache["id"] \in {row, Absent}
     \/ \E r \in Requests : Invalidating(req[r])
  /\ \A r \in Requests : GoesBy(req[r], row)

----------------------------------------------------------------------------
(* Liveness                                                                *)

\* Players who join late get in through the stale copy under the public key,
\* which no update invalidates; from some point on they are turned away.
LobbyCloses ==
  row.status # "LOBBY" ~> [](cache["pk"].status # "LOBBY")

=============================================================================
