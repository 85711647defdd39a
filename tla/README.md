# Quiz Master in TLA+

Quiz Master is a multiplayer quiz: a host opens a session for a quiz, players
join it with its public key, questions are shown one after the other, and
players answer, or press a buzzer and have the host judge them.  It is a
monorepo of Node.js services (`src/packages`) that talk over HTTP, Kafka
topics and Valkey (keys and pub/sub), with PostgreSQL tables behind them.  This directory
holds TLA+ models of those services, the TLC configurations that check them
and TLAPS proofs about them.

Every handler of the services is an `async` function: each `await` gives the
event loop to the other handlers.  The models therefore have one action per
stretch of code between two awaits; what a handler remembers across an await
is a field of its record (`submit[r]`, `call[c]`, `req[r]`, ...).

## Inventory

| Part | State | Operations | What is hard |
| --- | --- | --- | --- |
| ms-session, sessions (`session.service.js`, `typeorm-session.repository.js`) | table `sessions`; Valkey `session:<id>`, `session:pk:<key>`, `session:<id>:questions:ids` | create, start, next, end, delete, get | cache-aside copies, requests that overlap, `Promise.all` with a rejected branch, quizzes edited while played |
| ms-session, buzzer (`participant.service.js`, `feed-buzzer.consumer.js`, `buzzer.repository.js`) | topic `FEED_BUZZER_QUEUE`, Valkey list `session:<id>:buzzer_queue`, `...:responded` keys | submitResponse, handleFeed, answerBuzzer | check-then-act across awaits, redelivery, retries, crashes, start-up order |
| ms-session, participants (`participant.service.js`, `typeorm-participant.repository.js`) | table `participants`, cached list | join, leave, find, list | stale lists, leave against join |
| ms-response (`response.service.js`, `response-events.consumer.js`) | table of responses, `processed_events`, cached quiz and current question | handleAnswer, next question, leaderboard | redelivered events, late answers, crash between two saves |
| ws-service (`connection-store.js`, `session-membership.handler.js`, `session-events.consumer.js`) | sockets, lists of participants, capacity and timers, all in memory | connect, join, create, start, leave, disconnect, the events of the topic | grace period against a reconnection, two sockets of one user, close events that come late |
| ms-quizz-management (`quiz.service.js`, `question.service.js`, `choice.service.js`) | three tables and eleven kinds of Valkey copies | CRUD, cached reads | a read overtaken by a write, children created under a deletion, keys that no write drops |
| ms-user (`user.service.js`) | table `users`, Valkey `user:<id>`, `user:all` | register, login, renew, grant, update, delete, read | check-then-insert, whole-row updates, a role signed from a copy, calls the gateway repeats |
| api-gateway (`app.js`, controllers, services) | none | admits a request and calls a service | hooks in a row that each look at another token |
| common | consumer offsets and handlers, Valkey client | used by all | error policy: what is swallowed and what rejects |

Interactions.  The gateway forwards HTTP to the services.  ms-session asks
ms-quizz-management for the question ids of a quiz (`_getQuizWithFallback`),
and publishes `SESSION_*`, `PARTICIPANT_*`, `QUIZZ_RESPONSE_SUBMITTED` and
buzzer events; ms-response consumes the answers and asks ms-session and
ms-quizz-management for what it misses; ws-service consumes the events and
forwards them to sockets.  A buzz goes from submitResponse through Kafka back
to ms-session's own consumer.

What makes each part correct:

* sessions: an active session has a question; events follow what happened to
  the row; copies are old values, never invented ones; a session is started
  once and stays finished;
* buzzer: first come, first queued; nobody twice; nobody lost; whoever is at
  the head has been announced; the host's verdict removes the judged player;
* answers: an answer is counted once; the event is either processed or retried;
* ws: a user who is back within the grace period has not left; one who does
  not come back does not stay listed; a session does not outlive its host;
* quiz copies: a copy that is not what the tables say has an excuse that can be
  named, and a reader sees an edit at the latest when the copy expires;
* accounts: one account for an address; a role lasts until the next one is
  given; a deleted account comes to nothing;
* gateway: one token decides alone, and what is let through is served.

## Modules

| Module | Content |
| --- | --- |
| `BuzzerQueue` | the buzzer of ms-session with its consumer and its host |
| `BuzzerLine` | what the players are promised of the buzzer (abstract) |
| `MCBuzzerQueue` | its instances for TLC |
| `BuzzerQueueProofs` | types, safety invariants and the refinement of `BuzzerLine`, proved |
| `SessionLifecycle` | one session: row, copies, the requests that work on them |
| `Session` | what the host is promised of a session (abstract) |
| `MCSessionLifecycle` | its instances for TLC |
| `SessionLifecycleProofs` | types, safety invariants and the refinement of `Session`, proved |
| `ResponseRecorder` | ms-response: the consumer, handleAnswer, the session's keys |
| `MCResponseRecorder` | its instances for TLC |
| `ResponseRecorderProofs` | types and safety invariants, proved |
| `WsMembership` | ws-service: connections, lists, capacity, grace periods, the topic |
| `MCWsMembership` | its instance for TLC |
| `WsMembershipProofs` | types and safety invariants, proved |
| `QuizCache` | ms-quizz-management: the tables, the copies, the requests over them |
| `MCQuizCache` | its instance for TLC |
| `QuizCacheProofs` | types and what covers a stale copy, proved |
| `Gateway` | the routes, hooks, internal tokens and calls, without variables |
| `GatewayProofs` | which token decides, and that what is let through is served, proved |
| `Accounts` | ms-user behind `Gateway`: accounts, copies, tokens |
| `MCAccounts` | its instance for TLC |
| `AccountsProofs` | types and safety invariants, proved |

### BuzzerQueue

A message is known by its offset, and so is an entry of a list, because the
payload pushed is the message.  `submit[r]` walks through submitResponse
(`SubmitFind` to `SubmitPublish`), `step` through `handleFeed` for the message
at offset `resolved + 1`, and `call[c]` through answerBuzzer.  nextQuestion is
here only what the buzzer sees of it: the row update and the clearing of the
list run in parallel and complete in either order (`AdvanceRow`, `AdvanceClear`).

* `handleFeed` rethrows every failure and throws when the participant is
  queued already; KafkaJS then delivers the same message again.  So a throw
  before the push is no step at all (`FeedCheck` is simply not enabled), and a
  failure after it (`FeedFail`) leaves `resolved` where it is.  A failing
  command may have taken effect: failing after `FeedPush` is a push whose
  reply was lost.
* `DemoLog`: `kafka.plugin.js` starts the consumer with the demo logger,
  `services.plugin.js` replaces it.  Messages logged before are `missed`.
* `Crash` forgets the handlers in flight and resumes at the committed offset,
  or at the end of the topic when there is none (`fromBeginning: false`).
* Histories `pushed`, `missed`, `announced`, `verdicts` are read by the
  properties only.
* `BuzzerLine` is the abstract view: per session, the players who wait (`Waiting`
  maps a queue to them).

### SessionLifecycle

`row` is the row of `sessions`, `cache["id"]` and `cache["pk"]` its two Valkey
copies, `ids` the cached list of question ids.  A request is a record: its
operation, the await it is at (`step`), the session it has `seen`, the list and
target question, and the commands of a `Promise.all` still in flight (`todo`).
Operations are named for what is asked; three more are internal: `erase` is
the second `find` that `TypeOrmSessionRepository.delete` makes, `question` is
getCurrentQuestion, which getSession goes on with, and an `end` may come out
of a `next` after the last question.  An update or deletion that is rejected may
have been committed (`LostReply`, where `RepliesLost` allows it): the handler then goes the way of
its `catch`, and the copy is not invalidated.

`Versions` is the set of question lists ms-quizz-management may answer: the
quiz may be edited between two calls.  `Session` is the abstract view: status
and question, four steps.

### ResponseRecorder

`topic` is `quizz.events`; offsets stand for event ids.  ms-session is there as
far as ms-response sees it: the row of the session (`session`), each request of
its host between the session it has found, the update it makes without looking
again, and the events it then publishes (`host[r]`: `HostStart` to `HostDelete`,
`HostSave`, `HostPublish`), and the choices of a submission still to be published
(`pending`, in any order: `Promise.all`).  Requests of the host overlap, so that
the row may go back to an earlier question; `shown` is the history of the
questions it has had.  Such a request reads the row; one that goes by a stale copy
of it is one that has read the row earlier.  `work[h]` is
the event a handler is at and the await it has reached; the handlers are the
consumer and HTTP requests, which run the same code.  `quizKey`, `current` and
`copy` are the Valkey keys `sessionQuizId:<session>`,
`currentSessionQuestion:<session>` and `quiz:<id>`.

* A handler that throws becomes idle; the consumer is then given the same
  event again (`Deliver` at `resolved + 1`), an HTTP client is told.
* `Recover` leads through handleQuizNotFound (`GetSession`, fetchQuizz,
  `KeepQuiz`, `KeepCurrent`) back to `back`: to the second look at the current
  question, to the look-up of the choice, or to an error, because
  handleQuizNotFound returns the quiz's id where getIsCorrectFromCache expects
  the quiz.
* `copy` is `"plain"` when ms-quizz-management has put its own quiz, without
  questions, under the key both services use.
* `Crash` resumes at the committed offset, or at the end of the topic when
  there is none; what it passes over is `missed`.  Only a restart reads the
  committed offset, so that none is committed after the last one (`CommitOffset`).

### WsMembership

The process is single-threaded and its handlers do not await, so a handler is
one action.  `clients` and `context` are the two maps of `connection-store.js`
(the live socket of a user; user and session of a socket); `listed`, `capacity`
and `departure` are its lists, the sessions' metadata and the one timer a user
may have.  What interleaves is what the event loop is given in any order:

* a replaced socket is told to close (`closing`) and its close event
  (`Disconnect`) comes later, after messages it had still to deliver;
* a connection schedules its join (`joining`, `AutoJoin`) for after its set-up;
* timers (`Expire`), messages (`JoinMessage`, `CreateMessage`, `StartMessage`)
  and the events of `quizz.events` (`OnSessionCreated` to `OnSessionClosed`),
  which `Publish` puts on the topic in an order ms-session can produce;
* `Rewind` delivers events again, `Crash` empties the memory.

`came` and `strayed` are histories the properties read: who has been within a
session since they are listed, and whom the code has lost track of (see the
limits).

### QuizCache

A request is a plan: the list of its awaits and the keys it drops, one
definition per method of the three services, in the order of the code.  A row
is the number of the write that made it what it is, so that a copy is stale
exactly when it differs from what its read would load now (`View`).  No
request reads another copy than its own, and none decides by it what to
write; a behaviour therefore follows one key, chosen in `Init`, and says the
same of all of them as a model with all the copies would.  `excused` is the
history that `StaleIsExcused` reads: it becomes true when a write has overtaken
the fill of the copy, when a command or query failed between a write and the
drop, and for the keys no write drops (`Overlooked`), and false when the copy
goes.

### Gateway and Accounts

`Gateway` has no variables.  Its routes are those the decorators of the
gateway's controllers declare, with the token and the roles each asks for;
`Hooked` and `Admit` are the hooks of `app.js` in their order, each leaving a
context to the next.  A url that ends with `/metrics` passes the first two hooks by,
and so the account's tokens (`metrics` in `Headers`; the query belongs to the url); `CallOf` is the call the gateway's service makes, and
`ServiceRoutes` what the services' controllers declare, with the fields of the
internal token their handlers read.

`Accounts` sends requests through it: `Send` chooses any route of the user
service, lets `Admit` decide with the tokens the owner holds, and starts the
operation behind it, which the later actions take await by await (`Awaits`
lists them in the code's order).  `tokens[u]` are those the owner of u
holds and that have not expired; the role is inside.  `granted`, `late`, `lost`
and `missed` are histories for the properties.  An update names an address, a
role, both or neither, its owner's as well as an administrator's, because either
forwards the whole body.  A write that fails may have been committed
(`LoseWrite`), and skips the drops of the copies.  The gateway's `axios` repeats a
call whose connection broke, whatever it is, and an idempotent one that ended
with 500 (`Again`).

### Abstractions

* Data: questions are ids, players of a session a number, events a type and a
  question.  `activatedAt`, headers, tokens and names are left out.
* `question:*` copies in Valkey and the HTTP fallback used when Kafka is
  disabled are left out; so is the time to live of `...:responded` keys.
* The buzzer reads the current question directly, not through its copy
  (SessionLifecycle has the copies).
* KafkaJS gives up after its retries and restarts the consumer: taken as going
  on retrying, since the offset is not resolved in either case.
* A command of PostgreSQL, HTTP or Kafka that fails ends the request as the
  code's `catch` says; Valkey's `get`, `set`, `del` swallow their failures
  (`Outage` with no effect), the buzzer repository's do not.
* ms-response asks ms-session for the session as its row has it, not through
  its copies.  `sessionQuestionTypes` and the leaderboard, which only read, are
  left out; the correctness of a choice is part of the choice.
* PARTICIPANT_LEFT of a leaving host (controller of ms-session) is left out.
* ws-service: nicknames, roles in the lists, chat and what is broadcast to whom
  are left out; so is the countdown of a question.  Players come with the
  session of their game token, hosts with any of theirs or with none.
* Accounts: passwords are right or wrong; the owner of an account has one
  request at a time (two of different owners overlap), and sends it to the url the
  gateway documents; a publication is one
  step with the reply; a call that times out at the gateway is over, although
  the service may still be at it; who registers has one account.
* Gateway: a token that verifies is one that was signed; cookies, the body and
  its validation, the login limit and the helper routes are left out.

## Runs

Deadlock is not checked: hosts, players and clients need not do anything, and
the bounds let the models stop.

| Run | Shows |
| --- | --- |
| `buzzer_safety` | types; queues in the order of the topic until a crash; nobody queued twice, no buzz passed over, only queued players announced; nobody judged before their turn; implements `BuzzerLine`; the inductive invariant; with a failure, a crash and redeliveries |
| `buzzer_liveness` | every buzz is dealt with, in two sessions sharing the topic |
| `session_safety` | types, active sessions have a question, copies are from the row, events follow the row, the inductive invariant |
| `session_one_by_one` | one request at a time, no reply of the database lost: decides on the row as it is, implements `Session` |
| `session_liveness` | late players are turned away from some point on |
| `response_safety` | types; one row per participant and question from the topic; rows keep to their question when answers come late; no answer or verdict left behind without a row; with a failure, an expired key, a crash and redeliveries |
| `response_overlap` | rows keep to their question and the current question is one the session has had, while two requests of the host overlap, the row goes back, and an HTTP request overlaps the consumer |
| `ws_grace` | types; no timer runs for a user who is back; nobody who has gone stays listed; nobody who is connected loses their place; a session its host has left is given up |
| `quiz_cache` | types; a stale copy has an excuse; a row that was deleted goes from every copy for good, whatever reads go on |
| `accounts` | types; one account for an address; copies current or excused; roles as last named; one token decides alone; what is admitted is served; a deleted account loses its tokens |
| `response_liveness` | every event of a one-question session is dealt with, although Valkey loses keys and commands |

One run ends with a counterexample, against what the documentation says
(PROJECT.json quotes it):

| Run | Shows |
| --- | --- |
| `response_counted_twice` | a verdict whose entry in `processed_events` could not be saved gets a second row |

Limits the properties keep clear of, and why.  These are behaviours of the code
that the models contain and no property claims away:

* the head of a buzzer queue may have been announced by nobody: the consumer
  looks at the list, the host pops its last entry, the consumer pushes
  (`feed-buzzer.consumer.js:59`; lines 79 there and 526 of
  `participant.service.js` log that one of the two has announced it);
* two overlapping wrong answers for the same player pop the one behind as well,
  whom nobody judged (`participant.service.js:511`, although 481-486 refuse any
  other than the head); `JudgedInOrder` is what is left: who is judged has
  nobody waiting before them;
* a player may join a session that has started, through the copy under its
  public key, which no update invalidates (`typeorm-session.repository.js:60`,
  although joinSession refuses any status but LOBBY); `LobbyCloses` says that
  this ends;
* buzzes that reach the consumer before `services.plugin` has registered the
  feed handler are logged and lost (`missed`);
* two overlapping submissions of one player are both published;
* a `next` that overlaps an `end` reopens a finished session, and one that
  overlaps others puts the row back to an earlier question than Valkey's current
  one (`session.service.js:447-552`), so `session_one_by_one` is about requests one
  at a time, and `NeverAhead` about the questions the row has had;
* an update that PostgreSQL commits and whose reply is lost is rejected before the
  invalidation (`typeorm-session.repository.js:58-59`): the copy under the id stays,
  and a later request goes by it, although none overlaps it and Valkey is up.  After
  such an `end`, a `next` reopens the session.  `session_one_by_one` and its
  theorems leave that reply out (`RepliesLost`), `session_safety` and `session_liveness` have it;
* when clearing the buzzer queue is rejected, or the reply of the update is lost,
  startSession leaves the session active and unannounced;
* an event ms-response rejects is retried for ever and holds up its partition:
  an answer that arrives after the next question was announced
  (CHOICE_NOT_FOUND), the second choice of one submission, an answer whose row
  was saved before a crash or a failed save of the entry (ALREADY_ANSWERED).
  `response_liveness` therefore has one question, one choice and no crash;
* ws-service keeps one timer for a user: who goes from one session to another
  while the first one's timer runs, or is refused by a session they were
  listed in, may stay listed in it (`strayed`, `connection-store.js:259`,
  `session-membership.handler.js:42`); a SESSION_CREATED that is delivered
  again forgets that the session has started; after a restart no session is
  known until its events come again;
* the capacity of a ws session is checked against the sockets that are
  connected, the joiner's own included when a connection brought it;
* no write drops `quiz:ids:*` and `quiz:answers:*`, and those of a quiz do not
  drop `quiz:full:*`; what is created under a quiz between the reading of its
  children and its deletion keeps its copies; these, and copies stored by a
  read that was overtaken, last for the time to live;
* an update of an account writes the role it has read, over one granted
  meanwhile (`lost`); and it sets the role its body names, the owner's own update
  included (`user.entity.js:37-39`; neither schema forbids further properties), so
  that `GrantHolds` says that roles are kept, not who may name them;
* a url that ends with `/metrics`, be it in the query, passes the hooks of the
  account's tokens by (`access-token.hook.js:11-20`, `refresh-token.hook.js`): a
  game token then opens routes that ask for an account (`Deciding`), though none of
  an administrator's, and five of them go on without an account (`OwnerRoutes`),
  which their handlers read.  `CredentialDecides` and `AdmittedIsServed` say that
  these are the only exceptions; what a handler makes of a request without an
  account is not modelled;
* a deleted or demoted account renews its tokens with the old role for as long
  as a copy of it lives; tokens that were signed are good until they expire;
* a game token that has expired makes a request fail on routes that do not ask
  for one;
* an HTTP answer and the consumer may both save a row for one participant and
  question: `AnsweredOnce` is about the rows of the topic.

Bounds.  BuzzerQueue: two players, one submission and one answer in flight, two
questions, two messages, one failure, one crash.  Two players are what it takes
for an order and a head of the line, two messages for one who buzzes again;
handlers of the host that overlap one another are left to the proofs, which have any
number of them.  SessionLifecycle: two requests in flight out of three, which
gives every overlap of two and a third request on what they left; three
questions and quizzes that shrink, grow or lose the current question; one
failure of each kind, of which one may be a reply lost after the commit.  One at a
time, six requests see a whole game.

ResponseRecorder: one player is enough for what one session's answers can
suffer, since rows of two players meet only in the look-up by participant; two
questions, so that an answer can be late; six events, a whole game up to a
verdict; one failure, one crash, one expired key, each of which can fall at any
await.  The overlap has two requests of the host, which start, advance or delete
the session, and one of HTTP, of any kind, beside the consumer, over four events:
enough for the row to be put back behind the current question, and for a key to be
recovered from it, while either handler is at any await.  Failures, expiry and
restarts are in `response_safety`, with one request of the host at a time; the
proofs have them together, for any number of requests.

WsMembership: two sockets, so that a user may be on an old and a new one, or a
player and the host may be there at the same time; one session with its host
and a player (`SessionsOf` gives a host as many as the constants say); three
events of any kind in any order ms-session can publish them; one rewind or
restart.  QuizCache: a quiz, a question and a choice, each there from the start
or to be created, which is every depth of the cascade; two requests in flight,
any number of reads and two writes, so that a write can overtake a read or
another write; each of the eleven kinds of key; one failure.  Accounts: an
administrator and a user, two addresses, so that one can be asked for twice; two
requests beside the user's renewals, which are not bounded; `ADMIN` as the role
that is given or named, which differs from the one the user starts with; one
failure, lost reply or restart; one repeated call (the code's three begin all
over each time).

Fairness.  The event loop runs a handler to its end and the Kafka client keeps
delivering (weak fairness of the consumer and of each request); the host keeps
judging whoever is at the head (without it, the handler may reject a second
buzz of a queued player for ever); Valkey drops a key when its time to live is
over (in ResponseRecorder, the quiz without questions; in QuizCache and Accounts,
any copy; that alone rids no key of a deleted row, since reads go on filling it).
In ws-service timers fire, a scheduled join runs, and a socket
that was told to close does.  Tokens expire at their time.  Nobody must buzz, advance, send, connect or fail.

## Proofs

`BuzzerQueueProofs` proves, for any sets of sessions, players and handlers and
any bounds, from `SessionOfType` and `BoundsType` alone:
`TypeCorrect` (`[]TypeOK`), `BuzzerSafety` (`[]BuzzerInv`) and from it
`NeverQueuedTwice`, `QueuedInOrder`, `NothingSkipped`, `AnnouncedQueued`.
`NoDuplicateBuzzer` is not inductive: hasBuzzed and the push are two steps.
`CheckStillHolds` says that what the check found is still so at the push,
because only this consumer adds to a list and it handles one message at a
time; `QueueFromTopic` ties entries to the topic, and says that without a
crash none is ahead of the message being handled, from which `BuzzOrder`
follows at the push.

`JudgedInTurn` (`JudgedInOrder`) holds for any number of overlapping handlers:
whom the host finds is the head of an ordered queue, and what is pushed later is
not ahead of what has been handled.  `TurnsOK` is its strengthening; a queue
holds buzzes of its own session only (`InOwnLine`), and what was judged is of the
topic and not ahead of the consumer (`JudgedInTopic`).  `OneLine` is the
refinement of `BuzzerLine`, crashes included: the push of the consumer is a
player who presses and is not in the line (`PushIsPress`, from
`CheckStillHolds`), a pop moves the line on, a clear sends it off, and a message that is
published leaves all lines alone.

`SessionLifecycleProofs` proves `LifecycleTypes`, `LifecycleInvariant` and
from it `CopiesFromRow`, `ActiveQuestion` and `AnnouncedAfterSaved`, for any
requests, questions and versions.  The strengthening relates each request to
the history of the row: what it has seen was once there, its step fits its
operation (`StepFits`: a start has a question to go to, a next goes by an
active session) and, past the update, the change it is about to announce has
happened (`Happened`).  `RowHistory` says that a question once set is lost only
with the row, so that writing status without question is harmless.

`OneByOne` is the refinement of `Session`, for any quiz and any edit of it, when
there is one handler, neither Valkey nor the process fails, and no reply of
PostgreSQL is lost after the commit (`Serial`).  Each of the four is needed: an
overlapping `next` reopens a finished session, and an update whose invalidation
fails, is cut off by a crash or is skipped for the lost reply leaves a copy that
the next request goes by.  Its inductive invariant is `DecidesOnRow`
(`SerialDecisions`): while no invalidation is pending the copy under the id is the
row or is not there, so a request that has still to decide or to update has seen the
row as it is, and the question it goes to is the first one of a version of the
quiz or follows the current one.  The update is then a step of `Session`
(`UpdatePromised`), and so is the deletion; no other step changes the row.

`ResponseRecorderProofs` proves `TypeCorrect`, `OneRowPerAnswer`, `NoneLost`,
`RightlyJudged` and `NotAhead`, for any players, quiz, overlapping requests,
failures and restarts.  None of the four properties is inductive, because a
handler decides at one await and writes at another.  `StepOK` says which event
a handler at a given await has, and `ConsumerOK` what the consumer knows of its
event: it is the one at the committed offset, no row of the player and the
question has been added since it looked (`Looked`; a handler of HTTP adds rows
without an offset, and there is one consumer), and by the time the event is
recorded its row is there.  `Upstream` says that the questions announced, published
or still to be published, are among those the row has had (`Shown`, `HostOK`),
however often overlapping requests put it back, from which `NeverAhead` follows at
the write of the key.

`WsMembershipProofs` proves `TypeCorrect`, `ReturnsAreSafe`, `GhostsGo` and
`PlacesKept` for any sessions, users and sockets.  `Good(u)` is what holds of a
user whom the code has not lost track of: live socket, timer, other open sockets
and list speak of one session (`Known`), and a timer for the session the user is within runs only while the
join of the new connection is scheduled.  The four parts need one another: a
close event is judged by the live socket, a join cancels the timer there is,
and one that is expired at or left by a socket is the one the user is listed in.
`PlacesKept` proves the action property from the same invariant, action by
action.  A timer that runs out is for a session its user's live socket is not
within, or is joining; a close event only takes a socket away; a join takes its
user off one list and puts the socket into another session, and who is listed
in a third one has been lost track of, since `Known` holds of the others.

`GatewayProofs` proves `TokenDecides`, for every route, every url and every
combination of tokens without an expired game token; there is no state in it, the proof goes
through the hooks in their order.  `AdmittedServed` goes on from there: what is
let through has a route of a service behind it, and the internal token has the
fields that its handler reads, exactly when the request is not one `WithoutAccount`,
and those of what the handler fetches with the same token.  The proof has one lemma for the routes of each service (which kind of
token a route asks for against what it needs) and one for what a token of
each kind carries (`Carries`); `OwnServed` is the same for the calls the services
make with tokens of their own.  `AccountsProofs` proves `TypeCorrect`,
`UniqueEmails`, `CopiesExcused`, `GrantsHold` and, from it, `CredentialsDecide`,
and `AdmittedAreServed`, for any accounts, addresses and requests.  `Path` keeps the order of a
request's awaits (what follows a read, that a drop follows each write), whatever
the operation; `Unborn` that nothing but its registration knows an account that
is not there; `Copies` and `Roles` are the properties with what requests have
read and have still to drop.

`QuizCacheProofs` proves `TypeCorrect` and `StaleExcused`, for any quizzes,
questions and choices, any requests in flight and all kinds of keys.  `ScopeOf`
names the rows that what is stored under a key depends on: a change of other
rows leaves it alone (`StoredSame`), and of a row in it, the drops of each of the
nine writes meet the key or the write is known to overlook it (`CreationDrops`,
`EditDrops`, `DeletionDrops`).  `StaleIsExcused` is not inductive: a request that
owes a drop may answer 404 first, when the last look finds nothing.  `Covered`
strengthens it with `Surely`: what a request looks for on the way to the drop is
there, and if it is taken away, the deletion changes what is stored under the
same key and drops it itself.  `Attached` are the foreign keys, `Born` and
`Coming` say that nothing knows a row before its one creation, `Once` that a
request changes the tables once.

All proofs rest on the named assumptions of the modules: kinds of ids are apart
from one another and from `None`, `None` is not a token (`TokensAreSomething`),
bounds are natural numbers, an owner is a host (`OwnerOf`), a player has one session
(`HomeOf`).

Only model-checked: liveness (it needs fairness, which TLAPS does not reach):
`EveryBuzzHandled`, `LobbyCloses`, `EveryEventProcessed`, `OwnerlessEnds`, `DeletedGoes` and
`DeletedLosesAccess`.

## Not modelled

* The roster of ms-session: `leaveSession`, the copies `participant:<id>` and
  the cached list.  The list has two readers, getSession, which shows it, and
  deleteSession, whose misses the foreign key of the table makes up for; its
  copies are filled and dropped as those of QuizCache are.  `joinSession` and the
  deletion of participants with their session are in SessionLifecycle.
* The leaderboard and the statistics of ms-response: they read rows and change
  nothing.
* The countdown of a question and the broadcasts of ws-service: they read the
  lists of WsMembership, and no service reads them back.
* A composition of all the services over Kafka: ms-response and ws-service are
  composed with what they see of ms-session instead (`session`, `host` and the
  topic in ResponseRecorder, `Publish` in WsMembership), because the product of
  three services' states is out of TLC's reach.
* A judge in `BuzzerLine` who answers the head and sends it off: two overlapping
  answers pop whom nobody judged (see the limits), so that the code does not
  implement it.
* Shared libraries without state (contracts, errors, logger, metrics), and
  the deployment.
