-------------------------------- MODULE Gateway --------------------------------
(***************************************************************************)
(* What lets a request through: the routes of api-gateway with the token   *)
(* and the roles each one asks for, the hooks that look at them in turn,   *)
(* the internal token they make of them, the call the handler passes on,   *)
(* and what the route of the service behind it wants of that token.        *)
(*                                                                         *)
(* A path is compared without its trailing slash, as the applications do,  *)
(* and the name of its parameter does not matter.                          *)
(***************************************************************************)
EXTENDS FiniteSets

CONSTANTS
  None,       \* no header, no context, no value
  Expired,    \* a header whose token does not verify
  Users, Sessions, Participants

ADMIN     == "admin"
MODERATOR == "moderator"
USER      == "user"
SPECTATOR == "spectator"

UserRole == {ADMIN, MODERATOR, USER, SPECTATOR}
Hosts    == {ADMIN, MODERATOR}
Anybody  == {}     \* a route without Roles

----------------------------------------------------------------------------
(* The tokens.  Access and refresh tokens are of an account, game tokens of *)
(* a participant; ms-session signs those of the host and of who joins.      *)

Nobody == [userId |-> None, sessionId |-> None, participantId |-> None, role |-> None]

AccountToken(u, role) == [Nobody EXCEPT !.userId = u, !.role = role]
GameToken(s, p, role) ==
  [Nobody EXCEPT !.sessionId = s, !.participantId = p, !.role = role]

HostToken(s, p)            == GameToken(s, p, MODERATOR)
JoinToken(s, p, spectator) == GameToken(s, p, IF spectator THEN SPECTATOR ELSE USER)

AccountTokens == {AccountToken(u, r) : u \in Users, r \in UserRole}
GameTokens ==
  {HostToken(s, p) : s \in Sessions, p \in Participants}
  \cup {JoinToken(s, p, b) : s \in Sessions, p \in Participants, b \in BOOLEAN}

ASSUME TokensApart ==
  /\ None # Expired
  /\ {None, Expired} \cap (AccountTokens \cup GameTokens) = {}
  /\ None \notin Users \cup Sessions \cup Participants \cup UserRole

\* What a client may send: tokens it holds, or held, in the headers, and a url
\* that ends with /metrics or /metric, its query included, or does not.
Headers ==
  [access  : AccountTokens \cup {None, Expired},
   refresh : AccountTokens \cup {None, Expired},
   game    : GameTokens \cup {None, Expired},
   metrics : BOOLEAN]

----------------------------------------------------------------------------
(* The routes of the gateway: the handler, the token its decorators ask     *)
(* for, the roles, and the service the handler calls.                       *)

Route(service, handler, token, roles) ==
  [service |-> service, handler |-> handler, token |-> token, roles |-> roles]

ShowResults        == Route("session", "showResults", "game", Hosts)
CreateSession      == Route("session", "createSession", "access", {ADMIN, MODERATOR, USER})
GetSession         == Route("session", "getSession", "game", Anybody)
StartSession       == Route("session", "startSession", "game", Hosts)
EndSession         == Route("session", "endSession", "game", Hosts)
DeleteSession      == Route("session", "deleteSession", "game", Hosts)
NextQuestion       == Route("session", "nextQuestion", "game", Hosts)
JoinSession        == Route("session", "joinSession", "public", Anybody)

\* Mutant: the decorator UseGameToken is missing.
LeaveSessionByAccount == Route("session", "leaveSession", "access", Anybody)

LeaveSession       == Route("session", "leaveSession", "game", Anybody)
GetCurrentQuestion == Route("session", "getCurrentQuestion", "game", Anybody)
SubmitResponse     == Route("session", "submitResponse", "game", Anybody)
AnswerBuzzer       == Route("session", "answerBuzzer", "game", Hosts)

SessionRoutes ==
  {ShowResults, CreateSession, GetSession, StartSession, EndSession, DeleteSession,
   NextQuestion, JoinSession, LeaveSession, GetCurrentQuestion, SubmitResponse,
   AnswerBuzzer}

Register         == Route("user", "register", "public", Anybody)
Login            == Route("user", "login", "public", Anybody)
RefreshToken     == Route("user", "refreshToken", "refresh", Anybody)
GrantPermissions == Route("user", "grantPermissions", "access", {ADMIN})
FindAll          == Route("user", "findAll", "access", {ADMIN})
FindById         == Route("user", "findById", "access", {ADMIN})
UpdateUser       == Route("user", "updateUser", "access", {ADMIN})
DeleteUser       == Route("user", "deleteUser", "access", {ADMIN})
GetMe            == Route("user", "getMe", "access", Anybody)
UpdateMe         == Route("user", "updateMe", "access", Anybody)
DeleteMe         == Route("user", "deleteMe", "access", Anybody)

UserRoutes ==
  {Register, Login, RefreshToken, GrantPermissions, FindAll, FindById, UpdateUser,
   DeleteUser, GetMe, UpdateMe, DeleteMe}

GetLeaderboard          == Route("response", "getLeaderboard", "game", UserRole)
GetQuestionStats        == Route("response", "getQuestionStats", "game", Hosts)
GetSessionResponses     == Route("response", "getSessionResponses", "game", Hosts)
GetParticipantResponses == Route("response", "getParticipantResponses", "game", UserRole)
GetQuestionResponses    == Route("response", "getQuestionResponses", "game", Hosts)
AddResponse             == Route("response", "addResponse", "game", {ADMIN, MODERATOR, USER})
StartResponses          == Route("response", "startSession", "game", Hosts)
EndResponses            == Route("response", "endSession", "game", Hosts)

ResponseRoutes ==
  {GetLeaderboard, GetQuestionStats, GetSessionResponses, GetParticipantResponses,
   GetQuestionResponses, AddResponse, StartResponses, EndResponses}

GetFullQuiz    == Route("quizz", "getFullQuiz", "access", Anybody)
GetQuizIdsOnly == Route("quizz", "getQuizIdsOnly", "access", Anybody)
GetQuizAnswers == Route("quizz", "getQuizAnswers", "access", Anybody)
GetAllQuizzes  == Route("quizz", "getAllQuizzes", "access", Anybody)
GetQuizById    == Route("quizz", "getQuizById", "access", Anybody)
CreateQuiz     == Route("quizz", "createQuiz", "access", Anybody)
UpdateQuiz     == Route("quizz", "updateQuiz", "access", Anybody)
DeleteQuiz     == Route("quizz", "deleteQuiz", "access", Anybody)

GetAllQuestions      == Route("quizz", "getAllQuestions", "access", Anybody)
GetQuestionById      == Route("quizz", "getQuestionById", "access", Anybody)
GetQuestionsByQuizId == Route("quizz", "getQuestionsByQuizId", "access", Anybody)
CreateQuestion       == Route("quizz", "createQuestion", "access", Anybody)
UpdateQuestion       == Route("quizz", "updateQuestion", "access", Anybody)
DeleteQuestion       == Route("quizz", "deleteQuestion", "access", Anybody)

GetAllChoices          == Route("quizz", "getAllChoices", "access", Anybody)
GetChoiceById          == Route("quizz", "getChoiceById", "access", Anybody)
GetChoicesByQuestionId == Route("quizz", "getChoicesByQuestionId", "access", Anybody)
CreateChoice           == Route("quizz", "createChoice", "access", Anybody)
UpdateChoice           == Route("quizz", "updateChoice", "access", Anybody)
DeleteChoice           == Route("quizz", "deleteChoice", "access", Anybody)

QuizRoutes ==
  {GetFullQuiz, GetQuizIdsOnly, GetQuizAnswers, GetAllQuizzes, GetQuizById,
   CreateQuiz, UpdateQuiz, DeleteQuiz, GetAllQuestions, GetQuestionById,
   GetQuestionsByQuizId, CreateQuestion, UpdateQuestion, DeleteQuestion,
   GetAllChoices, GetChoiceById, GetChoicesByQuestionId, CreateChoice,
   UpdateChoice, DeleteChoice}

Routes == SessionRoutes \cup UserRoutes \cup ResponseRoutes \cup QuizRoutes

----------------------------------------------------------------------------
(* The hooks, in the order they are registered.  A context is what they     *)
(* have put on the request, with the status they have refused it with.      *)

Start == [user |-> None, gameTokenPayload |-> None, status |-> 200]

Verifies(token) == token \notin {None, Expired}
Refuse(ctx, status) == [ctx EXCEPT !.status = status]

\* Mutant: the game token of the route is not looked at.
AccessTokenHookForAll(rt, h, ctx) ==
  IF rt.token \in {"public", "refresh"} \/ h.metrics THEN ctx
  ELSE IF Verifies(h.access) THEN [ctx EXCEPT !.user = h.access]
  ELSE IF rt.token = "game" THEN ctx ELSE Refuse(ctx, 401)

\* Neither this hook nor the next looks at a url that ends with /metrics.
AccessTokenHook(rt, h, ctx) ==
  IF rt.token # "access" \/ h.metrics THEN ctx
  ELSE IF Verifies(h.access) THEN [ctx EXCEPT !.user = h.access] ELSE Refuse(ctx, 401)

RefreshTokenHook(rt, h, ctx) ==
  IF rt.token # "refresh" \/ h.metrics THEN ctx
  ELSE IF Verifies(h.refresh) THEN [ctx EXCEPT !.user = h.refresh] ELSE Refuse(ctx, 401)

\* A game token is looked at on every route that is not public.
GameTokenHook(rt, h, ctx) ==
  IF rt.token = "public" \/ (h.game = None /\ rt.token # "game") THEN ctx
  ELSE IF Verifies(h.game)
       THEN [ctx EXCEPT !.gameTokenPayload = h.game,
                        !.user = IF ctx.user = None THEN h.game ELSE ctx.user]
       ELSE Refuse(ctx, 401)

\* A hook that refuses ends the request: the ones behind it see nothing of it.
Hooked(rt, h) ==
  LET ctx == AccessTokenHook(rt, h, Start)
      rfr == RefreshTokenHook(rt, h, ctx)
  IN  IF ctx.status # 200 THEN ctx
      ELSE IF rfr.status # 200 THEN rfr ELSE GameTokenHook(rt, h, rfr)

\* The account is the one of the context, the place in a session that of the
\* game token.
InternalToken(ctx) ==
  LET game == IF ctx.gameTokenPayload = None THEN ctx.user ELSE ctx.gameTokenPayload
  IN  [userId |-> ctx.user.userId, role |-> ctx.user.role,
       sessionId |-> game.sessionId, participantId |-> game.participantId]

InternalTokenInterceptor(ctx) ==
  IF \/ ctx.user = None
     \/ ctx.user.userId = None /\ ctx.user.participantId = None
     \/ ctx.user.role = None
  THEN Refuse(ctx, 401) ELSE ctx

RolesHook(rt, ctx) ==
  IF rt.roles = Anybody THEN ctx
  ELSE IF ctx.user = None THEN Refuse(ctx, 401)
  ELSE IF ctx.user.role \in rt.roles THEN ctx ELSE Refuse(ctx, 403)

\* The status the hooks answer with, 200 when the handler is reached, and the
\* internal token it passes on.
Admit(rt, h) ==
  LET ctx == Hooked(rt, h)
      kept == IF ctx.status # 200 \/ rt.token = "public" THEN ctx
              ELSE InternalTokenInterceptor(ctx)
      end == IF kept.status # 200 THEN kept ELSE RolesHook(rt, kept)
  IN  [status |-> end.status,
       token  |-> IF end.status # 200 \/ end.user = None THEN None
                  ELSE InternalToken(end)]

----------------------------------------------------------------------------
(* The calls of the gateway's services: method and path.                    *)

SessionCalls ==
  [createSession      |-> <<"POST", "/sessions">>,
   getSession         |-> <<"GET", "/sessions">>,
   startSession       |-> <<"POST", "/sessions/start">>,
   endSession         |-> <<"POST", "/sessions/end">>,
   deleteSession      |-> <<"DELETE", "/sessions">>,
   nextQuestion       |-> <<"POST", "/sessions/next">>,
   joinSession        |-> <<"POST", "/sessions/join">>,
   leaveSession       |-> <<"POST", "/sessions/leave">>,
   getCurrentQuestion |-> <<"GET", "/sessions/current-question">>,
   submitResponse     |-> <<"POST", "/sessions/submit">>,
   answerBuzzer       |-> <<"POST", "/sessions/buzzer/answer">>,
   showResults        |-> <<"POST", "/sessions/show-results">>]

UserCalls ==
  [register         |-> <<"POST", "/users/register">>,
   login            |-> <<"POST", "/users/login">>,
   refreshToken     |-> <<"GET", "/users/refresh-access-token">>,
   grantPermissions |-> <<"POST", "/users/permissions">>,
   findAll          |-> <<"GET", "/users">>,
   findById         |-> <<"GET", "/users/:id">>,
   updateUser       |-> <<"PUT", "/users/:id">>,
   deleteUser       |-> <<"DELETE", "/users/:id">>,
   getMe            |-> <<"GET", "/users/me">>,
   updateMe         |-> <<"PUT", "/users/me">>,
   deleteMe         |-> <<"DELETE", "/users/me">>]

ResponseCalls ==
  [getSessionResponses     |-> <<"GET", "/responses/session/:id">>,
   getParticipantResponses |-> <<"GET", "/responses/participant/:id">>,
   getQuestionResponses    |-> <<"GET", "/responses/question/:id">>,
   addResponse             |-> <<"POST", "/responses/response">>,
   startSession            |-> <<"POST", "/responses/session/start/:id">>,
   endSession              |-> <<"DELETE", "/responses/session/end/:id">>,
   getLeaderboard          |-> <<"GET", "/responses/leaderboard/session/:id">>,
   getQuestionStats        |-> <<"GET", "/responses/stats/question/:id">>]

QuizCalls ==
  [getAllQuizzes  |-> <<"GET", "/quizzes">>,
   getQuizById    |-> <<"GET", "/quizzes/:id">>,
   createQuiz     |-> <<"POST", "/quizzes">>,
   updateQuiz     |-> <<"PUT", "/quizzes/:id">>,
   deleteQuiz     |-> <<"DELETE", "/quizzes/:id">>,
   getQuizAnswers |-> <<"GET", "/quizzes/:id/answers">>,
   getFullQuiz    |-> <<"POST", "/quizzes/get-full">>,
   getQuizIdsOnly |-> <<"POST", "/quizzes/get-ids">>]

QuestionCalls ==
  [getAllQuestions      |-> <<"GET", "/questions">>,
   getQuestionById      |-> <<"GET", "/questions/:id">>,
   getQuestionsByQuizId |-> <<"GET", "/questions/quiz/:id">>,
   createQuestion       |-> <<"POST", "/questions">>,
   updateQuestion       |-> <<"PUT", "/questions/:id">>,
   deleteQuestion       |-> <<"DELETE", "/questions/:id">>]

ChoiceCalls ==
  [getAllChoices          |-> <<"GET", "/choices">>,
   getChoiceById          |-> <<"GET", "/choices/:id">>,
   getChoicesByQuestionId |-> <<"GET", "/choices/question/:id">>,
   createChoice           |-> <<"POST", "/choices">>,
   updateChoice           |-> <<"PUT", "/choices/:id">>,
   deleteChoice           |-> <<"DELETE", "/choices/:id">>]

CallOf(rt) ==
  LET calls == CASE rt.service = "session"  -> SessionCalls
                 [] rt.service = "user"     -> UserCalls
                 [] rt.service = "response" -> ResponseCalls
                 [] rt.service = "quizz"    ->
                      IF rt.handler \in DOMAIN QuizCalls THEN QuizCalls
                      ELSE IF rt.handler \in DOMAIN QuestionCalls THEN QuestionCalls
                      ELSE ChoiceCalls
  IN  calls[rt.handler]

----------------------------------------------------------------------------
(* The routes of the services: method, path, and the fields of the internal *)
(* token their handler cannot do without.  OpenTo does not look for one.    *)

On(method, path, needs) ==
  [call |-> <<method, path>>, public |-> FALSE, needs |-> needs]
OpenTo(method, path) ==
  [call |-> <<method, path>>, public |-> TRUE, needs |-> {}]

OnShowResults        == On("POST", "/sessions/show-results", {"sessionId"})
OnCreateSession      == On("POST", "/sessions", {"userId"})
OnGetSession         == On("GET", "/sessions", {"sessionId"})
OnStartSession       == On("POST", "/sessions/start", {"sessionId"})
OnNextQuestion       == On("POST", "/sessions/next", {"sessionId"})
OnEndSession         == On("POST", "/sessions/end", {"sessionId"})
OnDeleteSession      == On("DELETE", "/sessions", {"sessionId"})
OnGetCurrentQuestion == On("GET", "/sessions/current-question", {"sessionId"})
OnJoinSession        == OpenTo("POST", "/sessions/join")
OnLeaveSession       == On("POST", "/sessions/leave", {"participantId"})
OnSubmitResponse     == On("POST", "/sessions/submit", {"sessionId", "participantId"})
OnAnswerBuzzer       == On("POST", "/sessions/buzzer/answer", {"sessionId", "participantId"})

OnRegister         == OpenTo("POST", "/users/register")
OnLogin            == OpenTo("POST", "/users/login")
OnRefreshToken     == On("GET", "/users/refresh-access-token", {"userId"})
OnGrantPermissions == On("POST", "/users/permissions", {"userId"})
OnFindAll          == On("GET", "/users", {})
OnFindById         == On("GET", "/users/:id", {})
OnUpdateUser       == On("PUT", "/users/:id", {})
OnDeleteUser       == On("DELETE", "/users/:id", {})
OnGetMe            == On("GET", "/users/me", {"userId"})
OnUpdateMe         == On("PUT", "/users/me", {"userId"})
OnDeleteMe         == On("DELETE", "/users/me", {"userId"})

OnGetLeaderboard              == On("GET", "/responses/leaderboard/session/:id", {})
OnGetQuestionStats            == On("GET", "/responses/stats/question/:id", {})
OnAddResponse                 == On("POST", "/responses/response", {})
OnEndResponses                == On("DELETE", "/responses/session/end/:id", {})
OnStartResponses              == On("POST", "/responses/session/start/:id", {})
OnGetAllSessionResponses      == On("GET", "/responses/session/:id", {})
OnGetAllParticipantResponses  == On("GET", "/responses/participant/:id", {})
OnGetAllQuestionResponses     == On("GET", "/responses/question/:id", {})

OnGetFullQuiz    == On("POST", "/quizzes/get-full", {})
OnGetQuizIdsOnly == On("POST", "/quizzes/get-ids", {})
OnGetQuizAnswers == On("GET", "/quizzes/:id/answers", {})
OnGetAllQuizzes  == On("GET", "/quizzes", {})
OnGetQuizById    == On("GET", "/quizzes/:id", {})
OnCreateQuiz     == On("POST", "/quizzes", {})
OnUpdateQuiz     == On("PUT", "/quizzes/:id", {})
OnDeleteQuiz     == On("DELETE", "/quizzes/:id", {})

OnGetAllQuestions      == On("GET", "/questions", {})
OnGetQuestionById      == On("GET", "/questions/:id", {})
OnGetChoiceIds         == On("GET", "/questions/:id/choices/ids", {})
OnGetQuestionsByQuizId == On("GET", "/questions/quiz/:id", {})
OnCreateQuestion       == On("POST", "/questions", {})
OnUpdateQuestion       == On("PUT", "/questions/:id", {})
OnDeleteQuestion       == On("DELETE", "/questions/:id", {})

OnGetAllChoices          == On("GET", "/choices", {})
OnGetChoiceById          == On("GET", "/choices/:id", {})
OnGetChoicesByQuestionId == On("GET", "/choices/question/:id", {})
OnCreateChoice           == On("POST", "/choices", {})
OnUpdateChoice           == On("PUT", "/choices/:id", {})
OnDeleteChoice           == On("DELETE", "/choices/:id", {})

ServiceRoutes ==
  {OnShowResults, OnCreateSession, OnGetSession, OnStartSession, OnNextQuestion,
   OnEndSession, OnDeleteSession, OnGetCurrentQuestion, OnJoinSession,
   OnLeaveSession, OnSubmitResponse, OnAnswerBuzzer,
   OnRegister, OnLogin, OnRefreshToken, OnGrantPermissions, OnFindAll, OnFindById,
   OnUpdateUser, OnDeleteUser, OnGetMe, OnUpdateMe, OnDeleteMe,
   OnGetLeaderboard, OnGetQuestionStats, OnAddResponse, OnEndResponses,
   OnStartResponses, OnGetAllSessionResponses, OnGetAllParticipantResponses,
   OnGetAllQuestionResponses,
   OnGetFullQuiz, OnGetQuizIdsOnly, OnGetQuizAnswers, OnGetAllQuizzes,
   OnGetQuizById, OnCreateQuiz, OnUpdateQuiz, OnDeleteQuiz,
   OnGetAllQuestions, OnGetQuestionById, OnGetChoiceIds, OnGetQuestionsByQuizId,
   OnCreateQuestion, OnUpdateQuestion, OnDeleteQuestion,
   OnGetAllChoices, OnGetChoiceById, OnGetChoicesByQuestionId, OnCreateChoice,
   OnUpdateChoice, OnDeleteChoice}

\* The fields a token has are those somebody filled.
FieldsOf(token) == {f \in DOMAIN token : token[f] # None}

\* A service looks for its internal token before it looks at anything else.
InternalTokenHook(route, token) == route.public \/ token # None

Serves(route, token) ==
  /\ InternalTokenHook(route, token)
  /\ route.needs # {} => route.needs \subseteq FieldsOf(token)

\* A call that no route answers to is not served by any.
Served(call, token) ==
  \E route \in ServiceRoutes : route.call = call /\ Serves(route, token)

----------------------------------------------------------------------------
(* The calls the services make of each other: the token is one they sign,   *)
(* or the one of the request they are at.                                   *)

SignedByService == [Nobody EXCEPT !.userId = "ms-session", !.role = ADMIN]
SignedForHost(u) == [Nobody EXCEPT !.userId = u]
SignedForParticipant(s, p) ==
  [Nobody EXCEPT !.userId = p, !.sessionId = s, !.participantId = p]

OwnCalls ==
  ({<<"GET", "/questions/:id">>, <<"GET", "/questions/:id/choices/ids">>,
    <<"POST", "/responses/response">>, <<"DELETE", "/responses/session/end/:id">>}
      \X {SignedByService})
  \cup {<<<<"POST", "/quizzes/get-full">>, SignedForHost(u)>> : u \in Users}
  \cup {<<<<"GET", "/sessions">>, SignedForParticipant(s, p)>> :
            s \in Sessions, p \in Participants}

\* No token, internal or of a service, is the absence of one.
InternalTokens ==
  [userId : Users \cup {None}, role : UserRole,
   sessionId : Sessions \cup {None}, participantId : Participants \cup {None}]

ASSUME TokensAreSomething ==
  /\ None \notin InternalTokens
  /\ \A c \in OwnCalls : c[2] # None

\* What three requests fetch of the quiz, and nextQuestion of its questions,
\* with the internal token of the request.
ForwardedCalls ==
  [createSession      |-> <<"POST", "/quizzes/get-full">>,
   startSession       |-> <<"POST", "/quizzes/get-full">>,
   nextQuestion       |-> <<"POST", "/quizzes/get-ids">>,
   getCurrentQuestion |-> <<"POST", "/quizzes/get-full">>]

----------------------------------------------------------------------------
(* What the tokens a client sends, h, come to.                              *)

\* The token that decides: the one the route asks for, and the game token where
\* the hooks of the other two pass the request by.
Deciding(rt, h) == IF h.metrics THEN h.game ELSE h[rt.token]

\* That token decides alone, whatever other tokens come with it: the request is
\* let through if and only if it verifies and has one of the roles, in the name
\* of its account or its participant, and in the session of the game token.
\* Nothing but an access token opens a route of administrators.  (A game token
\* that does not verify is left out: the hook refuses it on routes that do not
\* ask for one.)
DecidesAlone(rt, h) ==
  rt.token # "public" /\ h.game # Expired =>
    LET own   == Deciding(rt, h)
        game  == IF h.game = None THEN Nobody ELSE h.game
        reply == Admit(rt, h)
    IN  /\ reply.status = 200 <=>
             Verifies(own) /\ (rt.roles = Anybody \/ own.role \in rt.roles)
        /\ reply.status = 200 =>
             /\ reply.token.userId = own.userId
             /\ reply.token.role = own.role
             /\ reply.token.sessionId = game.sessionId
             /\ reply.token.participantId = game.participantId
             /\ rt.roles = {ADMIN} => own \in AccountTokens

\* The handlers of these read the account, and anybody who has one may ask them.
OwnerRoutes == {CreateSession, RefreshToken, GetMe, UpdateMe, DeleteMe}

\* A request for one of them that goes on without an account: it was let through
\* on a game token alone.
WithoutAccount(rt, h) == h.metrics /\ rt \in OwnerRoutes

\* What is let through has a route of the service, and the internal token has
\* what its handler needs, but for the requests without an account; and also for
\* what the service fetches with it.
IsServed(rt, h) ==
  LET reply == Admit(rt, h)
  IN  reply.status = 200 =>
        /\ Served(CallOf(rt), reply.token) <=> ~WithoutAccount(rt, h)
        /\ rt.service = "session" /\ rt.handler \in DOMAIN ForwardedCalls
             => Served(ForwardedCalls[rt.handler], reply.token)

\* The access and refresh tokens for which some route does not do so, given some
\* game token and some url.
OfAccount(h) == [access |-> h.access, refresh |-> h.refresh]

Misjudged == {OfAccount(h) : h \in {g \in Headers : \E rt \in Routes : ~DecidesAlone(rt, g)}}
Unserved  == {OfAccount(h) : h \in {g \in Headers : \E rt \in Routes : ~IsServed(rt, g)}}

OwnCallsServed == \A c \in OwnCalls : Served(c[1], c[2])

=============================================================================
