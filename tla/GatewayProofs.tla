----------------------------- MODULE GatewayProofs -----------------------------
(***************************************************************************)
(* What the routes and hooks of Gateway come to, for any users, sessions   *)
(* and participants.                                                       *)
(***************************************************************************)
EXTENDS Gateway, TLAPS

Token == {"public", "access", "refresh", "game"}

\* Every route asks for one kind of token, or for none.
LEMMA RouteTokens == \A rt \in Routes : rt.token \in Token
<1>1. \A rt \in SessionRoutes : rt.token \in Token
  BY DEF SessionRoutes, Token, Route, ShowResults, CreateSession, GetSession,
         StartSession, EndSession, DeleteSession, NextQuestion, JoinSession,
         LeaveSession, GetCurrentQuestion, SubmitResponse, AnswerBuzzer
<1>2. \A rt \in UserRoutes : rt.token \in Token
  BY DEF UserRoutes, Token, Route, Register, Login, RefreshToken,
         GrantPermissions, FindAll, FindById, UpdateUser, DeleteUser, GetMe,
         UpdateMe, DeleteMe
<1>3. \A rt \in ResponseRoutes : rt.token \in Token
  BY DEF ResponseRoutes, Token, Route, GetLeaderboard, GetQuestionStats,
         GetSessionResponses, GetParticipantResponses, GetQuestionResponses,
         AddResponse, StartResponses, EndResponses
<1>4. \A rt \in QuizRoutes : rt.token \in Token
  BY DEF QuizRoutes, Token, Route, GetFullQuiz, GetQuizIdsOnly, GetQuizAnswers,
         GetAllQuizzes, GetQuizById, CreateQuiz, UpdateQuiz, DeleteQuiz,
         GetAllQuestions, GetQuestionById, GetQuestionsByQuizId, CreateQuestion,
         UpdateQuestion, DeleteQuestion, GetAllChoices, GetChoiceById,
         GetChoicesByQuestionId, CreateChoice, UpdateChoice, DeleteChoice
<1> QED BY <1>1, <1>2, <1>3, <1>4 DEF Routes

\* A token of an account names the account and a role, and no session.
LEMMA AccountTokenFields ==
  ASSUME NEW t \in AccountTokens
  PROVE  /\ t \notin {None, Expired}
         /\ t.userId # None /\ t.role # None
         /\ t.sessionId = None /\ t.participantId = None
<1>1. PICK u \in Users, r \in UserRole : t = AccountToken(u, r)
  BY DEF AccountTokens
<1>2. u # None /\ r # None /\ t \notin {None, Expired}
  BY TokensApart
<1> QED BY <1>1, <1>2 DEF AccountToken, Nobody

\* A game token names a participant, a session and a role, and no account.
LEMMA GameTokenFields ==
  ASSUME NEW t \in GameTokens
  PROVE  /\ t \notin {None, Expired}
         /\ t.participantId # None /\ t.role # None
         /\ t.userId = None /\ t.role # ADMIN
<1>1. {MODERATOR, USER, SPECTATOR} \subseteq UserRole \ {ADMIN}
  BY DEF UserRole, ADMIN, MODERATOR, USER, SPECTATOR
<1>2. PICK s \in Sessions, p \in Participants :
        \E r \in {MODERATOR, USER, SPECTATOR} : t = GameToken(s, p, r)
  BY DEF GameTokens, HostToken, JoinToken
<1> QED BY <1>1, <1>2, TokensApart DEF GameToken, Nobody, GameTokens

\* What the hooks leave of a request on a route that asks for a token.
LEMMA HookedContext ==
  ASSUME NEW rt, NEW h \in Headers,
         rt.token \in {"access", "refresh", "game"}, h.game # Expired
  PROVE  /\ Verifies(Deciding(rt, h)) =>
              Hooked(rt, h) =
                [user |-> Deciding(rt, h),
                 gameTokenPayload |-> IF h.game = None THEN None ELSE h.game,
                 status |-> 200]
         /\ ~Verifies(Deciding(rt, h)) =>
              Hooked(rt, h).status = 401 \/ Hooked(rt, h) = Start
<1>1. /\ h.access \in AccountTokens \cup {None, Expired}
      /\ h.refresh \in AccountTokens \cup {None, Expired}
      /\ h.game \in GameTokens \cup {None}
  BY DEF Headers
<1>2. \A t \in AccountTokens \cup GameTokens : t \notin {None, Expired}
  BY AccountTokenFields, GameTokenFields
<1>3. h.game # None => Verifies(h.game)
  BY <1>1, <1>2, TokensApart DEF Verifies
<1>4. ASSUME NEW own, own # None, rt.token # "game"
      PROVE  GameTokenHook(rt, h, [user |-> own, gameTokenPayload |-> None, status |-> 200]) =
               [user |-> own,
                gameTokenPayload |-> IF h.game = None THEN None ELSE h.game,
                status |-> 200]
  <2> DEFINE ctx == [user |-> own, gameTokenPayload |-> None, status |-> 200]
  <2>1. CASE h.game = None
    <3>1. GameTokenHook(rt, h, ctx) = ctx
      BY <1>4, <2>1 DEF GameTokenHook
    <3> QED BY <2>1, <3>1
  <2>2. CASE h.game # None
    <3>1. rt.token # "public" /\ Verifies(h.game)
      BY <1>3, <2>2
    <3>2. GameTokenHook(rt, h, ctx) =
            [ctx EXCEPT !.gameTokenPayload = h.game,
                        !.user = IF ctx.user = None THEN h.game ELSE ctx.user]
      BY <2>2, <3>1 DEF GameTokenHook
    <3> DEFINE res == GameTokenHook(rt, h, ctx)
    <3>3. res = [ctx EXCEPT !.gameTokenPayload = h.game, !.user = own]
      BY <1>4, <3>2
    <3> HIDE DEF res
    <3>4. res = [user |-> own, gameTokenPayload |-> h.game, status |-> 200]
      BY <3>3
    <3> QED BY <2>2, <3>4 DEF res
  <2> QED BY <2>1, <2>2
<1>5. CASE rt.token = "access" /\ ~h.metrics
  <2> DEFINE ctx == [user |-> h.access, gameTokenPayload |-> None, status |-> 200]
  <2>1. CASE Verifies(h.access)
    <3>1. AccessTokenHook(rt, h, Start) = ctx
      BY <1>5, <2>1 DEF AccessTokenHook, Start
    <3>2. RefreshTokenHook(rt, h, ctx) = ctx
      BY <1>5 DEF RefreshTokenHook
    <3>3. Hooked(rt, h) = GameTokenHook(rt, h, ctx)
      BY <3>1, <3>2 DEF Hooked
    <3> QED BY <1>5, <1>4, <2>1, <3>3 DEF Verifies, Deciding
  <2>2. CASE ~Verifies(h.access)
    <3>1. AccessTokenHook(rt, h, Start).status = 401
      BY <1>5, <2>2 DEF AccessTokenHook, Refuse, Start
    <3> QED BY <1>5, <2>2, <3>1 DEF Hooked, Deciding
  <2> QED BY <2>1, <2>2
<1>6. CASE rt.token = "refresh" /\ ~h.metrics
  <2> DEFINE ctx == [user |-> h.refresh, gameTokenPayload |-> None, status |-> 200]
  <2>1. AccessTokenHook(rt, h, Start) = Start /\ Start.status = 200
    BY <1>6 DEF AccessTokenHook, Start
  <2>2. CASE Verifies(h.refresh)
    <3>1. RefreshTokenHook(rt, h, Start) = ctx
      BY <1>6, <2>2 DEF RefreshTokenHook, Start
    <3>2. Hooked(rt, h) = GameTokenHook(rt, h, ctx)
      BY <2>1, <3>1 DEF Hooked
    <3> QED BY <1>6, <1>4, <2>2, <3>2 DEF Verifies, Deciding
  <2>3. CASE ~Verifies(h.refresh)
    <3>1. RefreshTokenHook(rt, h, Start).status = 401
      BY <1>6, <2>3 DEF RefreshTokenHook, Refuse, Start
    <3> QED BY <1>6, <2>1, <2>3, <3>1 DEF Hooked, Deciding
  <2> QED BY <2>2, <2>3
<1>7. CASE rt.token = "game" \/ h.metrics
  <2>1. /\ AccessTokenHook(rt, h, Start) = Start /\ RefreshTokenHook(rt, h, Start) = Start
        /\ Start.status = 200 /\ Start.user = None
    BY <1>7 DEF AccessTokenHook, RefreshTokenHook, Start
  <2>2. Hooked(rt, h) = GameTokenHook(rt, h, Start) /\ Deciding(rt, h) = h.game
    BY <1>7, <2>1 DEF Hooked, Deciding
  <2>3. CASE Verifies(h.game)
    <3>1. h.game # None
      BY <2>3 DEF Verifies
    <3>2. GameTokenHook(rt, h, Start) =
            [Start EXCEPT !.gameTokenPayload = h.game, !.user = h.game]
      BY <2>1, <2>3, <3>1 DEF GameTokenHook
    <3> DEFINE res == GameTokenHook(rt, h, Start)
    <3> HIDE DEF res
    <3>3. res = [Start EXCEPT !.gameTokenPayload = h.game, !.user = h.game]
      BY <3>2 DEF res
    <3>4. res = [user |-> h.game, gameTokenPayload |-> h.game, status |-> 200]
      BY <3>3 DEF Start
    <3> QED BY <2>2, <2>3, <3>1, <3>4 DEF res
  <2>4. CASE ~Verifies(h.game)
    <3>1. GameTokenHook(rt, h, Start) = Refuse(Start, 401) \/ GameTokenHook(rt, h, Start) = Start
      BY <2>4 DEF GameTokenHook
    <3>2. Refuse(Start, 401).status = 401
      BY DEF Refuse, Start
    <3> QED BY <2>2, <2>4, <3>1, <3>2
  <2> QED BY <2>3, <2>4
<1> QED BY <1>5, <1>6, <1>7

\* In the name of which account or participant a context is, and in which
\* session: the token that decides says so, and the game token.
LEMMA PassedOn ==
  ASSUME NEW own \in AccountTokens \cup GameTokens, NEW game \in GameTokens \cup {None},
         NEW ctx,
         ctx = [user |-> own, gameTokenPayload |-> game, status |-> 200],
         own \in GameTokens => game = own
  PROVE  /\ InternalTokenInterceptor(ctx) = ctx
         /\ ctx.user # None
         /\ InternalToken(ctx).userId = own.userId
         /\ InternalToken(ctx).role = own.role
         /\ InternalToken(ctx).sessionId = (IF game = None THEN None ELSE game.sessionId)
         /\ InternalToken(ctx).participantId = (IF game = None THEN None ELSE game.participantId)
<1>1. own # None /\ own.role # None /\ (own.userId # None \/ own.participantId # None)
  BY AccountTokenFields, GameTokenFields
<1>2. own \in AccountTokens \ GameTokens => own.sessionId = None /\ own.participantId = None
  BY AccountTokenFields
<1>3. InternalTokenInterceptor(ctx) = ctx /\ ctx.user # None
  BY <1>1 DEF InternalTokenInterceptor
<1>4. CASE game = None
  <2>1. own.sessionId = None /\ own.participantId = None
    BY <1>1, <1>2, <1>4
  <2> QED BY <1>3, <1>4, <2>1 DEF InternalToken
<1>5. CASE game # None
  BY <1>3, <1>5 DEF InternalToken
<1> QED BY <1>3, <1>4, <1>5

\* The token that decides does so alone, whatever other tokens come with it: the
\* one the route asks for, or the game token for a url that ends with /metrics.
THEOREM TokenDecides ==
  ASSUME NEW rt \in Routes, NEW h \in Headers
  PROVE  DecidesAlone(rt, h)
<1> SUFFICES ASSUME rt.token # "public", h.game # Expired
             PROVE  DecidesAlone(rt, h)
  BY DEF DecidesAlone
<1> DEFINE own   == Deciding(rt, h)
           game  == IF h.game = None THEN Nobody ELSE h.game
           ctx   == [user |-> own,
                     gameTokenPayload |-> IF h.game = None THEN None ELSE h.game,
                     status |-> 200]
           reply == Admit(rt, h)
<1>1. rt.token \in {"access", "refresh", "game"}
  BY RouteTokens DEF Token
<1>2. /\ h.access \in AccountTokens \cup {None, Expired}
      /\ h.refresh \in AccountTokens \cup {None, Expired}
      /\ h.game \in GameTokens \cup {None}
  BY DEF Headers
<1>3. CASE ~Verifies(own)
  <2>1. Hooked(rt, h).status = 401 \/ Hooked(rt, h) = Start
    BY <1>1, <1>3, HookedContext
  <2>2. Hooked(rt, h).status = 401 => reply.status # 200
    BY DEF Admit
  <2>3. ASSUME Hooked(rt, h) = Start PROVE reply.status # 200
    <3>1. InternalTokenInterceptor(Start) = Refuse(Start, 401)
      BY DEF InternalTokenInterceptor, Start
    <3>2. Refuse(Start, 401).status = 401 /\ Start.status = 200
      BY DEF Refuse, Start
    <3> QED BY <2>3, <3>1, <3>2 DEF Admit
  <2>4. reply.status # 200
    BY <2>1, <2>2, <2>3
  <2> QED BY <1>3, <2>4 DEF DecidesAlone
<1>4. CASE Verifies(own)
  <2>1. Hooked(rt, h) = ctx
    BY <1>1, <1>4, HookedContext
  <2>2. own \in AccountTokens \cup GameTokens
    BY <1>1, <1>2, <1>4 DEF Verifies, Deciding
  <2>3. own \in GameTokens => h.game = own
    <3>1. \A t \in AccountTokens : t \notin GameTokens
      BY AccountTokenFields, GameTokenFields
    <3> QED BY <1>1, <1>2, <1>4, <3>1 DEF Verifies, Deciding
  <2>4. /\ InternalTokenInterceptor(ctx) = ctx
        /\ ctx.user # None
        /\ InternalToken(ctx).userId = own.userId
        /\ InternalToken(ctx).role = own.role
        /\ InternalToken(ctx).sessionId = game.sessionId
        /\ InternalToken(ctx).participantId = game.participantId
    <3>1. (IF h.game = None THEN None ELSE h.game) \in GameTokens \cup {None}
      BY <1>2
    <3>2. own \in GameTokens => (IF h.game = None THEN None ELSE h.game) = own
      BY <2>3
    <3> QED BY <2>2, <3>1, <3>2, PassedOn DEF Nobody
  <2>5. CASE rt.roles = Anybody \/ own.role \in rt.roles
    <3>1. RolesHook(rt, ctx) = ctx
      BY <2>4, <2>5 DEF RolesHook
    <3>2. reply = [status |-> 200, token |-> InternalToken(ctx)]
      BY <2>1, <2>4, <3>1 DEF Admit
    <3>3. rt.roles = {ADMIN} => own \in AccountTokens
      <4>1. Anybody # {ADMIN}
        BY DEF Anybody
      <4> QED BY <2>2, <2>5, <4>1, GameTokenFields
    <3> HIDE DEF own, ctx
    <3>4. reply.status = 200 /\ reply.token = InternalToken(ctx)
      BY <3>2
    <3> QED BY <1>4, <2>4, <2>5, <3>3, <3>4 DEF DecidesAlone, own
  <2>6. CASE ~(rt.roles = Anybody \/ own.role \in rt.roles)
    <3>1. RolesHook(rt, ctx).status = 403
      BY <2>4, <2>6 DEF RolesHook, Refuse
    <3>2. reply.status # 200
      BY <2>1, <2>4, <3>1 DEF Admit
    <3> QED BY <2>6, <3>2 DEF DecidesAlone
  <2> QED BY <2>5, <2>6
<1> QED BY <1>3, <1>4

\* So no tokens of an account are misjudged.
COROLLARY NoneMisjudged == Misjudged = {}
BY TokenDecides DEF Misjudged


----------------------------------------------------------------------------
(* What is let through is served.                                           *)

\* The fields an internal token has for sure when the route asks for a token of
\* that kind.
Carries(kind) ==
  CASE kind = "public"              -> {}
    [] kind \in {"access", "refresh"} -> {"userId"}
    [] kind = "game"                -> {"sessionId", "participantId"}

\* The kind of the token that decides.
Kind(rt, h) == IF rt.token = "public" \/ ~h.metrics THEN rt.token ELSE "game"

\* A route of a service that is there for a route of the gateway: it needs what
\* the token the route asks for has, and nothing of an account's unless the route
\* is the administrators' or an owner's.
AnswersTo(rt, route) ==
  /\ route \in ServiceRoutes
  /\ route.call = CallOf(rt)
  /\ rt.token = "public" => route.public
  /\ route.needs \subseteq Carries(rt.token)
  /\ route.needs \subseteq Carries("game") \/ rt.roles = {ADMIN} \/ rt \in OwnerRoutes

LEMMA RouteFields ==
  ASSUME NEW service, NEW handler, NEW token, NEW roles
  PROVE  /\ Route(service, handler, token, roles).service = service
         /\ Route(service, handler, token, roles).handler = handler
         /\ Route(service, handler, token, roles).token = token
         /\ Route(service, handler, token, roles).roles = roles
BY DEF Route

\* The routes of the services, one by one.
LEMMA Listed ==
  /\ OnShowResults \in ServiceRoutes
  /\ OnCreateSession \in ServiceRoutes
  /\ OnGetSession \in ServiceRoutes
  /\ OnStartSession \in ServiceRoutes
  /\ OnNextQuestion \in ServiceRoutes
  /\ OnEndSession \in ServiceRoutes
  /\ OnDeleteSession \in ServiceRoutes
  /\ OnGetCurrentQuestion \in ServiceRoutes
  /\ OnJoinSession \in ServiceRoutes
  /\ OnLeaveSession \in ServiceRoutes
  /\ OnSubmitResponse \in ServiceRoutes
  /\ OnAnswerBuzzer \in ServiceRoutes
  /\ OnRegister \in ServiceRoutes
  /\ OnLogin \in ServiceRoutes
  /\ OnRefreshToken \in ServiceRoutes
  /\ OnGrantPermissions \in ServiceRoutes
  /\ OnFindAll \in ServiceRoutes
  /\ OnFindById \in ServiceRoutes
  /\ OnUpdateUser \in ServiceRoutes
  /\ OnDeleteUser \in ServiceRoutes
  /\ OnGetMe \in ServiceRoutes
  /\ OnUpdateMe \in ServiceRoutes
  /\ OnDeleteMe \in ServiceRoutes
  /\ OnGetLeaderboard \in ServiceRoutes
  /\ OnGetQuestionStats \in ServiceRoutes
  /\ OnAddResponse \in ServiceRoutes
  /\ OnEndResponses \in ServiceRoutes
  /\ OnStartResponses \in ServiceRoutes
  /\ OnGetAllSessionResponses \in ServiceRoutes
  /\ OnGetAllParticipantResponses \in ServiceRoutes
  /\ OnGetAllQuestionResponses \in ServiceRoutes
  /\ OnGetFullQuiz \in ServiceRoutes
  /\ OnGetQuizIdsOnly \in ServiceRoutes
  /\ OnGetQuizAnswers \in ServiceRoutes
  /\ OnGetAllQuizzes \in ServiceRoutes
  /\ OnGetQuizById \in ServiceRoutes
  /\ OnCreateQuiz \in ServiceRoutes
  /\ OnUpdateQuiz \in ServiceRoutes
  /\ OnDeleteQuiz \in ServiceRoutes
  /\ OnGetAllQuestions \in ServiceRoutes
  /\ OnGetQuestionById \in ServiceRoutes
  /\ OnGetChoiceIds \in ServiceRoutes
  /\ OnGetQuestionsByQuizId \in ServiceRoutes
  /\ OnCreateQuestion \in ServiceRoutes
  /\ OnUpdateQuestion \in ServiceRoutes
  /\ OnDeleteQuestion \in ServiceRoutes
  /\ OnGetAllChoices \in ServiceRoutes
  /\ OnGetChoiceById \in ServiceRoutes
  /\ OnGetChoicesByQuestionId \in ServiceRoutes
  /\ OnCreateChoice \in ServiceRoutes
  /\ OnUpdateChoice \in ServiceRoutes
  /\ OnDeleteChoice \in ServiceRoutes
BY DEF ServiceRoutes

\* ms-session has a route for every call of the gateway ...
LEMMA SessionAnswers == \A rt \in SessionRoutes : \E route : AnswersTo(rt, route)
<1>1. ASSUME NEW rt, rt.service = "session"
      PROVE  CallOf(rt) = SessionCalls[rt.handler]
  BY <1>1 DEF CallOf
<1>2. /\ CallOf(ShowResults) = <<"POST", "/sessions/show-results">>
      /\ CallOf(CreateSession) = <<"POST", "/sessions">>
      /\ CallOf(GetSession) = <<"GET", "/sessions">>
      /\ CallOf(StartSession) = <<"POST", "/sessions/start">>
  BY <1>1, RouteFields DEF ShowResults, CreateSession, GetSession, StartSession,
     SessionCalls
<1>3. /\ AnswersTo(ShowResults, OnShowResults)
      /\ AnswersTo(CreateSession, OnCreateSession)
      /\ AnswersTo(GetSession, OnGetSession)
      /\ AnswersTo(StartSession, OnStartSession)
  BY <1>2, Listed DEF AnswersTo, Carries, OwnerRoutes, Route, On, OpenTo, ShowResults,
     CreateSession, GetSession, StartSession, OnShowResults, OnCreateSession,
     OnGetSession, OnStartSession
<1>4. /\ CallOf(EndSession) = <<"POST", "/sessions/end">>
      /\ CallOf(DeleteSession) = <<"DELETE", "/sessions">>
      /\ CallOf(NextQuestion) = <<"POST", "/sessions/next">>
      /\ CallOf(JoinSession) = <<"POST", "/sessions/join">>
  BY <1>1, RouteFields DEF EndSession, DeleteSession, NextQuestion, JoinSession,
     SessionCalls
<1>5. /\ AnswersTo(EndSession, OnEndSession)
      /\ AnswersTo(DeleteSession, OnDeleteSession)
      /\ AnswersTo(NextQuestion, OnNextQuestion)
      /\ AnswersTo(JoinSession, OnJoinSession)
  BY <1>4, Listed DEF AnswersTo, Carries, OwnerRoutes, Route, On, OpenTo, EndSession,
     DeleteSession, NextQuestion, JoinSession, OnEndSession, OnDeleteSession,
     OnNextQuestion, OnJoinSession
<1>6. /\ CallOf(LeaveSession) = <<"POST", "/sessions/leave">>
      /\ CallOf(GetCurrentQuestion) = <<"GET", "/sessions/current-question">>
      /\ CallOf(SubmitResponse) = <<"POST", "/sessions/submit">>
      /\ CallOf(AnswerBuzzer) = <<"POST", "/sessions/buzzer/answer">>
  BY <1>1, RouteFields DEF LeaveSession, GetCurrentQuestion, SubmitResponse,
     AnswerBuzzer, SessionCalls
<1>7. /\ AnswersTo(LeaveSession, OnLeaveSession)
      /\ AnswersTo(GetCurrentQuestion, OnGetCurrentQuestion)
      /\ AnswersTo(SubmitResponse, OnSubmitResponse)
      /\ AnswersTo(AnswerBuzzer, OnAnswerBuzzer)
  BY <1>6, Listed DEF AnswersTo, Carries, OwnerRoutes, Route, On, OpenTo, LeaveSession,
     GetCurrentQuestion, SubmitResponse, AnswerBuzzer, OnLeaveSession,
     OnGetCurrentQuestion, OnSubmitResponse, OnAnswerBuzzer
<1> QED BY <1>3, <1>5, <1>7 DEF SessionRoutes

\* ... so has ms-user ...
LEMMA UserAnswers == \A rt \in UserRoutes : \E route : AnswersTo(rt, route)
<1>1. ASSUME NEW rt, rt.service = "user"
      PROVE  CallOf(rt) = UserCalls[rt.handler]
  BY <1>1 DEF CallOf
<1>2. /\ CallOf(Register) = <<"POST", "/users/register">>
      /\ CallOf(Login) = <<"POST", "/users/login">>
      /\ CallOf(RefreshToken) = <<"GET", "/users/refresh-access-token">>
      /\ CallOf(GrantPermissions) = <<"POST", "/users/permissions">>
  BY <1>1, RouteFields DEF Register, Login, RefreshToken, GrantPermissions,
     UserCalls
<1>3. /\ AnswersTo(Register, OnRegister)
      /\ AnswersTo(Login, OnLogin)
      /\ AnswersTo(RefreshToken, OnRefreshToken)
      /\ AnswersTo(GrantPermissions, OnGrantPermissions)
  BY <1>2, Listed DEF AnswersTo, Carries, OwnerRoutes, Route, On, OpenTo, Register, Login,
     RefreshToken, GrantPermissions, OnRegister, OnLogin, OnRefreshToken,
     OnGrantPermissions
<1>4. /\ CallOf(FindAll) = <<"GET", "/users">>
      /\ CallOf(FindById) = <<"GET", "/users/:id">>
      /\ CallOf(UpdateUser) = <<"PUT", "/users/:id">>
      /\ CallOf(DeleteUser) = <<"DELETE", "/users/:id">>
  BY <1>1, RouteFields DEF FindAll, FindById, UpdateUser, DeleteUser, UserCalls
<1>5. /\ AnswersTo(FindAll, OnFindAll)
      /\ AnswersTo(FindById, OnFindById)
      /\ AnswersTo(UpdateUser, OnUpdateUser)
      /\ AnswersTo(DeleteUser, OnDeleteUser)
  BY <1>4, Listed DEF AnswersTo, Carries, OwnerRoutes, Route, On, OpenTo, FindAll, FindById,
     UpdateUser, DeleteUser, OnFindAll, OnFindById, OnUpdateUser, OnDeleteUser
<1>6. /\ CallOf(GetMe) = <<"GET", "/users/me">>
      /\ CallOf(UpdateMe) = <<"PUT", "/users/me">>
      /\ CallOf(DeleteMe) = <<"DELETE", "/users/me">>
  BY <1>1, RouteFields DEF GetMe, UpdateMe, DeleteMe, UserCalls
<1>7. /\ AnswersTo(GetMe, OnGetMe)
      /\ AnswersTo(UpdateMe, OnUpdateMe)
      /\ AnswersTo(DeleteMe, OnDeleteMe)
  BY <1>6, Listed DEF AnswersTo, Carries, OwnerRoutes, Route, On, OpenTo, GetMe, UpdateMe,
     DeleteMe, OnGetMe, OnUpdateMe, OnDeleteMe
<1> QED BY <1>3, <1>5, <1>7 DEF UserRoutes

\* ... so has ms-response ...
LEMMA ResponseAnswers == \A rt \in ResponseRoutes : \E route : AnswersTo(rt, route)
<1>1. ASSUME NEW rt, rt.service = "response"
      PROVE  CallOf(rt) = ResponseCalls[rt.handler]
  BY <1>1 DEF CallOf
<1>2. /\ CallOf(GetLeaderboard) = <<"GET", "/responses/leaderboard/session/:id">>
      /\ CallOf(GetQuestionStats) = <<"GET", "/responses/stats/question/:id">>
      /\ CallOf(GetSessionResponses) = <<"GET", "/responses/session/:id">>
      /\ CallOf(GetParticipantResponses) = <<"GET", "/responses/participant/:id">>
  BY <1>1, RouteFields DEF GetLeaderboard, GetQuestionStats,
     GetSessionResponses, GetParticipantResponses, ResponseCalls
<1>3. /\ AnswersTo(GetLeaderboard, OnGetLeaderboard)
      /\ AnswersTo(GetQuestionStats, OnGetQuestionStats)
      /\ AnswersTo(GetSessionResponses, OnGetAllSessionResponses)
      /\ AnswersTo(GetParticipantResponses, OnGetAllParticipantResponses)
  BY <1>2, Listed DEF AnswersTo, Carries, OwnerRoutes, Route, On, OpenTo, GetLeaderboard,
     GetQuestionStats, GetSessionResponses, GetParticipantResponses,
     OnGetLeaderboard, OnGetQuestionStats, OnGetAllSessionResponses,
     OnGetAllParticipantResponses
<1>4. /\ CallOf(GetQuestionResponses) = <<"GET", "/responses/question/:id">>
      /\ CallOf(AddResponse) = <<"POST", "/responses/response">>
      /\ CallOf(StartResponses) = <<"POST", "/responses/session/start/:id">>
      /\ CallOf(EndResponses) = <<"DELETE", "/responses/session/end/:id">>
  BY <1>1, RouteFields DEF GetQuestionResponses, AddResponse, StartResponses,
     EndResponses, ResponseCalls
<1>5. /\ AnswersTo(GetQuestionResponses, OnGetAllQuestionResponses)
      /\ AnswersTo(AddResponse, OnAddResponse)
      /\ AnswersTo(StartResponses, OnStartResponses)
      /\ AnswersTo(EndResponses, OnEndResponses)
  BY <1>4, Listed DEF AnswersTo, Carries, OwnerRoutes, Route, On, OpenTo,
     GetQuestionResponses, AddResponse, StartResponses, EndResponses,
     OnGetAllQuestionResponses, OnAddResponse, OnStartResponses, OnEndResponses
<1> QED BY <1>3, <1>5 DEF ResponseRoutes

\* ... and so has ms-quizz-management.
LEMMA QuizAnswers == \A rt \in QuizRoutes : \E route : AnswersTo(rt, route)
<1>1. ASSUME NEW rt, rt.service = "quizz", rt.handler \in DOMAIN QuizCalls
      PROVE  CallOf(rt) = QuizCalls[rt.handler]
  BY <1>1 DEF CallOf
<1>2. ASSUME NEW rt, rt.service = "quizz", rt.handler \notin DOMAIN QuizCalls,
             rt.handler \in DOMAIN QuestionCalls
      PROVE  CallOf(rt) = QuestionCalls[rt.handler]
  BY <1>2 DEF CallOf
<1>3. ASSUME NEW rt, rt.service = "quizz", rt.handler \notin DOMAIN QuizCalls,
             rt.handler \notin DOMAIN QuestionCalls
      PROVE  CallOf(rt) = ChoiceCalls[rt.handler]
  BY <1>3 DEF CallOf
<1>4. /\ DOMAIN QuizCalls =
            {"getAllQuizzes", "getQuizById", "createQuiz", "updateQuiz", "deleteQuiz",
             "getQuizAnswers", "getFullQuiz", "getQuizIdsOnly"}
      /\ DOMAIN QuestionCalls =
            {"getAllQuestions", "getQuestionById", "getQuestionsByQuizId",
             "createQuestion", "updateQuestion", "deleteQuestion"}
  BY DEF QuizCalls, QuestionCalls
<1>5. /\ CallOf(GetFullQuiz) = <<"POST", "/quizzes/get-full">>
      /\ CallOf(GetQuizIdsOnly) = <<"POST", "/quizzes/get-ids">>
      /\ CallOf(GetQuizAnswers) = <<"GET", "/quizzes/:id/answers">>
      /\ CallOf(GetAllQuizzes) = <<"GET", "/quizzes">>
  BY <1>1, <1>2, <1>3, <1>4, RouteFields DEF GetFullQuiz, GetQuizIdsOnly,
     GetQuizAnswers, GetAllQuizzes, QuizCalls
<1>6. /\ AnswersTo(GetFullQuiz, OnGetFullQuiz)
      /\ AnswersTo(GetQuizIdsOnly, OnGetQuizIdsOnly)
      /\ AnswersTo(GetQuizAnswers, OnGetQuizAnswers)
      /\ AnswersTo(GetAllQuizzes, OnGetAllQuizzes)
  BY <1>5, Listed DEF AnswersTo, Carries, OwnerRoutes, Route, On, OpenTo, GetFullQuiz,
     GetQuizIdsOnly, GetQuizAnswers, GetAllQuizzes, OnGetFullQuiz,
     OnGetQuizIdsOnly, OnGetQuizAnswers, OnGetAllQuizzes
<1>7. /\ CallOf(GetQuizById) = <<"GET", "/quizzes/:id">>
      /\ CallOf(CreateQuiz) = <<"POST", "/quizzes">>
      /\ CallOf(UpdateQuiz) = <<"PUT", "/quizzes/:id">>
      /\ CallOf(DeleteQuiz) = <<"DELETE", "/quizzes/:id">>
  BY <1>1, <1>2, <1>3, <1>4, RouteFields DEF GetQuizById, CreateQuiz,
     UpdateQuiz, DeleteQuiz, QuizCalls
<1>8. /\ AnswersTo(GetQuizById, OnGetQuizById)
      /\ AnswersTo(CreateQuiz, OnCreateQuiz)
      /\ AnswersTo(UpdateQuiz, OnUpdateQuiz)
      /\ AnswersTo(DeleteQuiz, OnDeleteQuiz)
  BY <1>7, Listed DEF AnswersTo, Carries, OwnerRoutes, Route, On, OpenTo, GetQuizById,
     CreateQuiz, UpdateQuiz, DeleteQuiz, OnGetQuizById, OnCreateQuiz,
     OnUpdateQuiz, OnDeleteQuiz
<1>9. /\ CallOf(GetAllQuestions) = <<"GET", "/questions">>
      /\ CallOf(GetQuestionById) = <<"GET", "/questions/:id">>
      /\ CallOf(GetQuestionsByQuizId) = <<"GET", "/questions/quiz/:id">>
      /\ CallOf(CreateQuestion) = <<"POST", "/questions">>
  BY <1>1, <1>2, <1>3, <1>4, RouteFields DEF GetAllQuestions, GetQuestionById,
     GetQuestionsByQuizId, CreateQuestion, QuestionCalls
<1>10. /\ AnswersTo(GetAllQuestions, OnGetAllQuestions)
       /\ AnswersTo(GetQuestionById, OnGetQuestionById)
       /\ AnswersTo(GetQuestionsByQuizId, OnGetQuestionsByQuizId)
       /\ AnswersTo(CreateQuestion, OnCreateQuestion)
  BY <1>9, Listed DEF AnswersTo, Carries, OwnerRoutes, Route, On, OpenTo, GetAllQuestions,
     GetQuestionById, GetQuestionsByQuizId, CreateQuestion, OnGetAllQuestions,
     OnGetQuestionById, OnGetQuestionsByQuizId, OnCreateQuestion
<1>11. /\ CallOf(UpdateQuestion) = <<"PUT", "/questions/:id">>
       /\ CallOf(DeleteQuestion) = <<"DELETE", "/questions/:id">>
       /\ CallOf(GetAllChoices) = <<"GET", "/choices">>
       /\ CallOf(GetChoiceById) = <<"GET", "/choices/:id">>
  BY <1>1, <1>2, <1>3, <1>4, RouteFields DEF UpdateQuestion, DeleteQuestion,
     GetAllChoices, GetChoiceById, QuestionCalls, ChoiceCalls
<1>12. /\ AnswersTo(UpdateQuestion, OnUpdateQuestion)
       /\ AnswersTo(DeleteQuestion, OnDeleteQuestion)
       /\ AnswersTo(GetAllChoices, OnGetAllChoices)
       /\ AnswersTo(GetChoiceById, OnGetChoiceById)
  BY <1>11, Listed DEF AnswersTo, Carries, OwnerRoutes, Route, On, OpenTo, UpdateQuestion,
     DeleteQuestion, GetAllChoices, GetChoiceById, OnUpdateQuestion,
     OnDeleteQuestion, OnGetAllChoices, OnGetChoiceById
<1>13. /\ CallOf(GetChoicesByQuestionId) = <<"GET", "/choices/question/:id">>
       /\ CallOf(CreateChoice) = <<"POST", "/choices">>
       /\ CallOf(UpdateChoice) = <<"PUT", "/choices/:id">>
       /\ CallOf(DeleteChoice) = <<"DELETE", "/choices/:id">>
  BY <1>1, <1>2, <1>3, <1>4, RouteFields DEF GetChoicesByQuestionId,
     CreateChoice, UpdateChoice, DeleteChoice, ChoiceCalls
<1>14. /\ AnswersTo(GetChoicesByQuestionId, OnGetChoicesByQuestionId)
       /\ AnswersTo(CreateChoice, OnCreateChoice)
       /\ AnswersTo(UpdateChoice, OnUpdateChoice)
       /\ AnswersTo(DeleteChoice, OnDeleteChoice)
  BY <1>13, Listed DEF AnswersTo, Carries, OwnerRoutes, Route, On, OpenTo,
     GetChoicesByQuestionId, CreateChoice, UpdateChoice, DeleteChoice,
     OnGetChoicesByQuestionId, OnCreateChoice, OnUpdateChoice, OnDeleteChoice
<1> QED BY <1>6, <1>8, <1>10, <1>12, <1>14 DEF QuizRoutes

\* A game token that does not verify is refused on every route but the public.
LEMMA ExpiredGameToken ==
  ASSUME NEW rt, NEW h \in Headers,
         rt.token \in {"access", "refresh", "game"}, h.game = Expired
  PROVE  Hooked(rt, h).status # 200
<1>1. h.game # None /\ ~Verifies(h.game)
  BY TokensApart DEF Verifies
<1>2. ASSUME NEW user
      PROVE  GameTokenHook(rt, h, [user |-> user, gameTokenPayload |-> None,
                                   status |-> 200]).status = 401
  <2> DEFINE ctx == [user |-> user, gameTokenPayload |-> None, status |-> 200]
  <2>1. GameTokenHook(rt, h, ctx) = Refuse(ctx, 401)
    BY <1>1 DEF GameTokenHook
  <2>2. Refuse(ctx, 401).status = 401
    BY DEF Refuse
  <2> QED BY <2>1, <2>2
<1>3. CASE rt.token = "access" /\ ~h.metrics
  <2> DEFINE ctx == [user |-> h.access, gameTokenPayload |-> None, status |-> 200]
  <2>1. CASE Verifies(h.access)
    <3>1. AccessTokenHook(rt, h, Start) = ctx
      BY <1>3, <2>1 DEF AccessTokenHook, Start
    <3>2. RefreshTokenHook(rt, h, ctx) = ctx
      BY <1>3 DEF RefreshTokenHook
    <3>3. Hooked(rt, h) = GameTokenHook(rt, h, ctx)
      BY <3>1, <3>2 DEF Hooked
    <3> QED BY <1>2, <3>3
  <2>2. CASE ~Verifies(h.access)
    <3>1. AccessTokenHook(rt, h, Start).status = 401
      BY <1>3, <2>2 DEF AccessTokenHook, Refuse, Start
    <3> QED BY <3>1 DEF Hooked
  <2> QED BY <2>1, <2>2
<1>4. CASE rt.token = "refresh" /\ ~h.metrics
  <2> DEFINE ctx == [user |-> h.refresh, gameTokenPayload |-> None, status |-> 200]
  <2>1. AccessTokenHook(rt, h, Start) = Start /\ Start.status = 200
    BY <1>4 DEF AccessTokenHook, Start
  <2>2. CASE Verifies(h.refresh)
    <3>1. RefreshTokenHook(rt, h, Start) = ctx
      BY <1>4, <2>2 DEF RefreshTokenHook, Start
    <3>2. Hooked(rt, h) = GameTokenHook(rt, h, ctx)
      BY <2>1, <3>1 DEF Hooked
    <3> QED BY <1>2, <3>2
  <2>3. CASE ~Verifies(h.refresh)
    <3>1. RefreshTokenHook(rt, h, Start).status = 401
      BY <1>4, <2>3 DEF RefreshTokenHook, Refuse, Start
    <3> QED BY <2>1, <3>1 DEF Hooked
  <2> QED BY <2>2, <2>3
<1>5. CASE rt.token = "game" \/ h.metrics
  <2>1. /\ AccessTokenHook(rt, h, Start) = Start
        /\ RefreshTokenHook(rt, h, Start) = Start /\ Start.status = 200
    BY <1>5 DEF AccessTokenHook, RefreshTokenHook, Start
  <2>2. Hooked(rt, h) = GameTokenHook(rt, h, Start)
    BY <2>1 DEF Hooked
  <2> QED BY <1>2, <2>2 DEF Start
<1> QED BY <1>3, <1>4, <1>5

\* An account token names an account, a game token a participant and a session.
LEMMA AccountTokenOwner ==
  ASSUME NEW t \in AccountTokens
  PROVE  /\ t.userId \in Users /\ t.role \in UserRole
         /\ t.sessionId = None /\ t.participantId = None
<1>1. PICK u \in Users, r \in UserRole : t = AccountToken(u, r)
  BY DEF AccountTokens
<1> QED BY <1>1 DEF AccountToken, Nobody

LEMMA GameTokenPlace ==
  ASSUME NEW t \in GameTokens
  PROVE  /\ t.sessionId \in Sessions /\ t.participantId \in Participants
         /\ t.role \in UserRole /\ t.userId = None
<1>1. {MODERATOR, USER, SPECTATOR} \subseteq UserRole
  BY DEF UserRole
<1>2. PICK s \in Sessions, p \in Participants :
        \E r \in {MODERATOR, USER, SPECTATOR} : t = GameToken(s, p, r)
  BY DEF GameTokens, HostToken, JoinToken
<1> QED BY <1>1, <1>2 DEF GameToken, Nobody

\* The internal token of a request that is let through is one, and names what
\* the token that decides names.
LEMMA AdmittedToken ==
  ASSUME NEW rt \in Routes, NEW h \in Headers, rt.token # "public",
         Admit(rt, h).status = 200
  PROVE  LET token == Admit(rt, h).token
         IN  token # None /\ Carries(Kind(rt, h)) \subseteq FieldsOf(token)
<1> DEFINE own   == Deciding(rt, h)
           game  == IF h.game = None THEN None ELSE h.game
           ctx   == [user |-> own, gameTokenPayload |-> game, status |-> 200]
           token == Admit(rt, h).token
<1>1. rt.token \in {"access", "refresh", "game"}
  BY RouteTokens DEF Token
<1>2. Hooked(rt, h).status = 200
  BY DEF Admit
<1>3. h.game # Expired
  BY <1>1, <1>2, ExpiredGameToken
<1>4. /\ h.access \in AccountTokens \cup {None, Expired}
      /\ h.refresh \in AccountTokens \cup {None, Expired}
      /\ h.game \in GameTokens \cup {None}
  BY <1>3 DEF Headers
<1>5. Verifies(own) /\ Hooked(rt, h) = ctx
  <2>1. Verifies(own)
    BY <1>3, TokenDecides DEF DecidesAlone
  <2> QED BY <1>1, <1>3, <2>1, HookedContext
<1>6. /\ own \in AccountTokens \cup GameTokens
      /\ Kind(rt, h) # "game" => own \in AccountTokens
      /\ Kind(rt, h) = "game" => own \in GameTokens /\ game = own
  BY <1>1, <1>4, <1>5 DEF Verifies, Deciding, Kind
<1>7. game \in GameTokens \cup {None}
  BY <1>4
<1>8. \A t \in AccountTokens : t \notin GameTokens
  BY AccountTokenFields, GameTokenFields
<1>9. own \in GameTokens => game = own
  BY <1>6, <1>8
<1> HIDE DEF own, game
<1>10. /\ InternalTokenInterceptor(ctx) = ctx /\ ctx.user # None
       /\ InternalToken(ctx).userId = own.userId
       /\ InternalToken(ctx).role = own.role
       /\ InternalToken(ctx).sessionId = (IF game = None THEN None ELSE game.sessionId)
       /\ InternalToken(ctx).participantId = (IF game = None THEN None ELSE game.participantId)
  BY <1>6, <1>7, <1>9, PassedOn
<1>11. token = InternalToken(ctx)
  <2> DEFINE end == RolesHook(rt, ctx)
  <2>1. ctx.status = 200
    OBVIOUS
  <2> HIDE DEF ctx
  <2>2. Admit(rt, h) = [status |-> end.status,
                        token |-> IF end.status # 200 \/ end.user = None THEN None
                                  ELSE InternalToken(end)]
    BY <1>5, <1>10, <2>1 DEF Admit
  <2>3. end.status = 200
    BY <2>2
  <2>4. end = ctx
    BY <1>10, <2>3 DEF RolesHook, Refuse, ctx
  <2> QED BY <1>10, <2>1, <2>2, <2>4
<1>12. token = [userId |-> token.userId, role |-> token.role,
                sessionId |-> token.sessionId, participantId |-> token.participantId]
  BY <1>11 DEF InternalToken
<1>13. /\ token.userId \in Users \cup {None} /\ token.role \in UserRole
       /\ token.sessionId \in Sessions \cup {None}
       /\ token.participantId \in Participants \cup {None}
       /\ Kind(rt, h) # "game" => token.userId \in Users
       /\ Kind(rt, h) = "game" => /\ token.sessionId \in Sessions
                               /\ token.participantId \in Participants
  <2>1. /\ own.userId \in Users \cup {None} /\ own.role \in UserRole
        /\ Kind(rt, h) # "game" => own.userId \in Users
    BY <1>6, AccountTokenOwner, GameTokenPlace
  <2>2. game # None => game.sessionId \in Sessions /\ game.participantId \in Participants
    BY <1>7, GameTokenPlace
  <2>3. Kind(rt, h) = "game" => game # None
    BY <1>6, GameTokenFields
  <2> HIDE DEF token, ctx
  <2> QED BY <1>10, <1>11, <2>1, <2>2, <2>3
<1> HIDE DEF token
<1>14. token \in InternalTokens
  BY <1>12, <1>13 DEF InternalTokens
<1>15. DOMAIN token = {"userId", "role", "sessionId", "participantId"}
  BY <1>12
<1>16. Carries(Kind(rt, h)) \subseteq FieldsOf(token)
  BY <1>1, <1>13, <1>15, TokensApart DEF Carries, FieldsOf, Kind
<1> QED BY <1>14, <1>16, TokensAreSomething DEF token

\* A url that ends with /metrics opens no route of administrators.
LEMMA GameNeverAdmin ==
  ASSUME NEW rt \in Routes, NEW h \in Headers, rt.token # "public", h.metrics,
         Admit(rt, h).status = 200
  PROVE  rt.roles # {ADMIN}
<1>1. rt.token \in {"access", "refresh", "game"}
  BY RouteTokens DEF Token
<1>2. h.game # Expired
  BY <1>1, ExpiredGameToken DEF Admit
<1>3. h.game \in GameTokens \cup {None} /\ h.game = Deciding(rt, h)
  BY <1>2 DEF Headers, Deciding
<1>4. Verifies(h.game)
  BY <1>2, <1>3, TokenDecides DEF DecidesAlone
<1>5. h.game \notin AccountTokens
  BY <1>3, <1>4, AccountTokenFields, GameTokenFields DEF Verifies
<1> QED BY <1>2, <1>3, <1>5, TokenDecides DEF DecidesAlone

\* Only the routes that are open to everybody make no internal token.
LEMMA AnswersServe ==
  ASSUME NEW rt \in Routes, NEW h \in Headers, Admit(rt, h).status = 200,
         ~WithoutAccount(rt, h), NEW route, AnswersTo(rt, route)
  PROVE  Served(CallOf(rt), Admit(rt, h).token)
<1> DEFINE token == Admit(rt, h).token
<1>1. route \in ServiceRoutes /\ route.call = CallOf(rt)
  BY DEF AnswersTo
<1>2. CASE rt.token = "public"
  <2>1. route.public /\ route.needs \subseteq {}
    BY <1>2 DEF AnswersTo, Carries
  <2>2. route.needs = {}
    BY <2>1
  <2>3. Serves(route, token)
    BY <2>1, <2>2 DEF Serves, InternalTokenHook
  <2> QED BY <1>1, <2>3 DEF Served
<1>3. CASE rt.token # "public"
  <2>1. token # None /\ Carries(Kind(rt, h)) \subseteq FieldsOf(token)
    BY <1>3, AdmittedToken
  <2>2. route.needs \subseteq Carries(Kind(rt, h))
    <3>1. CASE h.metrics
      <4>1. Kind(rt, h) = "game"
        BY <1>3, <3>1 DEF Kind
      <4>2. rt.roles # {ADMIN} /\ rt \notin OwnerRoutes
        BY <1>3, <3>1, GameNeverAdmin DEF WithoutAccount
      <4> QED BY <4>1, <4>2 DEF AnswersTo
    <3>2. CASE ~h.metrics
      BY <3>2 DEF AnswersTo, Kind
    <3> QED BY <3>1, <3>2
  <2>3. route.needs \subseteq FieldsOf(token)
    BY <2>1, <2>2
  <2> HIDE DEF token
  <2>4. Serves(route, token)
    BY <2>1, <2>3 DEF Serves, InternalTokenHook
  <2> QED BY <1>1, <2>4 DEF Served, token
<1> QED BY <1>2, <1>3

\* What the handlers of the owners' routes read.
LEMMA OwnersNeed ==
  \A route \in {OnCreateSession, OnRefreshToken, OnGetMe, OnUpdateMe, OnDeleteMe} :
    route.needs = {"userId"} /\ ~route.public
BY DEF OnCreateSession, OnRefreshToken, OnGetMe, OnUpdateMe, OnDeleteMe, On

\* No two routes of the services have the call of an owner's route.
LEMMA OwnersOnly ==
  ASSUME NEW rt \in OwnerRoutes, NEW route \in ServiceRoutes, route.call = CallOf(rt)
  PROVE  ~route.public /\ "userId" \in route.needs
<1> DEFINE Owners == {<<"POST", "/sessions">>, <<"GET", "/users/refresh-access-token">>,
                      <<"GET", "/users/me">>, <<"PUT", "/users/me">>,
                      <<"DELETE", "/users/me">>}
<1>1. CallOf(rt) \in Owners
  BY RouteFields DEF OwnerRoutes, CallOf, CreateSession, RefreshToken, GetMe, UpdateMe,
     DeleteMe, SessionCalls, UserCalls
<1>2. \A x \in {OnShowResults, OnGetSession, OnStartSession, OnNextQuestion,
               OnEndSession, OnDeleteSession, OnGetCurrentQuestion, OnJoinSession,
               OnLeaveSession, OnSubmitResponse, OnAnswerBuzzer} : x.call \notin Owners
  BY DEF On, OpenTo, OnShowResults, OnGetSession, OnStartSession, OnNextQuestion,
     OnEndSession, OnDeleteSession, OnGetCurrentQuestion, OnJoinSession,
     OnLeaveSession, OnSubmitResponse, OnAnswerBuzzer
<1>3. \A x \in {OnRegister, OnLogin, OnGrantPermissions, OnFindAll, OnFindById,
               OnUpdateUser, OnDeleteUser} : x.call \notin Owners
  BY DEF On, OpenTo, OnRegister, OnLogin, OnGrantPermissions, OnFindAll, OnFindById,
     OnUpdateUser, OnDeleteUser
<1>4. \A x \in {OnGetLeaderboard, OnGetQuestionStats, OnAddResponse, OnEndResponses,
               OnStartResponses, OnGetAllSessionResponses, OnGetAllParticipantResponses,
               OnGetAllQuestionResponses, OnGetFullQuiz, OnGetQuizIdsOnly,
               OnGetQuizAnswers, OnGetAllQuizzes, OnGetQuizById, OnCreateQuiz,
               OnUpdateQuiz, OnDeleteQuiz} : x.call \notin Owners
  BY DEF On, OnGetLeaderboard, OnGetQuestionStats, OnAddResponse, OnEndResponses,
     OnStartResponses, OnGetAllSessionResponses, OnGetAllParticipantResponses,
     OnGetAllQuestionResponses, OnGetFullQuiz, OnGetQuizIdsOnly,
     OnGetQuizAnswers, OnGetAllQuizzes, OnGetQuizById, OnCreateQuiz, OnUpdateQuiz,
     OnDeleteQuiz
<1>5. \A x \in {OnGetAllQuestions, OnGetQuestionById, OnGetChoiceIds,
               OnGetQuestionsByQuizId, OnCreateQuestion, OnUpdateQuestion,
               OnDeleteQuestion, OnGetAllChoices, OnGetChoiceById,
               OnGetChoicesByQuestionId, OnCreateChoice, OnUpdateChoice,
               OnDeleteChoice} : x.call \notin Owners
  BY DEF On, OnGetAllQuestions, OnGetQuestionById, OnGetChoiceIds,
     OnGetQuestionsByQuizId, OnCreateQuestion, OnUpdateQuestion, OnDeleteQuestion,
     OnGetAllChoices, OnGetChoiceById, OnGetChoicesByQuestionId, OnCreateChoice,
     OnUpdateChoice, OnDeleteChoice
<1>6. route.call \in Owners
  BY <1>1
<1> HIDE DEF Owners
<1>7. route \in {OnCreateSession, OnRefreshToken, OnGetMe, OnUpdateMe, OnDeleteMe}
  BY <1>2, <1>3, <1>4, <1>5, <1>6 DEF ServiceRoutes
<1> QED BY <1>7, OwnersNeed

\* A request without an account finds no handler that does without one.
LEMMA WithoutAccountUnserved ==
  ASSUME NEW rt \in Routes, NEW h \in Headers, Admit(rt, h).status = 200,
         WithoutAccount(rt, h)
  PROVE  ~Served(CallOf(rt), Admit(rt, h).token)
<1> DEFINE token == Admit(rt, h).token
<1>1. rt \in OwnerRoutes /\ h.metrics
  BY DEF WithoutAccount
<1>2. rt.token # "public"
  BY <1>1, RouteFields DEF OwnerRoutes, CreateSession, RefreshToken, GetMe, UpdateMe, DeleteMe
<1>3. rt.token \in {"access", "refresh", "game"}
  BY <1>2, RouteTokens DEF Token
<1>4. h.game # Expired
  BY <1>3, ExpiredGameToken DEF Admit
<1>5. /\ Deciding(rt, h) = h.game /\ Verifies(h.game)
      /\ token.userId = h.game.userId
  BY <1>1, <1>2, <1>4, TokenDecides DEF DecidesAlone, Deciding
<1>6. h.game \in GameTokens
  BY <1>5 DEF Headers, Verifies
<1>7. "userId" \notin FieldsOf(token)
  BY <1>5, <1>6, GameTokenFields DEF FieldsOf
<1>8. ASSUME NEW route \in ServiceRoutes, route.call = CallOf(rt), Serves(route, token)
      PROVE  FALSE
  <2>1. "userId" \in route.needs
    BY <1>1, <1>8, OwnersOnly
  <2> HIDE DEF token
  <2> QED BY <1>7, <1>8, <2>1 DEF Serves
<1> QED BY <1>8 DEF Served

\* What asks for nothing but a token.
LEMMA FetchServed ==
  ASSUME NEW token, token # None,
         NEW call \in {<<"POST", "/quizzes/get-full">>, <<"POST", "/quizzes/get-ids">>,
                       <<"GET", "/questions/:id">>, <<"GET", "/questions/:id/choices/ids">>,
                       <<"POST", "/responses/response">>,
                       <<"DELETE", "/responses/session/end/:id">>}
  PROVE  Served(call, token)
<1>1. \A route \in {OnGetFullQuiz, OnGetQuizIdsOnly, OnGetQuestionById, OnGetChoiceIds,
                    OnAddResponse, OnEndResponses} :
        route \in ServiceRoutes /\ route.needs = {}
  <2>1. /\ OnGetFullQuiz.needs = {} /\ OnGetQuizIdsOnly.needs = {}
        /\ OnGetQuestionById.needs = {} /\ OnGetChoiceIds.needs = {}
        /\ OnAddResponse.needs = {} /\ OnEndResponses.needs = {}
    BY DEF On, OnGetFullQuiz, OnGetQuizIdsOnly, OnGetQuestionById, OnGetChoiceIds,
       OnAddResponse, OnEndResponses
  <2> QED BY <2>1, Listed
<1>2. \E route \in {OnGetFullQuiz, OnGetQuizIdsOnly, OnGetQuestionById, OnGetChoiceIds,
                    OnAddResponse, OnEndResponses} : route.call = call
  BY DEF On, OnGetFullQuiz, OnGetQuizIdsOnly, OnGetQuestionById, OnGetChoiceIds,
     OnAddResponse, OnEndResponses
<1> QED BY <1>1, <1>2 DEF Served, Serves, InternalTokenHook

\* The handlers that fetch with the token of their request are not public.
LEMMA ForwardersAskForToken ==
  \A rt \in Routes :
    rt.service = "session" /\ rt.handler \in DOMAIN ForwardedCalls => rt.token # "public"
<1>1. \A rt \in SessionRoutes : rt.handler \in DOMAIN ForwardedCalls => rt.token # "public"
  BY RouteFields DEF SessionRoutes, ForwardedCalls, ShowResults, CreateSession, GetSession,
     StartSession, EndSession, DeleteSession, NextQuestion, JoinSession,
     LeaveSession, GetCurrentQuestion, SubmitResponse, AnswerBuzzer
<1>2. \A rt \in UserRoutes : rt.service = "user"
  BY DEF UserRoutes, Route, Register, Login, RefreshToken,
         GrantPermissions, FindAll, FindById, UpdateUser, DeleteUser, GetMe,
         UpdateMe, DeleteMe
<1>3. \A rt \in ResponseRoutes : rt.service = "response"
  BY DEF ResponseRoutes, Route, GetLeaderboard, GetQuestionStats,
         GetSessionResponses, GetParticipantResponses, GetQuestionResponses,
         AddResponse, StartResponses, EndResponses
<1>4. \A rt \in QuizRoutes : rt.service = "quizz"
  BY DEF QuizRoutes, Route, GetFullQuiz, GetQuizIdsOnly, GetQuizAnswers,
         GetAllQuizzes, GetQuizById, CreateQuiz, UpdateQuiz, DeleteQuiz,
         GetAllQuestions, GetQuestionById, GetQuestionsByQuizId, CreateQuestion,
         UpdateQuestion, DeleteQuestion, GetAllChoices, GetChoiceById,
         GetChoicesByQuestionId, CreateChoice, UpdateChoice, DeleteChoice
<1> QED BY <1>1, <1>2, <1>3, <1>4 DEF Routes

\* What the gateway lets through is served: the call has a route of a service,
\* whose handler finds in the internal token the fields it needs; and so is what
\* the service fetches with that token.  Those and only those are not served that
\* go to a handler that reads an account, without one.
THEOREM AdmittedServed ==
  ASSUME NEW rt \in Routes, NEW h \in Headers
  PROVE  IsServed(rt, h)
<1> SUFFICES ASSUME Admit(rt, h).status = 200 PROVE IsServed(rt, h)
  BY DEF IsServed
<1> DEFINE token == Admit(rt, h).token
<1>1. \E route : AnswersTo(rt, route)
  BY SessionAnswers, UserAnswers, ResponseAnswers, QuizAnswers DEF Routes
<1>2. Served(CallOf(rt), token) <=> ~WithoutAccount(rt, h)
  BY <1>1, AnswersServe, WithoutAccountUnserved
<1>3. ASSUME rt.service = "session", rt.handler \in DOMAIN ForwardedCalls
      PROVE  Served(ForwardedCalls[rt.handler], token)
  <2>1. token # None
    BY <1>3, ForwardersAskForToken, AdmittedToken
  <2>2. ForwardedCalls[rt.handler] \in {<<"POST", "/quizzes/get-full">>,
                                       <<"POST", "/quizzes/get-ids">>}
    BY <1>3 DEF ForwardedCalls
  <2> HIDE DEF token
  <2> QED BY <2>1, <2>2, FetchServed
<1> QED BY <1>2, <1>3 DEF IsServed

\* The calls the services make of each other with a token of their own are
\* served too.
THEOREM OwnServed == OwnCallsServed
<1> SUFFICES ASSUME NEW c \in OwnCalls PROVE Served(c[1], c[2])
  BY DEF OwnCallsServed
<1>1. c[2] # None
  BY TokensAreSomething
<1>2. CASE c[1] # <<"GET", "/sessions">>
  <2>1. c[1] \in {<<"POST", "/quizzes/get-full">>, <<"POST", "/quizzes/get-ids">>,
                 <<"GET", "/questions/:id">>, <<"GET", "/questions/:id/choices/ids">>,
                 <<"POST", "/responses/response">>,
                 <<"DELETE", "/responses/session/end/:id">>}
    BY <1>2 DEF OwnCalls
  <2> QED BY <1>1, <2>1, FetchServed
<1>3. CASE c[1] = <<"GET", "/sessions">>
  <2>1. PICK s \in Sessions, p \in Participants : c[2] = SignedForParticipant(s, p)
    BY <1>3 DEF OwnCalls
  <2>2. "sessionId" \in DOMAIN c[2] /\ c[2].sessionId = s
    BY <2>1 DEF SignedForParticipant, Nobody
  <2>3. {"sessionId"} \subseteq FieldsOf(c[2])
    BY <2>2, TokensApart DEF FieldsOf
  <2>4. OnGetSession.call = c[1] /\ OnGetSession.needs = {"sessionId"}
    BY <1>3 DEF OnGetSession, On
  <2> QED BY <1>1, <2>3, <2>4, Listed DEF Served, Serves, InternalTokenHook
<1> QED BY <1>2, <1>3

\* So no tokens of an account are let through to nothing.
COROLLARY NoneUnserved == Unserved = {}
BY AdmittedServed DEF Unserved

=============================================================================
