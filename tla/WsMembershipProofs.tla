-------------------------- MODULE WsMembershipProofs --------------------------
(***************************************************************************)
(* Proofs about WsMembership, for any sessions, users and sockets.          *)
(***************************************************************************)
EXTENDS WsMembership, TLAPS

Joining == \A w \in Sockets : joining[w] # None => IsOpen(w)

\* What the code knows of u: the live socket is u's; no timer runs for the
\* session it is in, but before its join; u is known in one session; and where
\* u has come, they are, or have a timer, or a socket that is to close.
Good(u) ==
  /\ clients[u] # None => IsOpen(clients[u]) /\ UserOf(clients[u]) = u
  /\ u \notin strayed =>
       /\ departure[u] # None /\ Within(u, departure[u]) => joining[clients[u]] # None
       /\ \A s, t \in Known(u) \ {None} : s = t
       /\ \A s \in Sessions : u \in came[s] =>
            \/ clients[u] # None /\ SessionOf(clients[u]) = s
            \/ /\ clients[u] = None
               /\ departure[u] = s \/ \E w \in OpenOf(u) : SessionOf(w) = s

IInv == TypeOK /\ Joining /\ \A u \in Users : Good(u)

----------------------------------------------------------------------------
\* Whoever is said to have come is listed, and has or had come.
LEMMA CameType ==
  ASSUME TypeOK, Came, listed' \in [Sessions -> SUBSET Users]
  PROVE  /\ came' \in [Sessions -> SUBSET Users]
         /\ \A s \in Sessions : \A u \in came'[s] :
              /\ u \in listed'[s]
              /\ u \in came[s] \/ (clients'[u] # None /\ context'[clients'[u]].session = s)
BY DEF Came, TypeOK

\* A user whose sockets and timer are left alone.
LEMMA Untouched ==
  ASSUME IInv, NEW v \in Users, strayed \subseteq strayed',
         clients'[v] = clients[v], departure'[v] = departure[v],
         \A w \in Sockets : \/ context[w] # None /\ context[w].user = v
                            \/ context'[w] # None /\ context'[w].user = v
                            => context'[w] = context[w] /\ joining'[w] = joining[w],
         \A s \in Sessions : v \in came'[s] =>
           v \in came[s] \/ (clients'[v] # None /\ context'[clients'[v]].session = s)
  PROVE  Good(v)'
<1>1. Good(v) /\ clients[v] \in Sockets \cup {None}
  BY DEF IInv, TypeOK
<1>2. clients[v] # None =>
        /\ context'[clients[v]] = context[clients[v]]
        /\ joining'[clients[v]] = joining[clients[v]]
        /\ clients[v] \in OpenOf(v)
  BY <1>1 DEF Good, IsOpen, UserOf, OpenOf
<1>3. OpenOf(v)' = OpenOf(v) /\ \A w \in OpenOf(v) : context'[w] = context[w]
  BY DEF OpenOf, IsOpen, UserOf
<1>4. \A s \in Sessions : v \in came'[s] =>
        v \in came[s] \/ (clients[v] # None /\ SessionOf(clients[v]) = s)
  BY <1>2 DEF SessionOf
<1>5. Known(v)' \subseteq Known(v)
  <2>1. \A s \in Sessions : v \in came'[s] => s \in Known(v)
    BY <1>2, <1>4 DEF Known
  <2>2. \A w \in OpenOf(v)' : context'[w].session \in Known(v)
    BY <1>3 DEF Known, SessionOf
  <2>3. departure'[v] \in Known(v)
    BY DEF Known
  <2> QED BY <2>1, <2>2, <2>3 DEF Known, SessionOf
<1>6. clients'[v] # None => IsOpen(clients[v])' /\ UserOf(clients[v])' = v
  BY <1>1, <1>2 DEF Good, IsOpen, UserOf
<1>7. ASSUME v \notin strayed'
      PROVE  /\ departure'[v] # None /\ Within(v, departure[v])' => joining'[clients'[v]] # None
             /\ \A s, t \in Known(v)' \ {None} : s = t
             /\ \A s \in Sessions : v \in came'[s] =>
                  \/ clients'[v] # None /\ context'[clients'[v]].session = s
                  \/ /\ clients'[v] = None
                     /\ departure'[v] = s \/ \E w \in OpenOf(v)' : context'[w].session = s
  <2>1. v \notin strayed
    BY <1>7
  <2>2. departure'[v] # None /\ Within(v, departure[v])' => joining'[clients'[v]] # None
    BY <1>1, <1>2, <2>1 DEF Good, Within, SessionOf
  <2>3. \A s, t \in Known(v)' \ {None} : s = t
    BY <1>1, <1>5, <2>1 DEF Good
  <2>4. \A s \in Sessions : v \in came'[s] =>
          \/ clients'[v] # None /\ context'[clients'[v]].session = s
          \/ /\ clients'[v] = None
             /\ departure'[v] = s \/ \E w \in OpenOf(v)' : context'[w].session = s
    BY <1>1, <1>2, <1>3, <1>4, <2>1 DEF Good, SessionOf
  <2> QED BY <2>2, <2>3, <2>4
<1> QED BY <1>6, <1>7 DEF Good, IsOpen, UserOf, SessionOf, Within

\* Known sessions after a step in which u is not lost track of.
LEMMA StrayIs ==
  ASSUME TypeOK, NEW u \in Users, NEW s, NEW refused \in BOOLEAN, Stray(u, s, refused)
  PROVE  /\ strayed \subseteq strayed' /\ strayed' \subseteq Users
         /\ u \notin strayed' => /\ u \notin strayed /\ Known(u) \subseteq {s, None}
                                 /\ ~(refused /\ s \in Known(u))
BY DEF Stray, TypeOK

\* A user who is not lost track of is known in s only, and is in it with their
\* live socket or, with none, will be reminded of.
LEMMA GoodIf ==
  ASSUME NEW u \in Users, NEW s \in Sessions \cup {None}, TypeOK',
         clients'[u] # None => context'[clients'[u]] # None /\ context'[clients'[u]].user = u,
         u \notin strayed' =>
           /\ departure'[u] # None /\ clients'[u] # None
                /\ context'[clients'[u]].session = departure'[u] => joining'[clients'[u]] # None
           /\ departure'[u] \in {s, None}
           /\ \A w \in Sockets : context'[w] # None /\ context'[w].user = u
                                   => context'[w].session \in {s, None}
           /\ \A t \in Sessions : u \in came'[t] =>
                /\ t = s
                /\ \/ clients'[u] # None /\ context'[clients'[u]].session = s
                   \/ /\ clients'[u] = None
                      /\ \/ departure'[u] = s
                         \/ \E w \in Sockets : context'[w] # None /\ context'[w].user = u
                                                 /\ context'[w].session = s
  PROVE  Good(u)'
<1>1. ASSUME u \notin strayed'
      PROVE  Known(u)' \subseteq {s, None}
  BY <1>1 DEF Known, OpenOf, IsOpen, UserOf, SessionOf
<1>2. u \notin strayed' => \A r, t \in Known(u)' \ {None} : r = t
  BY <1>1
<1> QED BY <1>2 DEF Good, IsOpen, UserOf, SessionOf, Within, OpenOf

LEMMA ListTypes ==
  ASSUME NEW list \in [Sessions -> SUBSET Users], NEW s \in Sessions, NEW u \in Users
  PROVE  /\ AddParticipant(list, s, u) \in [Sessions -> SUBSET Users]
         /\ RemoveParticipant(list, s, u) \in [Sessions -> SUBSET Users]
BY DEF AddParticipant, RemoveParticipant

\* userJoinSession.
LEMMA JoinsAs ==
  ASSUME IInv, NEW w \in Sockets, IsOpen(w), NEW s \in Sessions,
         NEW u, u = UserOf(w), NEW previous, previous = SessionOf(w),
         NEW list \in [Sessions -> SUBSET Users],
         NEW cap \in [Sessions -> Capacity \cup {None}],
         UserJoinSession(w, s, list, cap),
         UNCHANGED clients, Came,
         \A x \in Sockets : x # w => joining'[x] = joining[x],
         joining' \in [Sockets -> Sessions \cup {None}],
         \A x \in Sockets : joining'[x] # None => joining[x] # None,
         UNCHANGED <<closing, faults>>, topic' \in Seq(Event), cursor' \in Nat
  PROVE  IInv'
<1> DEFINE refused == \/ cap[s] = None
                      \/ cap[s] # None /\ previous # s /\ Closed(list, cap, s)
<1>1. /\ context[w] \in Context /\ u \in Users /\ previous \in Sessions \cup {None}
      /\ context[w] # None /\ context[w].user = u /\ context[w].session = previous
      /\ s # None /\ None \notin Sessions /\ None \notin Sockets
  BY NoneType DEF IInv, TypeOK, IsOpen, Context, UserOf, SessionOf
<1>2. /\ capacity' = cap
      /\ Stray(u, s, refused /\ previous # s)
      /\ \/ /\ refused /\ listed' = list
            /\ departure' = ClearPendingDeparture(u) /\ UNCHANGED context
         \/ /\ ~refused /\ previous = s
            /\ listed' = AddParticipant(list, s, u)
            /\ departure' = ClearPendingDeparture(u) /\ UNCHANGED context
         \/ /\ ~refused /\ previous # s
            /\ listed' = AddParticipant(IF previous = None THEN list
                                        ELSE RemoveParticipant(list, previous, u), s, u)
            /\ departure' = IF previous = None THEN ClearPendingDeparture(u)
                            ELSE HandleSessionDeparture(previous, u)
            /\ context' = [context EXCEPT ![w].session = s]
  BY DEF UserJoinSession
<1> HIDE DEF refused
<1>3. refused \in BOOLEAN
  BY DEF refused
<1>4. /\ strayed \subseteq strayed' /\ strayed' \subseteq Users
      /\ u \notin strayed' => /\ u \notin strayed /\ Known(u) \subseteq {s, None}
                              /\ ~(refused /\ previous # s /\ s \in Known(u))
  BY <1>1, <1>2, <1>3, StrayIs DEF IInv
<1>5. context \in [Sockets -> Context \cup {None}] /\ departure \in [Users -> Sessions \cup {None}]
  BY DEF IInv, TypeOK
<1>6. /\ departure' \in [Users -> Sessions \cup {None}]
      /\ \A v \in Users : v # u => departure'[v] = departure[v]
      /\ departure'[u] \in {previous, None}
  BY <1>1, <1>2, <1>5 DEF ClearPendingDeparture, HandleSessionDeparture
<1>7. [context[w] EXCEPT !.session = s] = [user |-> u, session |-> s]
  BY <1>1 DEF Context
<1>8. /\ context' \in [Sockets -> Context \cup {None}]
      /\ \A x \in Sockets : x # w => context'[x] = context[x]
      /\ context'[w] # None /\ context'[w].user = u
      /\ context'[w].session = s \/ (context'[w].session = previous /\ refused)
  <2>1. [user |-> u, session |-> s] \in Context /\ [user |-> u, session |-> s] # None
    BY <1>1, NoContextIsNone DEF Context
  <2>2. CASE UNCHANGED context /\ (refused \/ previous = s)
    BY <1>1, <1>5, <2>2
  <2>3. CASE context' = [context EXCEPT ![w].session = s]
    <3>1. context' = [context EXCEPT ![w] = [user |-> u, session |-> s]]
      BY <1>5, <1>7, <2>3
    <3>2. /\ context' \in [Sockets -> Context \cup {None}]
          /\ \A x \in Sockets : x # w => context'[x] = context[x]
          /\ context'[w] = [user |-> u, session |-> s]
      BY <1>5, <2>1, <3>1
    <3> QED BY <2>1, <3>2
  <2> QED BY <1>2, <2>2, <2>3
<1>9. listed' \in [Sessions -> SUBSET Users]
  <2> DEFINE base == IF previous = None THEN list ELSE RemoveParticipant(list, previous, u)
  <2>1. base \in [Sessions -> SUBSET Users]
    BY <1>1, ListTypes
  <2> HIDE DEF base
  <2>2. /\ AddParticipant(base, s, u) \in [Sessions -> SUBSET Users]
        /\ AddParticipant(list, s, u) \in [Sessions -> SUBSET Users]
    BY <1>1, <2>1, ListTypes
  <2> QED BY <1>2, <2>2 DEF base
<1>10. came' \in [Sessions -> SUBSET Users]
  BY <1>9, CameType DEF IInv
<1>11. TypeOK'
  BY <1>2, <1>4, <1>6, <1>8, <1>9, <1>10 DEF IInv, TypeOK
<1>12. Joining'
  <2>1. \A x \in Sockets : context[x] # None => context'[x] # None
    BY <1>8
  <2> QED BY <2>1 DEF IInv, Joining, IsOpen
<1>13. \A t \in Sessions : \A v \in came'[t] :
         v \in came[t] \/ (clients'[v] # None /\ context'[clients'[v]].session = t)
  BY <1>9, CameType DEF IInv
<1>14. ASSUME NEW v \in Users, v # u
       PROVE  Good(v)'
  <2>1. \A x \in Sockets : \/ context[x] # None /\ context[x].user = v
                           \/ context'[x] # None /\ context'[x].user = v
                           => x # w
    BY <1>1, <1>8, <1>14
  <2> QED BY <1>4, <1>6, <1>8, <1>13, <1>14, <2>1, Untouched
<1>15. Good(u)'
  <2>1. Good(u) /\ clients[u] \in Sockets \cup {None}
    BY <1>1 DEF IInv, TypeOK
  <2>2. clients'[u] # None => context'[clients'[u]] # None /\ context'[clients'[u]].user = u
    BY <1>8, <2>1 DEF Good, IsOpen, UserOf
  <2>3. ASSUME u \notin strayed'
        PROVE  /\ Known(u) \subseteq {s, None} /\ previous \in Known(u)
               /\ departure'[u] = None
               /\ ~(refused /\ previous # s /\ s \in Known(u))
    <3>1. Known(u) \subseteq {s, None} /\ ~(refused /\ previous # s /\ s \in Known(u))
      BY <1>4, <2>3
    <3>2. previous \in Known(u)
      BY <1>1 DEF Known, OpenOf, IsOpen, UserOf
    <3>3. departure'[u] = None
      BY <1>1, <1>2, <1>5, <3>1, <3>2 DEF ClearPendingDeparture
    <3> QED BY <3>1, <3>2, <3>3
  <2>4. ASSUME u \notin strayed', NEW x \in Sockets, context'[x] # None, context'[x].user = u
        PROVE  context'[x].session \in {s, None}
    <3>1. CASE x = w
      BY <1>8, <2>3, <2>4, <3>1
    <3>2. CASE x # w
      <4>1. x \in OpenOf(u) /\ context'[x].session = SessionOf(x)
        BY <1>8, <2>4, <3>2 DEF OpenOf, IsOpen, UserOf, SessionOf
      <4>2. SessionOf(x) \in Known(u)
        BY <4>1 DEF Known
      <4> QED BY <2>3, <2>4, <4>1, <4>2
    <3> QED BY <3>1, <3>2
  <2>5. ASSUME u \notin strayed', NEW t \in Sessions, u \in came'[t]
        PROVE  /\ t = s
               /\ \/ clients'[u] # None /\ context'[clients'[u]].session = s
                  \/ /\ clients'[u] = None
                     /\ \E x \in Sockets : context'[x] # None /\ context'[x].user = u
                                             /\ context'[x].session = s
    <3>1. CASE u \in came[t]
      <4>1. t = s /\ s \in Known(u)
        BY <1>1, <2>3, <2>5, <3>1 DEF Known
      <4>2. context'[w].session = s
        BY <1>1, <1>2, <1>8, <2>3, <2>5, <4>1
      <4>3. clients[u] # None => SessionOf(clients[u]) = s
        BY <1>4, <2>1, <2>5, <3>1, <4>1 DEF Good
      <4>4. clients[u] # None => context'[clients[u]].session = s
        BY <1>8, <2>1, <4>2, <4>3 DEF SessionOf
      <4> QED BY <1>8, <4>1, <4>2, <4>4
    <3>2. CASE clients'[u] # None /\ context'[clients'[u]].session = t
      BY <1>1, <2>1, <2>2, <2>4, <2>5, <3>2
    <3> QED BY <1>13, <2>5, <3>1, <3>2
  <2> QED BY <1>1, <1>11, <2>2, <2>3, <2>4, <2>5, GoodIf
<1> QED BY <1>11, <1>12, <1>14, <1>15 DEF IInv

LEMMA Joins ==
  ASSUME IInv, NEW w \in Sockets, IsOpen(w), NEW s \in Sessions,
         NEW list \in [Sessions -> SUBSET Users],
         NEW cap \in [Sessions -> Capacity \cup {None}],
         UserJoinSession(w, s, list, cap),
         UNCHANGED clients, Came,
         \A x \in Sockets : x # w => joining'[x] = joining[x],
         joining' \in [Sockets -> Sessions \cup {None}],
         \A x \in Sockets : joining'[x] # None => joining[x] # None,
         UNCHANGED <<closing, faults>>, topic' \in Seq(Event), cursor' \in Nat
  PROVE  IInv'
<1>1. PICK u, previous : u = UserOf(w) /\ previous = SessionOf(w)
  OBVIOUS
<1> QED BY <1>1, JoinsAs

\* Sockets and timers are left alone.
LEMMA Apart ==
  ASSUME IInv, TypeOK', UNCHANGED <<clients, context, joining, departure, strayed>>,
         UNCHANGED came \/ Came
  PROVE  IInv'
<1>1. \A s \in Sessions : \A v \in came'[s] :
        v \in came[s] \/ (clients'[v] # None /\ context'[clients'[v]].session = s)
  BY CameType DEF IInv, TypeOK
<1>2. \A v \in Users : Good(v)'
  BY <1>1, Untouched
<1>3. Joining'
  BY DEF IInv, Joining, IsOpen
<1> QED BY <1>2, <1>3 DEF IInv

----------------------------------------------------------------------------
(* Messages.                                                                *)

LEMMA ConnectStep ==
  ASSUME IInv, NEW u \in Users, NEW w \in Sockets, NEW s \in Sessions \cup {None},
         Connect(u, w, s)
  PROVE  IInv'
<1>1. /\ context[w] = None /\ closing' = closing \cup ({clients[u]} \ {None})
      /\ clients' = [clients EXCEPT ![u] = w]
      /\ context' = [context EXCEPT ![w] = [user |-> u, session |-> s]]
      /\ joining' = [joining EXCEPT ![w] = s]
      /\ Stray(u, s, FALSE) /\ UNCHANGED <<feed, stores, faults>> /\ Came
  BY DEF Connect, IsOpen
<1>2. UNCHANGED <<topic, cursor, listed, capacity, departure, faults>>
  BY <1>1 DEF feed, stores
<1>3. /\ clients \in [Users -> Sockets \cup {None}]
      /\ context \in [Sockets -> Context \cup {None}]
      /\ joining \in [Sockets -> Sessions \cup {None}] /\ closing \subseteq Sockets
      /\ departure \in [Users -> Sessions \cup {None}]
      /\ listed \in [Sessions -> SUBSET Users]
  BY DEF IInv, TypeOK
<1>4. [user |-> u, session |-> s] \in Context /\ [user |-> u, session |-> s] # None /\ w # None
  BY NoContextIsNone, NoneType DEF Context
<1>5. /\ context' \in [Sockets -> Context \cup {None}]
      /\ context'[w] # None /\ context'[w].user = u /\ context'[w].session = s
      /\ \A x \in Sockets : x # w => context'[x] = context[x]
  BY <1>1, <1>3, <1>4
<1>6. /\ clients' \in [Users -> Sockets \cup {None}] /\ clients'[u] = w
      /\ \A v \in Users : v # u => clients'[v] = clients[v]
  BY <1>1, <1>3
<1>7. /\ joining' \in [Sockets -> Sessions \cup {None}] /\ joining'[w] = s
      /\ \A x \in Sockets : x # w => joining'[x] = joining[x]
  BY <1>1, <1>3
<1>8. /\ strayed \subseteq strayed' /\ strayed' \subseteq Users
      /\ u \notin strayed' => u \notin strayed /\ Known(u) \subseteq {s, None}
  BY <1>1, StrayIs DEF IInv
<1>9. /\ came' \in [Sessions -> SUBSET Users]
      /\ \A t \in Sessions : \A v \in came'[t] :
           v \in came[t] \/ (clients'[v] # None /\ context'[clients'[v]].session = t)
  BY <1>1, <1>2, <1>3, CameType DEF IInv
<1>10. closing' \subseteq Sockets
  BY <1>1, <1>3
<1>11. TypeOK'
  BY <1>2, <1>5, <1>6, <1>7, <1>8, <1>9, <1>10 DEF IInv, TypeOK
<1>12. Joining'
  BY <1>5, <1>7 DEF IInv, Joining, IsOpen
<1>13. ASSUME NEW v \in Users, v # u
       PROVE  Good(v)'
  <2>1. \A x \in Sockets : \/ context[x] # None /\ context[x].user = v
                           \/ context'[x] # None /\ context'[x].user = v
                           => x # w
    BY <1>1, <1>5, <1>13
  <2> QED BY <1>2, <1>5, <1>6, <1>7, <1>8, <1>9, <1>13, <2>1, Untouched
<1>14. Good(u)'
  <2>1. ASSUME u \notin strayed'
        PROVE  /\ departure'[u] \in {s, None}
               /\ \A x \in Sockets : context'[x] # None /\ context'[x].user = u
                                       => context'[x].session \in {s, None}
               /\ \A t \in Sessions : u \in came'[t] => t = s
    <3>1. Known(u) \subseteq {s, None}
      BY <1>8, <2>1
    <3>2. departure'[u] \in {s, None}
      BY <1>2, <3>1 DEF Known
    <3>3. ASSUME NEW x \in Sockets, context'[x] # None, context'[x].user = u
          PROVE  context'[x].session \in {s, None}
      <4>1. CASE x = w
        BY <1>5, <4>1
      <4>2. CASE x # w
        <5>1. x \in OpenOf(u) /\ context'[x].session = SessionOf(x)
          BY <1>5, <3>3, <4>2 DEF OpenOf, IsOpen, UserOf, SessionOf
        <5> QED BY <3>1, <5>1 DEF Known
      <4> QED BY <4>1, <4>2
    <3>4. ASSUME NEW t \in Sessions, u \in came'[t]
          PROVE  t = s
      <4>1. u \in came[t] => t \in {s, None}
        BY <3>1 DEF Known
      <4> QED BY <1>5, <1>6, <1>9, <3>4, <4>1, NoneType
    <3> QED BY <3>2, <3>3, <3>4
  <2>2. clients'[u] # None /\ context'[clients'[u]].user = u /\ context'[clients'[u]] # None
    BY <1>4, <1>5, <1>6
  <2> QED BY <1>4, <1>5, <1>6, <1>7, <1>11, <2>1, <2>2, GoodIf
<1> QED BY <1>11, <1>12, <1>13, <1>14 DEF IInv

LEMMA AutoJoinStep ==
  ASSUME IInv, NEW w \in Sockets, AutoJoin(w)
  PROVE  IInv'
<1>1. /\ joining[w] # None /\ UserJoinSession(w, joining[w], listed, capacity)
      /\ joining' = [joining EXCEPT ![w] = None]
      /\ UNCHANGED <<feed, clients, closing, faults>> /\ Came
  BY DEF AutoJoin
<1>2. /\ joining \in [Sockets -> Sessions \cup {None}] /\ topic \in Seq(Event) /\ cursor \in Nat
      /\ listed \in [Sessions -> SUBSET Users]
      /\ capacity \in [Sessions -> Capacity \cup {None}]
  BY DEF IInv, TypeOK
<1>3. joining[w] \in Sessions /\ IsOpen(w)
  BY <1>1, <1>2 DEF IInv, Joining
<1>4. /\ joining' \in [Sockets -> Sessions \cup {None}]
      /\ \A x \in Sockets : x # w => joining'[x] = joining[x]
      /\ \A x \in Sockets : joining'[x] # None => joining[x] # None
  BY <1>1, <1>2
<1>5. UNCHANGED <<topic, cursor, closing, faults, clients>>
  BY <1>1 DEF feed
<1> QED BY <1>1, <1>2, <1>3, <1>4, <1>5, Joins

LEMMA JoinMessageStep ==
  ASSUME IInv, NEW w \in Sockets, NEW s \in Sessions, JoinMessage(w, s)
  PROVE  IInv'
<1>1. /\ IsOpen(w) /\ UserJoinSession(w, s, listed, capacity) /\ Came
      /\ UNCHANGED <<feed, clients, closing, joining, faults>>
  BY DEF JoinMessage, Quiet
<1>2. /\ joining \in [Sockets -> Sessions \cup {None}] /\ topic \in Seq(Event) /\ cursor \in Nat
      /\ listed \in [Sessions -> SUBSET Users]
      /\ capacity \in [Sessions -> Capacity \cup {None}]
  BY DEF IInv, TypeOK
<1>3. UNCHANGED <<topic, cursor, closing, faults, clients, joining>>
  BY <1>1 DEF feed
<1> QED BY <1>1, <1>2, <1>3, Joins

LEMMA CreateMessageStep ==
  ASSUME IInv, NEW w \in Sockets, NEW s \in Sessions, NEW n \in Rooms, CreateMessage(w, s, n)
  PROVE  IInv'
<1> DEFINE cap == [capacity EXCEPT ![s] = [room |-> n, started |-> FALSE, owner |-> UserOf(w)]]
<1>1. /\ IsOpen(w) /\ UserOf(w) \in Hosts /\ UserJoinSession(w, s, listed, cap) /\ Came
      /\ UNCHANGED <<feed, clients, closing, joining, faults>>
  BY DEF CreateMessage, Quiet
<1>2. /\ joining \in [Sockets -> Sessions \cup {None}] /\ topic \in Seq(Event) /\ cursor \in Nat
      /\ listed \in [Sessions -> SUBSET Users]
      /\ capacity \in [Sessions -> Capacity \cup {None}]
  BY DEF IInv, TypeOK
<1>3. [room |-> n, started |-> FALSE, owner |-> UserOf(w)] \in Capacity
  BY <1>1 DEF Capacity
<1>4. cap \in [Sessions -> Capacity \cup {None}]
  BY <1>2, <1>3
<1>5. UNCHANGED <<topic, cursor, closing, faults, clients, joining>>
  BY <1>1 DEF feed
<1> HIDE DEF cap
<1> QED BY <1>1, <1>2, <1>4, <1>5, Joins

LEMMA StartMessageStep ==
  ASSUME IInv, NEW w \in Sockets, StartMessage(w)
  PROVE  IInv'
<1>1. PICK s : s = SessionOf(w)
  OBVIOUS
<1>2. /\ IsOpen(w) /\ s # None /\ capacity[s] # None
      /\ capacity' = [capacity EXCEPT ![s].started = TRUE]
      /\ UNCHANGED <<feed, wire, listed, departure, history, faults>>
  BY <1>1 DEF StartMessage, Quiet
<1>3. s \in Sessions
  BY <1>1, <1>2 DEF IInv, TypeOK, IsOpen, SessionOf, Context
<1>4. capacity[s] \in Capacity /\ capacity \in [Sessions -> Capacity \cup {None}]
  BY <1>2, <1>3 DEF IInv, TypeOK
<1>5. [capacity[s] EXCEPT !.started = TRUE] \in Capacity
  BY <1>4 DEF Capacity
<1>6. capacity' = [capacity EXCEPT ![s] = [capacity[s] EXCEPT !.started = TRUE]]
  BY <1>2, <1>3, <1>4
<1>7. capacity' \in [Sessions -> Capacity \cup {None}]
  BY <1>4, <1>5, <1>6
<1>8. UNCHANGED <<topic, cursor, clients, context, closing, joining, listed, departure, came,
                  strayed, faults>>
  BY <1>2 DEF feed, wire, history
<1>9. TypeOK'
  BY <1>7, <1>8 DEF IInv, TypeOK
<1> QED BY <1>8, <1>9, Apart

----------------------------------------------------------------------------
(* Departures.                                                              *)

\* A user who is not lost track of is known in one session, if any.
LEMMA OneKnown ==
  ASSUME TypeOK, NEW u \in Users, Good(u)
  PROVE  \E s \in Sessions \cup {None} : u \notin strayed => Known(u) \subseteq {s, None}
<1>1. Known(u) \subseteq Sessions \cup {None}
  <2>1. \A w \in OpenOf(u) : SessionOf(w) \in Sessions \cup {None}
    BY DEF TypeOK, OpenOf, IsOpen, SessionOf, Context
  <2>2. departure[u] \in Sessions \cup {None}
    BY DEF TypeOK
  <2> QED BY <2>1, <2>2 DEF Known
<1>2. CASE u \in strayed
  BY <1>2
<1>3. CASE u \notin strayed /\ Known(u) \subseteq {None}
  BY <1>3
<1>4. CASE u \notin strayed /\ ~(Known(u) \subseteq {None})
  <2>1. PICK s \in Known(u) : s # None
    BY <1>4
  <2>2. \A t \in Known(u) \ {None} : t = s
    BY <1>4, <2>1 DEF Good
  <2> QED BY <1>1, <2>1, <2>2
<1> QED BY <1>2, <1>3, <1>4

\* The close event of a socket of u, which was in session t.
LEMMA DisconnectAs ==
  ASSUME IInv, NEW w \in Sockets, Disconnect(w),
         NEW u, u = UserOf(w), NEW old, old = SessionOf(w)
  PROVE  IInv'
<1>1. /\ context[w] # None /\ joining[w] = None
      /\ clients' = [clients EXCEPT ![u] = IF @ = w THEN None ELSE @]
      /\ departure' = IF old # None /\ clients'[u] = None
                      THEN [departure EXCEPT ![u] = old] ELSE departure
      /\ context' = [context EXCEPT ![w] = None] /\ closing' = closing \ {w}
      /\ UNCHANGED <<feed, joining, listed, capacity, strayed, faults>> /\ Came
  BY DEF Disconnect, Quiet, IsOpen, OpenOf, HandleSessionDeparture
<1>2. UNCHANGED <<topic, cursor, joining, listed, capacity, strayed, faults>>
  BY <1>1 DEF feed
<1>3. /\ clients \in [Users -> Sockets \cup {None}]
      /\ context \in [Sockets -> Context \cup {None}] /\ closing \subseteq Sockets
      /\ departure \in [Users -> Sessions \cup {None}]
      /\ listed \in [Sessions -> SUBSET Users]
  BY DEF IInv, TypeOK
<1>4. /\ u \in Users /\ old \in Sessions \cup {None}
      /\ context[w].user = u /\ context[w].session = old
  BY <1>1, <1>3 DEF UserOf, SessionOf, Context
<1>5. Good(u)
  BY <1>4 DEF IInv
<1>6. /\ context' \in [Sockets -> Context \cup {None}] /\ context'[w] = None
      /\ \A x \in Sockets : x # w => context'[x] = context[x]
  BY <1>1, <1>3
<1>7. /\ clients' \in [Users -> Sockets \cup {None}]
      /\ clients'[u] = IF clients[u] = w THEN None ELSE clients[u]
      /\ \A v \in Users : v # u => clients'[v] = clients[v]
  BY <1>1, <1>3, <1>4
<1>8. /\ departure' \in [Users -> Sessions \cup {None}]
      /\ departure'[u] = IF old # None /\ clients'[u] = None THEN old ELSE departure[u]
      /\ \A v \in Users : v # u => departure'[v] = departure[v]
  BY <1>1, <1>3, <1>4
<1>9. /\ came' \in [Sessions -> SUBSET Users]
      /\ \A t \in Sessions : \A v \in came'[t] :
           v \in came[t] \/ (clients'[v] # None /\ context'[clients'[v]].session = t)
  BY <1>1, <1>2, <1>3, CameType DEF IInv
<1>10. closing' \subseteq Sockets
  BY <1>1, <1>3
<1>11. TypeOK'
  BY <1>2, <1>6, <1>7, <1>8, <1>9, <1>10 DEF IInv, TypeOK
<1>12. Joining'
  BY <1>1, <1>2, <1>6 DEF IInv, Joining, IsOpen
<1>13. ASSUME NEW v \in Users, v # u
       PROVE  Good(v)'
  <2>1. \A x \in Sockets : \/ context[x] # None /\ context[x].user = v
                           \/ context'[x] # None /\ context'[x].user = v
                           => x # w
    BY <1>4, <1>6, <1>13
  <2> QED BY <1>2, <1>6, <1>7, <1>8, <1>9, <1>13, <2>1, Untouched
<1>14. Good(u)'
  <2>1. PICK s \in Sessions \cup {None} : u \notin strayed => Known(u) \subseteq {s, None}
    BY <1>4, <1>5, OneKnown DEF IInv
  <2>2. clients'[u] # None =>
          /\ clients'[u] = clients[u] /\ clients[u] # w /\ clients[u] \in Sockets
          /\ context'[clients[u]] = context[clients[u]]
          /\ context[clients[u]] # None /\ context[clients[u]].user = u
          /\ departure'[u] = departure[u]
    BY <1>3, <1>4, <1>5, <1>6, <1>7, <1>8 DEF Good, IsOpen, UserOf
  <2>3. clients'[u] # None => context'[clients'[u]] # None /\ context'[clients'[u]].user = u
    BY <2>2
  <2>4. ASSUME u \notin strayed
        PROVE  /\ departure'[u] # None /\ clients'[u] # None
                    /\ context'[clients'[u]].session = departure'[u] => joining'[clients'[u]] # None
               /\ departure'[u] \in {s, None}
               /\ \A x \in Sockets : context'[x] # None /\ context'[x].user = u
                                       => context'[x].session \in {s, None}
    <3>1. departure'[u] # None /\ clients'[u] # None
            /\ context'[clients'[u]].session = departure'[u] => joining'[clients'[u]] # None
      BY <1>2, <1>5, <2>2, <2>4 DEF Good, Within, SessionOf
    <3>2. \A x \in Sockets : context[x] # None /\ context[x].user = u
                               => context[x].session \in {s, None}
      BY <2>1, <2>4 DEF Known, OpenOf, IsOpen, UserOf, SessionOf
    <3>3. departure'[u] \in {s, None}
      BY <1>1, <1>4, <1>8, <2>1, <2>4, <3>2 DEF Known
    <3> QED BY <1>6, <3>1, <3>2, <3>3
  <2>5. ASSUME u \notin strayed, NEW t \in Sessions, u \in came'[t]
        PROVE  /\ t = s
               /\ \/ clients'[u] # None /\ context'[clients'[u]].session = s
                  \/ /\ clients'[u] = None
                     /\ \/ departure'[u] = s
                        \/ \E x \in Sockets : context'[x] # None /\ context'[x].user = u
                                                /\ context'[x].session = s
    <3>1. CASE clients'[u] # None
      <4>1. u \in came[t] => context[clients[u]].session = t
        BY <1>5, <2>2, <2>5, <3>1 DEF Good, SessionOf
      <4>2. context'[clients'[u]].session = t
        BY <1>9, <2>2, <2>5, <3>1, <4>1
      <4>3. t \in {s, None}
        BY <2>2, <2>3, <2>4, <2>5, <3>1, <4>2
      <4> QED BY <3>1, <4>2, <4>3, NoneType
    <3>2. CASE clients'[u] = None
      <4>1. u \in came[t]
        BY <1>9, <2>5, <3>2
      <4>2. t = s /\ s # None
        BY <2>1, <2>5, <4>1, NoneType DEF Known
      <4>3. old \in {s, None}
        BY <1>1, <1>4, <2>1, <2>5 DEF Known, OpenOf, IsOpen, UserOf, SessionOf
      <4>4. CASE old = s
        BY <1>8, <3>2, <4>2, <4>4
      <4>5. CASE old = None
        <5>1. clients[u] = None
          BY <1>4, <1>5, <1>7, <2>5, <3>2, <4>1, <4>2, <4>5 DEF Good, SessionOf
        <5>2. departure[u] = s \/ \E x \in OpenOf(u) : SessionOf(x) = s
          BY <1>5, <2>5, <4>1, <4>2, <5>1 DEF Good
        <5>3. departure'[u] = departure[u]
          BY <1>8, <4>5
        <5>4. ASSUME NEW x \in OpenOf(u), SessionOf(x) = s
              PROVE  /\ x \in Sockets /\ context'[x] # None /\ context'[x].user = u
                     /\ context'[x].session = s
          <6>1. x # w
            BY <1>4, <4>2, <4>5, <5>4 DEF SessionOf
          <6> QED BY <1>6, <5>4, <6>1 DEF OpenOf, IsOpen, UserOf, SessionOf
        <5> QED BY <3>2, <4>2, <5>2, <5>3, <5>4
      <4> QED BY <4>3, <4>4, <4>5
    <3> QED BY <3>1, <3>2
  <2> QED BY <1>2, <1>4, <1>11, <2>3, <2>4, <2>5, GoodIf
<1> QED BY <1>11, <1>12, <1>13, <1>14 DEF IInv

LEMMA DisconnectStep ==
  ASSUME IInv, NEW w \in Sockets, Disconnect(w)
  PROVE  IInv'
<1>1. PICK u, old : u = UserOf(w) /\ old = SessionOf(w)
  OBVIOUS
<1> QED BY <1>1, DisconnectAs

\* The timer of u for session s: u is not said to have come any more.
LEMMA ExpireAs ==
  ASSUME IInv, NEW u \in Users, Expire(u), NEW s, s = departure[u]
  PROVE  IInv'
<1> DEFINE left == RemoveParticipant(listed, s, u)
<1>1. /\ s # None /\ departure' = [departure EXCEPT ![u] = None]
      /\ listed' = left \/ listed' = [listed EXCEPT ![s] = {}]
      /\ capacity' = [capacity EXCEPT ![s] = None] \/ capacity' = capacity
      /\ closing' = closing \cup SessionSockets(left, s) \/ closing' = closing
      /\ UNCHANGED <<feed, clients, context, joining, strayed, faults>> /\ Came
  BY DEF Expire, ClearPendingDeparture
<1>2. UNCHANGED <<topic, cursor, clients, context, joining, strayed, faults>>
  BY <1>1 DEF feed
<1>3. /\ clients \in [Users -> Sockets \cup {None}]
      /\ closing \subseteq Sockets
      /\ departure \in [Users -> Sessions \cup {None}]
      /\ listed \in [Sessions -> SUBSET Users]
      /\ capacity \in [Sessions -> Capacity \cup {None}]
  BY DEF IInv, TypeOK
<1>4. s \in Sessions
  BY <1>1, <1>3
<1>5. left \in [Sessions -> SUBSET Users] /\ u \notin left[s]
  BY <1>3, <1>4 DEF RemoveParticipant
<1>6. listed' \in [Sessions -> SUBSET Users] /\ u \notin listed'[s]
  BY <1>1, <1>3, <1>4, <1>5
<1>7. SessionSockets(left, s) \subseteq Sockets
  BY <1>3, <1>4, <1>5 DEF SessionSockets
<1> HIDE DEF left
<1>8. /\ departure' \in [Users -> Sessions \cup {None}] /\ departure'[u] = None
      /\ \A v \in Users : v # u => departure'[v] = departure[v]
  BY <1>1, <1>3
<1>9. /\ came' \in [Sessions -> SUBSET Users] /\ u \notin came'[s]
      /\ \A t \in Sessions : \A v \in came'[t] :
           v \in came[t] \/ (clients'[v] # None /\ context'[clients'[v]].session = t)
  BY <1>1, <1>4, <1>6, CameType DEF IInv
<1>10. closing' \subseteq Sockets /\ capacity' \in [Sessions -> Capacity \cup {None}]
  BY <1>1, <1>3, <1>4, <1>7
<1>11. TypeOK'
  BY <1>2, <1>6, <1>8, <1>9, <1>10 DEF IInv, TypeOK
<1>12. Joining'
  BY <1>2 DEF IInv, Joining, IsOpen
<1>13. ASSUME NEW v \in Users, v # u
       PROVE  Good(v)'
  BY <1>2, <1>8, <1>9, <1>13, Untouched
<1>14. Good(u)'
  <2>1. Good(u)
    BY DEF IInv
  <2>2. PICK one \in Sessions \cup {None} : u \notin strayed => Known(u) \subseteq {one, None}
    BY <2>1, OneKnown DEF IInv
  <2>3. s \in Known(u)
    BY DEF Known
  <2>4. ASSUME u \notin strayed
        PROVE  one = s
    BY <1>1, <2>2, <2>3, <2>4
  <2>5. ASSUME u \notin strayed, NEW x \in Sockets, context[x] # None, context[x].user = u
        PROVE  context[x].session \in {s, None}
    BY <2>2, <2>4, <2>5 DEF Known, OpenOf, IsOpen, UserOf, SessionOf
  <2>6. clients[u] # None => context[clients[u]] # None /\ context[clients[u]].user = u
    BY <2>1 DEF Good, IsOpen, UserOf
  <2>7. ASSUME u \notin strayed, NEW t \in Sessions, u \in came'[t]
        PROVE  FALSE
    <3>1. t # s
      BY <1>9, <2>7
    <3>2. u \notin came[t]
      BY <2>2, <2>4, <2>7, <3>1, NoneType DEF Known
    <3>3. clients[u] # None /\ context[clients[u]].session = t /\ clients[u] \in Sockets
      BY <1>2, <1>3, <1>9, <2>7, <3>2
    <3> QED BY <2>5, <2>6, <2>7, <3>1, <3>3, NoneType
  <2> QED BY <1>2, <1>4, <1>8, <1>11, <2>5, <2>6, <2>7, GoodIf
<1> QED BY <1>11, <1>12, <1>13, <1>14 DEF IInv

LEMMA ExpireStep ==
  ASSUME IInv, NEW u \in Users, Expire(u)
  PROVE  IInv'
<1>1. PICK s : s = departure[u]
  OBVIOUS
<1> QED BY <1>1, ExpireAs

----------------------------------------------------------------------------
(* The topic.                                                               *)

LEMMA EventIs ==
  ASSUME TypeOK, cursor < Len(topic)
  PROVE  /\ topic[cursor + 1] \in Event /\ topic[cursor + 1].session \in Sessions
         /\ topic[cursor + 1].type \in {"joined", "left"} => topic[cursor + 1].user \in Users
         /\ cursor + 1 \in Nat
<1>1. topic[cursor + 1] \in Event /\ cursor + 1 \in Nat
  BY DEF TypeOK
<1> QED BY <1>1 DEF Event, Users

LEMMA PublishStep ==
  ASSUME IInv, Publish
  PROVE  IInv'
<1>1. PICK e \in Event : topic' = Append(topic, e)
  BY DEF Publish
<1>2. UNCHANGED <<cursor, clients, context, closing, joining, listed, capacity, departure, came,
                  strayed, faults>>
  BY DEF Publish, wire, stores, history
<1>3. topic' \in Seq(Event)
  BY <1>1 DEF IInv, TypeOK
<1>4. TypeOK'
  BY <1>2, <1>3 DEF IInv, TypeOK
<1> QED BY <1>2, <1>4, Apart

LEMMA CreatedStep ==
  ASSUME IInv, OnSessionCreated
  PROVE  IInv'
<1>1. PICK s : s = topic[cursor + 1].session
  OBVIOUS
<1>2. /\ cursor < Len(topic) /\ cursor' = cursor + 1
      /\ UNCHANGED <<topic, clients, context, closing, joining, departure, strayed, faults>>
      /\ capacity' = [capacity EXCEPT ![s] =
           [room |-> Room, started |-> FALSE, owner |-> OwnerOf[s]]]
      /\ listed' = AddParticipant(listed, s, OwnerOf[s]) /\ Came
  BY <1>1 DEF OnSessionCreated, Take, wire
<1>3. s \in Sessions /\ OwnerOf[s] \in Hosts /\ OwnerOf[s] \in Users /\ cursor' \in Nat
  BY <1>1, <1>2, EventIs, OwnerType DEF IInv, Users
<1>4. [room |-> Room, started |-> FALSE, owner |-> OwnerOf[s]] \in Capacity
  BY <1>3 DEF Capacity
<1>5. capacity' \in [Sessions -> Capacity \cup {None}]
  BY <1>2, <1>4 DEF IInv, TypeOK
<1>6. listed' \in [Sessions -> SUBSET Users]
  BY <1>2, <1>3, ListTypes DEF IInv, TypeOK
<1>7. came' \in [Sessions -> SUBSET Users]
  BY <1>2, <1>6, CameType DEF IInv
<1>8. TypeOK'
  BY <1>2, <1>3, <1>5, <1>6, <1>7 DEF IInv, TypeOK
<1> QED BY <1>2, <1>8, Apart

LEMMA ClosedStep ==
  ASSUME IInv, OnSessionClosed
  PROVE  IInv'
<1>1. PICK s : s = topic[cursor + 1].session
  OBVIOUS
<1>2. /\ cursor < Len(topic) /\ cursor' = cursor + 1
      /\ UNCHANGED <<topic, clients, context, joining, departure, strayed, faults>>
      /\ capacity' = [capacity EXCEPT ![s] = None]
      /\ listed' = [listed EXCEPT ![s] = {}]
      /\ closing' = closing \cup SessionSockets(listed, s) /\ Came
  BY <1>1 DEF OnSessionClosed, Take
<1>3. s \in Sessions /\ cursor' \in Nat
  BY <1>1, <1>2, EventIs DEF IInv
<1>4. /\ clients \in [Users -> Sockets \cup {None}] /\ closing \subseteq Sockets
      /\ listed \in [Sessions -> SUBSET Users]
      /\ capacity \in [Sessions -> Capacity \cup {None}]
  BY DEF IInv, TypeOK
<1>5. /\ capacity' \in [Sessions -> Capacity \cup {None}]
      /\ listed' \in [Sessions -> SUBSET Users]
  BY <1>2, <1>4
<1>6. SessionSockets(listed, s) \subseteq Sockets
  BY <1>3, <1>4 DEF SessionSockets
<1>7. came' \in [Sessions -> SUBSET Users] /\ closing' \subseteq Sockets
  BY <1>2, <1>4, <1>5, <1>6, CameType DEF IInv
<1>8. TypeOK'
  BY <1>2, <1>3, <1>5, <1>7 DEF IInv, TypeOK
<1> QED BY <1>2, <1>8, Apart

LEMMA JoinedStep ==
  ASSUME IInv, OnParticipantJoined
  PROVE  IInv'
<1>1. PICK s, u : s = topic[cursor + 1].session /\ u = topic[cursor + 1].user
  OBVIOUS
<1> DEFINE list == AddParticipant(listed, s, u)
<1>2. /\ cursor < Len(topic) /\ cursor' = cursor + 1 /\ topic[cursor + 1].type = "joined"
      /\ UNCHANGED <<topic, clients, closing, joining, faults>> /\ Came
      /\ \/ clients[u] # None /\ UserJoinSession(clients[u], s, list, capacity)
         \/ /\ clients[u] = None /\ listed' = list
            /\ UNCHANGED <<context, capacity, departure, strayed>>
  BY <1>1 DEF OnParticipantJoined, Take
<1>3. s \in Sessions /\ u \in Users /\ cursor' \in Nat
  BY <1>1, <1>2, EventIs DEF IInv
<1>4. /\ clients \in [Users -> Sockets \cup {None}]
      /\ list \in [Sessions -> SUBSET Users]
      /\ joining \in [Sockets -> Sessions \cup {None}] /\ topic \in Seq(Event)
      /\ capacity \in [Sessions -> Capacity \cup {None}]
  BY <1>3, ListTypes DEF IInv, TypeOK
<1> HIDE DEF list
<1>5. CASE clients[u] # None /\ UserJoinSession(clients[u], s, list, capacity)
  <2>1. PICK w \in Sockets : w = clients[u]
    BY <1>3, <1>4, <1>5
  <2>2. IsOpen(w)
    BY <1>3, <1>5, <2>1 DEF IInv, Good
  <2> QED BY <1>2, <1>3, <1>4, <1>5, <2>1, <2>2, Joins
<1>6. CASE listed' = list /\ UNCHANGED <<context, capacity, departure, strayed>>
  <2>1. came' \in [Sessions -> SUBSET Users]
    BY <1>2, <1>4, <1>6, CameType DEF IInv
  <2>2. TypeOK'
    BY <1>2, <1>3, <1>4, <1>6, <2>1 DEF IInv, TypeOK
  <2> QED BY <1>2, <1>6, <2>2, Apart
<1> QED BY <1>2, <1>5, <1>6

\* The player is taken off the list of s, and so is not said to have come.
LEMMA LeftAs ==
  ASSUME IInv, OnParticipantLeft, NEW s, s = topic[cursor + 1].session,
         NEW u, u = topic[cursor + 1].user, NEW w, w = clients[u]
  PROVE  IInv'
<1> DEFINE list == RemoveParticipant(listed, s, u)
<1>1. /\ cursor < Len(topic) /\ cursor' = cursor + 1 /\ topic[cursor + 1].type = "left"
      /\ UNCHANGED <<topic, clients, closing, joining, strayed, faults>> /\ Came
      /\ \/ /\ ~Within(u, s) /\ listed' = list
            /\ UNCHANGED <<context, capacity, departure>>
         \/ /\ Within(u, s)
            /\ context' = [context EXCEPT ![w].session = None]
            /\ listed' = list \/ listed' = [list EXCEPT ![s] = {}]
            /\ capacity' = capacity \/ capacity' = [capacity EXCEPT ![s] = None]
            /\ departure' = departure \/ departure' = [departure EXCEPT ![u] = s]
  BY DEF OnParticipantLeft, Take, HandleSessionDeparture
<1>2. s \in Sessions /\ u \in Users /\ cursor' \in Nat /\ s # None
  BY <1>1, EventIs, NoneType DEF IInv
<1>3. /\ clients \in [Users -> Sockets \cup {None}]
      /\ context \in [Sockets -> Context \cup {None}]
      /\ departure \in [Users -> Sessions \cup {None}]
      /\ listed \in [Sessions -> SUBSET Users]
      /\ capacity \in [Sessions -> Capacity \cup {None}]
  BY DEF IInv, TypeOK
<1>4. list \in [Sessions -> SUBSET Users] /\ u \notin list[s]
  BY <1>2, <1>3 DEF RemoveParticipant
<1>5. listed' \in [Sessions -> SUBSET Users] /\ u \notin listed'[s]
  BY <1>1, <1>2, <1>4
<1> HIDE DEF list
<1>6. /\ came' \in [Sessions -> SUBSET Users] /\ u \notin came'[s]
      /\ \A t \in Sessions : \A v \in came'[t] :
           v \in came[t] \/ (clients'[v] # None /\ context'[clients'[v]].session = t)
  BY <1>1, <1>2, <1>5, CameType DEF IInv
<1>7. CASE UNCHANGED <<context, capacity, departure>>
  <2>1. TypeOK'
    BY <1>1, <1>2, <1>5, <1>6, <1>7 DEF IInv, TypeOK
  <2> QED BY <1>1, <1>7, <2>1, Apart
<1>8. CASE /\ Within(u, s)
           /\ context' = [context EXCEPT ![w].session = None]
           /\ capacity' = capacity \/ capacity' = [capacity EXCEPT ![s] = None]
           /\ departure' = departure \/ departure' = [departure EXCEPT ![u] = s]
  <2>1. Good(u)
    BY <1>2 DEF IInv
  <2>2. /\ w \in Sockets /\ w # None /\ context[w] # None /\ context[w] \in Context
        /\ context[w].user = u /\ context[w].session = s
    BY <1>2, <1>3, <1>8, <2>1 DEF Within, Good, IsOpen, UserOf, SessionOf
  <2>3. [context[w] EXCEPT !.session = None] = [user |-> u, session |-> None]
    BY <2>2 DEF Context
  <2>4. context' = [context EXCEPT ![w] = [user |-> u, session |-> None]]
    BY <1>3, <1>8, <2>2, <2>3
  <2>5. [user |-> u, session |-> None] \in Context /\ [user |-> u, session |-> None] # None
    BY <1>2, NoContextIsNone DEF Context
  <2>6. /\ context' \in [Sockets -> Context \cup {None}]
        /\ context'[w] # None /\ context'[w].user = u /\ context'[w].session = None
        /\ \A x \in Sockets : x # w => context'[x] = context[x]
    BY <1>3, <2>2, <2>4, <2>5
  <2>7. /\ departure' \in [Users -> Sessions \cup {None}] /\ departure'[u] \in {departure[u], s}
        /\ \A v \in Users : v # u => departure'[v] = departure[v]
    BY <1>2, <1>3, <1>8
  <2>8. capacity' \in [Sessions -> Capacity \cup {None}]
    BY <1>3, <1>8
  <2>9. TypeOK'
    BY <1>1, <1>2, <1>5, <1>6, <2>6, <2>7, <2>8 DEF IInv, TypeOK
  <2>10. Joining'
    BY <1>1, <2>6 DEF IInv, Joining, IsOpen
  <2>11. ASSUME NEW v \in Users, v # u
         PROVE  Good(v)'
    <3>1. \A x \in Sockets : \/ context[x] # None /\ context[x].user = v
                             \/ context'[x] # None /\ context'[x].user = v
                             => x # w
      BY <2>2, <2>6, <2>11
    <3>2. \A x \in Sockets : \/ context[x] # None /\ context[x].user = v
                             \/ context'[x] # None /\ context'[x].user = v
                             => context'[x] = context[x] /\ joining'[x] = joining[x]
      <4>1. joining' = joining
        BY <1>1
      <4> QED BY <2>6, <3>1, <4>1
    <3>3. clients'[v] = clients[v] /\ departure'[v] = departure[v] /\ strayed \subseteq strayed'
      BY <1>1, <2>6, <2>7, <2>11
    <3>4. \A t \in Sessions : v \in came'[t] =>
            v \in came[t] \/ (clients'[v] # None /\ context'[clients'[v]].session = t)
      BY <1>6
    <3> QED BY <3>2, <3>3, <3>4, Untouched
  <2>12. Good(u)'
    <3>1. PICK one \in Sessions \cup {None} : u \notin strayed => Known(u) \subseteq {one, None}
      BY <1>2, <2>1, OneKnown DEF IInv
    <3>2. w \in OpenOf(u) /\ SessionOf(w) = s
      BY <2>2 DEF OpenOf, IsOpen, UserOf, SessionOf
    <3>3. u \notin strayed => one = s
      BY <1>2, <3>1, <3>2 DEF Known
    <3>4. u \notin strayed => departure'[u] \in {s, None}
      BY <2>7, <3>1, <3>3 DEF Known
    <3>5. ASSUME u \notin strayed, NEW x \in Sockets, context'[x] # None, context'[x].user = u
          PROVE  context'[x].session \in {s, None}
      <4>1. x # w => x \in OpenOf(u) /\ context'[x].session = SessionOf(x)
        BY <2>6, <3>5 DEF OpenOf, IsOpen, UserOf, SessionOf
      <4>2. x # w => SessionOf(x) \in {s, None}
        BY <3>1, <3>3, <3>5, <4>1 DEF Known
      <4> QED BY <2>6, <4>1, <4>2
    <3>6. ASSUME u \notin strayed, NEW t \in Sessions, u \in came'[t]
          PROVE  FALSE
      <4>1. t # s /\ t # None
        BY <1>6, <3>6, NoneType
      <4>2. u \notin came[t]
        BY <3>1, <3>3, <3>6, <4>1 DEF Known
      <4>3. context'[w].session = t
        BY <1>1, <1>6, <3>6, <4>2
      <4> QED BY <2>6, <4>1, <4>3
    <3>7. clients'[u] = w
      BY <1>1
    <3> QED BY <1>1, <1>2, <2>6, <2>9, <3>4, <3>5, <3>6, <3>7, GoodIf, ZenonT(60)
  <2> QED BY <2>9, <2>10, <2>11, <2>12 DEF IInv
<1> QED BY <1>1, <1>7, <1>8

LEMMA LeftStep ==
  ASSUME IInv, OnParticipantLeft
  PROVE  IInv'
<1>1. PICK s, u : s = topic[cursor + 1].session /\ u = topic[cursor + 1].user
  OBVIOUS
<1>2. PICK w : w = clients[u]
  OBVIOUS
<1> QED BY <1>1, <1>2, LeftAs

LEMMA RewindStep ==
  ASSUME IInv, Rewind
  PROVE  IInv'
<1>1. /\ faults < MaxFaults /\ faults' = faults + 1 /\ cursor' \in 0..(cursor - 1)
      /\ UNCHANGED <<topic, clients, context, closing, joining, listed, capacity, departure,
                     came, strayed>>
  BY DEF Rewind, wire, stores, history
<1>2. faults' \in 0..MaxFaults /\ cursor' \in Nat
  BY <1>1, BoundsType DEF IInv, TypeOK
<1>3. TypeOK'
  BY <1>1, <1>2 DEF IInv, TypeOK
<1> QED BY <1>1, <1>3, Apart

\* There is nobody in a new process.
LEMMA EmptyOK ==
  ASSUME TypeOK, strayed = {}, clients = [u \in Users |-> None],
         context = [w \in Sockets |-> None], joining = [w \in Sockets |-> None],
         departure = [u \in Users |-> None], came = [s \in Sessions |-> {}]
  PROVE  IInv
<1>1. Joining
  BY DEF Joining
<1>2. ASSUME NEW u \in Users
      PROVE  Good(u)
  <2>1. OpenOf(u) = {}
    BY DEF OpenOf, IsOpen
  <2>2. Known(u) \subseteq {None}
    BY <2>1 DEF Known
  <2> QED BY <2>2 DEF Good
<1> QED BY <1>1, <1>2 DEF IInv

LEMMA CrashStep ==
  ASSUME IInv, Crash
  PROVE  IInv'
<1>1. /\ faults < MaxFaults /\ faults' = faults + 1 /\ cursor' \in 0..cursor
      /\ clients' = [u \in Users |-> None] /\ context' = [w \in Sockets |-> None]
      /\ closing' = {} /\ joining' = [w \in Sockets |-> None]
      /\ listed' = [s \in Sessions |-> {}] /\ capacity' = [s \in Sessions |-> None]
      /\ departure' = [u \in Users |-> None] /\ came' = [s \in Sessions |-> {}]
      /\ strayed' = {} /\ UNCHANGED topic
  BY DEF Crash
<1>2. faults' \in 0..MaxFaults /\ cursor' \in Nat
  BY <1>1, BoundsType DEF IInv, TypeOK
<1>3. TypeOK'
  BY <1>1, <1>2 DEF IInv, TypeOK
<1>4. Joining'
  BY <1>1 DEF Joining
<1>5. ASSUME NEW u \in Users
      PROVE  Good(u)'
  <2>1. \A w \in Sockets : context'[w] = None
    BY <1>1
  <2>2. clients'[u] = None /\ departure'[u] = None /\ \A s \in Sessions : u \notin came'[s]
    BY <1>1
  <2>3. None \in Sessions \cup {None}
    OBVIOUS
  <2> QED BY <1>3, <2>1, <2>2, <2>3, GoodIf
<1> QED BY <1>3, <1>4, <1>5 DEF IInv

----------------------------------------------------------------------------
(* The invariant.                                                           *)

LEMMA InitOK ==
  ASSUME Init
  PROVE  IInv
<1>1. TypeOK
  BY BoundsType DEF Init, TypeOK
<1> QED BY <1>1, EmptyOK DEF Init

LEMMA NextOK ==
  ASSUME IInv, [Next]_vars
  PROVE  IInv'
<1>1. CASE Next
  <2>1. ASSUME NEW u \in Users, NEW w \in Sockets, NEW s \in Sessions \cup {None},
               Connect(u, w, s)
        PROVE  IInv'
    BY <2>1, ConnectStep
  <2>2. ASSUME NEW w \in Sockets, NEW s \in Sessions, JoinMessage(w, s)
        PROVE  IInv'
    BY <2>2, JoinMessageStep
  <2>3. ASSUME NEW w \in Sockets, NEW s \in Sessions, NEW n \in Rooms, CreateMessage(w, s, n)
        PROVE  IInv'
    BY <2>3, CreateMessageStep
  <2>4. ASSUME NEW w \in Sockets, AutoJoin(w) \/ StartMessage(w) \/ Disconnect(w)
        PROVE  IInv'
    BY <2>4, AutoJoinStep, StartMessageStep, DisconnectStep
  <2>5. ASSUME NEW u \in Users, Expire(u)
        PROVE  IInv'
    BY <2>5, ExpireStep
  <2>6. CASE Consume
    BY <2>6, CreatedStep, JoinedStep, LeftStep, ClosedStep DEF Consume
  <2> QED BY <1>1, <2>1, <2>2, <2>3, <2>4, <2>5, <2>6, PublishStep, RewindStep, CrashStep DEF Next
<1>2. CASE UNCHANGED vars
  <2>1. UNCHANGED <<topic, cursor, clients, context, closing, joining, listed, capacity,
                    departure, came, strayed, faults>>
    BY <1>2 DEF vars, feed, wire, stores, history
  <2>2. TypeOK'
    BY <2>1 DEF IInv, TypeOK
  <2> QED BY <2>1, <2>2, Apart
<1> QED BY <1>1, <1>2

\* Connections, messages, close events, timers, events of the topic delivered
\* again and restarts, in any order, keep what ws-service knows of its users
\* (session-membership.handler.js, session-events.consumer.js).
THEOREM InvariantHolds == Spec => []IInv
<1>1. Init => IInv
  BY InitOK
<1>2. IInv /\ [Next]_vars => IInv'
  BY NextOK
<1> QED BY <1>1, <1>2, PTL DEF Spec

\* The state of ws-service keeps its types.
THEOREM TypeCorrect == Spec => []TypeOK
<1>1. IInv => TypeOK
  BY DEF IInv
<1> QED BY <1>1, InvariantHolds, PTL

\* Whoever is back in the session within the grace period has no timer left
\* (userJoinSession and handleSessionDeparture, one timer for each user).
THEOREM ReturnsAreSafe == Spec => []DepartureIsReal
<1>1. IInv => DepartureIsReal
  BY DEF IInv, Good, DepartureIsReal
<1> QED BY <1>1, InvariantHolds, PTL

\* Whoever has come and gone has a timer, or a socket whose close event will
\* start one: no order of sockets, messages and events leaves a ghost.
THEOREM GhostsGo == Spec => []NoGhost
<1>1. IInv => NoGhost
  BY DEF IInv, Good, NoGhost
<1> QED BY <1>1, InvariantHolds, PTL


----------------------------------------------------------------------------
(* Places: whoever is connected keeps theirs.                               *)

\* A join: who is taken off a list has gone to another session with the same
\* socket, or with another one, and is then lost track of.
LEMMA JoinKeeps ==
  ASSUME IInv, NEW w \in Sockets, IsOpen(w), NEW s \in Sessions,
         NEW list \in [Sessions -> SUBSET Users], NEW cap,
         UserJoinSession(w, s, list, cap), UNCHANGED clients,
         NEW v \in Users, NEW t \in Sessions, v \in list[t], Within(v, t)
  PROVE  v \in listed'[t] \/ ~Within(v, t)' \/ v \in strayed'
<1> PICK u, previous : u = UserOf(w) /\ previous = SessionOf(w)
  OBVIOUS
<1>1. /\ context[w] \in Context /\ u \in Users /\ previous \in Sessions \cup {None}
      /\ None \notin Sessions
      /\ context \in [Sockets -> Context \cup {None}]
  BY NoneType DEF IInv, TypeOK, IsOpen, Context, UserOf, SessionOf
<1>2. CASE listed' = list
  BY <1>2
<1>3. CASE listed' = AddParticipant(list, s, u)
  BY <1>3 DEF AddParticipant
<1>4. CASE /\ previous # None /\ previous # s
           /\ listed' = AddParticipant(RemoveParticipant(list, previous, u), s, u)
           /\ context' = [context EXCEPT ![w].session = s]
  <2> DEFINE base == RemoveParticipant(list, previous, u)
  <2>1. /\ previous \in Sessions
        /\ base \in [Sessions -> SUBSET Users]
        /\ v # u \/ t # previous => v \in base[t]
    BY <1>1, <1>4, ListTypes DEF RemoveParticipant
  <2> HIDE DEF base
  <2>2. base[t] \subseteq AddParticipant(base, s, u)[t]
    BY <2>1 DEF AddParticipant
  <2>3. CASE v # u \/ t # previous
    BY <1>4, <2>1, <2>2, <2>3 DEF base
  <2>4. CASE v = u /\ t = previous /\ clients[u] = w
    <3>1. context'[w].session = s
      BY <1>1, <1>4 DEF Context
    <3> QED BY <1>4, <2>4, <3>1 DEF Within, SessionOf
  <2>5. CASE v = u /\ t = previous /\ clients[u] # w
    <3>1. /\ clients[u] \in Sockets /\ IsOpen(clients[u])
          /\ UserOf(clients[u]) = u /\ SessionOf(clients[u]) = t
      BY <1>1, <2>5 DEF IInv, TypeOK, Good, Within
    <3>2. t \in Known(u)
      BY <3>1 DEF Known, OpenOf
    <3>3. ~(Known(u) \subseteq {s, None})
      BY <1>1, <1>4, <2>5, <3>2
    <3> QED BY <2>5, <3>3 DEF UserJoinSession, Stray
  <2> QED BY <2>3, <2>4, <2>5
<1>5. CASE previous = None /\ listed' = AddParticipant(list, s, u)
  BY <1>3, <1>5
<1>6. \/ listed' = list
      \/ listed' = AddParticipant(list, s, u)
      \/ /\ previous # None /\ previous # s
         /\ listed' = AddParticipant(RemoveParticipant(list, previous, u), s, u)
         /\ context' = [context EXCEPT ![w].session = s]
  BY DEF UserJoinSession
<1> QED BY <1>2, <1>3, <1>4, <1>6

\* A timer: its user is not in the session, and takes others with them only
\* when the session goes.
LEMMA ExpireKeeps ==
  ASSUME IInv, NEW u \in Users, Expire(u),
         NEW v \in Users, NEW t \in Sessions, v \in listed[t], Within(v, t),
         joining[clients[v]] = None
  PROVE  v \in listed'[t] \/ capacity'[t] = None \/ v \in strayed'
<1>1. /\ departure[u] \in Sessions /\ strayed' = strayed
      /\ listed \in [Sessions -> SUBSET Users]
      /\ capacity \in [Sessions -> Capacity \cup {None}]
  BY DEF IInv, TypeOK, Expire
<1> DEFINE left == RemoveParticipant(listed, departure[u], u)
<1>2. v # u \/ t # departure[u] => v \in left[t]
  BY <1>1 DEF RemoveParticipant
<1>3. CASE v = u /\ t = departure[u]
  <2>1. v \in strayed
    BY <1>1, <1>3, NoneType DEF IInv, Good
  <2> QED BY <1>1, <2>1
<1>4. CASE v # u \/ t # departure[u]
  <2>1. CASE listed' = left
    BY <1>2, <1>4, <2>1
  <2>2. CASE /\ listed' = [listed EXCEPT ![departure[u]] = {}]
             /\ capacity' = [capacity EXCEPT ![departure[u]] = None]
    BY <1>1, <2>2
  <2> QED BY <2>1, <2>2 DEF Expire
<1> QED BY <1>3, <1>4

\* An event of the topic.
LEMMA EventKeeps ==
  ASSUME IInv, Consume,
         NEW v \in Users, NEW t \in Sessions, v \in listed[t], Within(v, t)
  PROVE  v \in listed'[t] \/ ~Within(v, t)' \/ capacity'[t] = None \/ v \in strayed'
<1>1. /\ listed \in [Sessions -> SUBSET Users]
      /\ capacity \in [Sessions -> Capacity \cup {None}]
      /\ clients \in [Users -> Sockets \cup {None}]
      /\ context \in [Sockets -> Context \cup {None}]
      /\ \A s \in Sessions : OwnerOf[s] \in Users
  BY OwnerType DEF IInv, TypeOK, Users
<1> DEFINE e == topic[cursor + 1]
<1>2. e \in Event
  BY EventIs DEF IInv, TypeOK, Consume, OnSessionCreated, OnParticipantJoined,
                 OnParticipantLeft, OnSessionClosed, Take
<1>3. e.session \in Sessions
  BY <1>2 DEF Event
<1> HIDE DEF e
<1>4. CASE OnSessionCreated
  BY <1>1, <1>3, <1>4 DEF OnSessionCreated, AddParticipant, e
<1>5. CASE OnSessionClosed
  BY <1>1, <1>3, <1>5 DEF OnSessionClosed, e
<1>6. CASE OnParticipantJoined
  <2> DEFINE list == AddParticipant(listed, e.session, e.user)
  <2>1. e.user \in Users
    BY <1>2, <1>6 DEF OnParticipantJoined, Take, Event, Users, e
  <2>2. list \in [Sessions -> SUBSET Users] /\ v \in list[t]
    BY <1>1, <1>3, <2>1, ListTypes DEF AddParticipant
  <2> HIDE DEF list
  <2>3. CASE listed' = list
    BY <2>2, <2>3
  <2>4. CASE /\ clients[e.user] # None
             /\ UserJoinSession(clients[e.user], e.session, list, capacity)
    <3>1. clients[e.user] \in Sockets /\ IsOpen(clients[e.user])
      BY <1>1, <2>1, <2>4 DEF IInv, Good
    <3> QED BY <1>3, <1>6, <2>2, <2>4, <3>1, JoinKeeps DEF OnParticipantJoined
  <2> QED BY <1>6, <2>3, <2>4 DEF OnParticipantJoined, list, e
<1>7. CASE OnParticipantLeft
  <2> DEFINE list == RemoveParticipant(listed, e.session, e.user)
  <2>1. v # e.user \/ t # e.session => v \in list[t]
    BY <1>1 DEF RemoveParticipant
  <2>2. list \in [Sessions -> SUBSET Users]
    BY <1>1 DEF RemoveParticipant
  <2> HIDE DEF list
  <2>3. CASE ~Within(e.user, e.session)
    <3>1. listed' = list
      BY <1>7, <2>3 DEF OnParticipantLeft, list, e
    <3> QED BY <2>1, <2>3, <3>1
  <2>4. CASE Within(e.user, e.session)
    <3>1. /\ context' = [context EXCEPT ![clients[e.user]].session = None]
          /\ clients' = clients
          /\ \/ listed' = list
             \/ /\ listed' = [list EXCEPT ![e.session] = {}]
                /\ capacity' = [capacity EXCEPT ![e.session] = None]
      BY <1>7, <2>4 DEF OnParticipantLeft, list, e
    <3>2. CASE v = e.user /\ t = e.session
      <4>1. clients[v] \in Sockets /\ context[clients[v]] \in Context
        BY <1>1, <2>4, <3>2 DEF IInv, Good, IsOpen, Within
      <4>2. context'[clients[v]].session = None
        BY <1>1, <3>1, <3>2, <4>1 DEF Context
      <4> QED BY <3>1, <4>2, NoneType DEF Within, SessionOf
    <3>3. CASE v # e.user \/ t # e.session
      BY <1>1, <1>3, <2>1, <2>2, <3>1, <3>3
    <3> QED BY <3>2, <3>3
  <2> QED BY <2>3, <2>4
<1> QED BY <1>4, <1>5, <1>6, <1>7 DEF Consume

\* Each step.
LEMMA StepKeeps ==
  ASSUME IInv, [Next]_vars,
         NEW v \in Users, NEW t \in Sessions, v \in listed[t], Within(v, t),
         joining[clients[v]] = None
  PROVE  v \in listed'[t] \/ ~Within(v, t)' \/ capacity'[t] = None \/ v \in strayed'
<1> USE DEF feed, wire, stores, history
<1>1. listed \in [Sessions -> SUBSET Users] /\ None \notin Sessions
  BY NoneType DEF IInv, TypeOK
<1>2. CASE listed' = listed
  BY <1>2
<1>3. ASSUME NEW w \in Sockets, IsOpen(w), NEW s \in Sessions, NEW cap,
             UserJoinSession(w, s, listed, cap), UNCHANGED clients
      PROVE  v \in listed'[t] \/ ~Within(v, t)' \/ v \in strayed'
  BY <1>1, <1>3, JoinKeeps
<1>4. ASSUME NEW w \in Sockets, AutoJoin(w)
      PROVE  v \in listed'[t] \/ ~Within(v, t)' \/ v \in strayed'
  <2>1. IsOpen(w) /\ joining[w] \in Sessions
    BY <1>4 DEF AutoJoin, IInv, Joining, TypeOK
  <2> QED BY <1>3, <1>4, <2>1 DEF AutoJoin
<1>5. ASSUME NEW w \in Sockets, NEW s \in Sessions, JoinMessage(w, s)
      PROVE  v \in listed'[t] \/ ~Within(v, t)' \/ v \in strayed'
  BY <1>3, <1>5 DEF JoinMessage, Quiet
<1>6. ASSUME NEW w \in Sockets, NEW s \in Sessions, NEW n \in Rooms, CreateMessage(w, s, n)
      PROVE  v \in listed'[t] \/ ~Within(v, t)' \/ v \in strayed'
  BY <1>3, <1>6 DEF CreateMessage, Quiet
<1>7. ASSUME NEW u \in Users, Expire(u)
      PROVE  v \in listed'[t] \/ capacity'[t] = None \/ v \in strayed'
  BY <1>7, ExpireKeeps
<1>8. CASE Consume
  BY <1>8, EventKeeps
<1>9. CASE Crash
  BY <1>9 DEF Crash, Within
<1>10. CASE Publish \/ Rewind \/ UNCHANGED vars
  BY <1>2, <1>10 DEF Publish, Rewind, vars
<1>11. ASSUME NEW w \in Sockets,
              \/ \E u \in Users, s \in Sessions \cup {None} : Connect(u, w, s)
              \/ StartMessage(w) \/ Disconnect(w)
       PROVE  listed' = listed
  BY <1>11 DEF Connect, StartMessage, Disconnect
<1> QED BY <1>2, <1>4, <1>5, <1>6, <1>7, <1>8, <1>9, <1>10, <1>11 DEF Next

\* Whoever is connected and listed keeps their place, for any sessions, users and
\* sockets, and in whatever order timers, joins, events and close events come.
THEOREM PlacesKept == Spec => KeepsPlace
<1>1. IInv /\ [Next]_vars
        => [\A u \in Users, s \in Sessions :
              u \in listed[s] /\ Within(u, s) /\ joining[clients[u]] = None =>
                \/ u \in listed'[s]
                \/ ~Within(u, s)'
                \/ capacity'[s] = None
                \/ u \in strayed']_vars
  BY StepKeeps
<1> QED BY <1>1, InvariantHolds, PTL DEF Spec, KeepsPlace

=============================================================================
