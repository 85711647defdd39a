----------------------------- MODULE WsMembership -----------------------------
(***************************************************************************)
(* ws-service: who is connected, who is listed in which session, and the   *)
(* grace period after which a user whose socket has gone is given up.      *)
(*                                                                         *)
(* Everything is in the memory of one process and every handler is         *)
(* synchronous: a handler is one action.  What interleaves is the sockets' *)
(* close events, which come after close() was called, the timers of the    *)
(* grace period, the join that a connection schedules for itself, the      *)
(* clients' messages and the events of topic quizz.events.                 *)
(***************************************************************************)
EXTENDS Integers, Sequences, FiniteSets

CONSTANTS
  Sessions,
  Players,      \* a player's id is of one session
  Hosts,        \* a host's id is the account's: of all the sessions they own
  HomeOf,       \* HomeOf[p]: the session in p's game token
  OwnerOf,      \* OwnerOf[s]: the host of s
  MaxSockets,   \* connections open at the same time
  Room,         \* users a session announced by Kafka has room for (10)
  Rooms,        \* and one that a client creates
  MaxEvents,    \* bound on the events of the topic
  MaxFaults,    \* bound on redeliveries and restarts
  None          \* no socket, no session, no capacity

Users   == Players \cup Hosts
Sockets == 1..MaxSockets

ASSUME UsersType == Players \cap Hosts = {}
ASSUME HomeType  == HomeOf \in [Players -> Sessions]
ASSUME OwnerType == OwnerOf \in [Sessions -> Hosts]
ASSUME RoomType  == Room \in Nat /\ Rooms \subseteq Nat
ASSUME NoneType  == None \notin Sessions \cup Sockets \cup Users
ASSUME BoundsType ==
  /\ MaxSockets \in Nat
  /\ MaxEvents \in Nat
  /\ MaxFaults \in Nat

VARIABLES
  topic,      \* the events of quizz.events that are not broadcast only
  cursor,     \* events the consumer has handled
  clients,    \* clients[u]: the socket of u
  context,    \* context[w]: user and session of socket w, None when not open
  closing,    \* sockets close() was called on, whose close event is to come
  joining,    \* joining[w]: the session the connection w has still to join
  listed,     \* sessionParticipants
  capacity,   \* sessionMetadata
  departure,  \* departure[u]: session whose timer for u is running
  came,       \* history: who has been in the session since they are listed
  strayed,    \* history: who the code has lost track of, see Stray
  faults      \* counter for the bound

feed    == <<topic, cursor>>
wire    == <<clients, context, closing, joining>>
stores  == <<listed, capacity, departure>>
history == <<came, strayed>>
vars    == <<feed, wire, stores, history, faults>>

Event ==
  [type : {"created", "ended", "deleted"}, session : Sessions]
  \cup [type : {"joined", "left"}, session : Sessions, user : Players]

Context  == [user : Users, session : Sessions \cup {None}]
Capacity == [room : Rooms \cup {Room}, started : BOOLEAN, owner : Hosts]

ASSUME NoContextIsNone == None \notin Context

TypeOK ==
  /\ topic \in Seq(Event)
  /\ cursor \in Nat
  /\ clients \in [Users -> Sockets \cup {None}]
  /\ context \in [Sockets -> Context \cup {None}]
  /\ closing \subseteq Sockets
  /\ joining \in [Sockets -> Sessions \cup {None}]
  /\ listed \in [Sessions -> SUBSET Users]
  /\ capacity \in [Sessions -> Capacity \cup {None}]
  /\ departure \in [Users -> Sessions \cup {None}]
  /\ came \in [Sessions -> SUBSET Users]
  /\ strayed \subseteq Users
  /\ faults \in 0..MaxFaults

Init ==
  /\ topic = <<>>
  /\ cursor = 0
  /\ clients = [u \in Users |-> None]
  /\ context = [w \in Sockets |-> None]
  /\ closing = {}
  /\ joining = [w \in Sockets |-> None]
  /\ listed = [s \in Sessions |-> {}]
  /\ capacity = [s \in Sessions |-> None]
  /\ departure = [u \in Users |-> None]
  /\ came = [s \in Sessions |-> {}]
  /\ strayed = {}
  /\ faults = 0

UserOf(w)    == context[w].user
SessionOf(w) == context[w].session
IsOpen(w)    == context[w] # None
OpenOf(u)    == {w \in Sockets : IsOpen(w) /\ UserOf(w) = u}

\* The sessions a user's token or account lets them name.
SessionsOf(u) ==
  IF u \in Players THEN {HomeOf[u]} ELSE {s \in Sessions : OwnerOf[s] = u}

\* getSessionSockets: the sockets of those listed, whatever session they are in.
SessionSockets(list, s) == {clients[u] : u \in list[s]} \ {None}

AddParticipant(list, s, u)    == [list EXCEPT ![s] = @ \cup {u}]
RemoveParticipant(list, s, u) == [list EXCEPT ![s] = @ \ {u}]

\* Mutant: the timer that runs is left alone.
KeepPendingDeparture(u) == departure

ClearPendingDeparture(u)  == [departure EXCEPT ![u] = None]

\* A timer of the user that already runs is replaced, whatever its session.
HandleSessionDeparture(s, u) == [departure EXCEPT ![u] = s]

\* getSessionState is not NOT_FULL; those who are counted are connected.
Closed(list, cap, s) ==
  \/ cap[s].started
  \/ Cardinality(SessionSockets(list, s)) >= cap[s].room

\* The live socket of u has s for its session.
Within(u, s) == clients[u] # None /\ SessionOf(clients[u]) = s

\* History: who is still listed and has been within the session.
Came ==
  came' = [s \in Sessions |->
             {u \in listed'[s] : \/ u \in came[s]
                                 \/ /\ clients'[u] # None
                                    /\ context'[clients'[u]].session = s}]

\* History: the sessions the code keeps track of u in.
Known(u) ==
  {t \in Sessions : u \in came[t]} \cup {SessionOf(w) : w \in OpenOf(u)} \cup {departure[u]}

\* History: u, in another session still or turned away while a timer of theirs
\* was running, is out of what the code keeps track of.
Stray(u, s, refused) ==
  strayed' = IF Known(u) \subseteq {s, None} /\ ~(refused /\ s \in Known(u))
             THEN strayed ELSE strayed \cup {u}

----------------------------------------------------------------------------
(* ms-session publishes.                                                    *)

Published(type, s) ==
  \E i \in DOMAIN topic : topic[i].type = type /\ topic[i].session = s
PublishedFor(type, p) ==
  \E i \in DOMAIN topic : topic[i].type = type /\ topic[i].user = p

Publish ==
  /\ Len(topic) < MaxEvents
  /\ \E e \in Event :
       /\ ~Published("deleted", e.session)
       /\ e.type = "created" <=> ~Published("created", e.session)
       /\ e.type = "ended" => ~Published("ended", e.session)
       /\ e.type \in {"joined", "left"} =>
            HomeOf[e.user] = e.session /\ ~PublishedFor(e.type, e.user)
       /\ e.type = "left" => PublishedFor("joined", e.user)
       /\ topic' = Append(topic, e)
  /\ UNCHANGED <<cursor, wire, stores, history, faults>>

----------------------------------------------------------------------------
(* Connections and clients' messages.                                       *)

\* userJoinSession, over the lists and capacities its caller has left: the
\* timer of the user goes first, whatever session it is for.
UserJoinSession(w, s, list, cap) ==
  LET u        == UserOf(w)
      previous == SessionOf(w)
      refused  == \/ cap[s] = None
                  \/ cap[s] # None /\ previous # s /\ Closed(list, cap, s)
  IN /\ capacity' = cap
     /\ Stray(u, s, refused /\ previous # s)
     /\ \/ /\ refused
           /\ listed' = list
           /\ departure' = ClearPendingDeparture(u)
           /\ UNCHANGED context
        \/ /\ ~refused /\ previous = s
           /\ listed' = AddParticipant(list, s, u)
           /\ departure' = ClearPendingDeparture(u)
           /\ UNCHANGED context
        \/ /\ ~refused /\ previous # s
           /\ listed' = AddParticipant(IF previous = None THEN list
                                       ELSE RemoveParticipant(list, previous, u), s, u)
           /\ departure' = IF previous = None THEN ClearPendingDeparture(u)
                           ELSE HandleSessionDeparture(previous, u)
           /\ context' = [context EXCEPT ![w].session = s]

\* A connection brings its session with it, a host's may come without.  Its
\* user's earlier socket is told to close.  No event of the user's sockets
\* comes before the join that the connection has scheduled.
Connect(u, w, s) ==
  /\ ~IsOpen(w)
  /\ \A v \in Sockets : v < w => IsOpen(v)     \* which number does not matter
  /\ s \in SessionsOf(u) \/ (u \in Hosts /\ s = None)
  /\ \A v \in OpenOf(u) : joining[v] = None
  /\ closing' = closing \cup ({clients[u]} \ {None})
  /\ clients' = [clients EXCEPT ![u] = w]
  /\ context' = [context EXCEPT ![w] = [user |-> u, session |-> s]]
  /\ joining' = [joining EXCEPT ![w] = s]
  /\ Stray(u, s, FALSE)
  /\ UNCHANGED <<feed, stores, faults>>
  /\ Came

AutoJoin(w) ==
  /\ joining[w] # None
  /\ UserJoinSession(w, joining[w], listed, capacity)
  /\ joining' = [joining EXCEPT ![w] = None]
  /\ UNCHANGED <<feed, clients, closing, faults>>
  /\ Came

Quiet(w) == IsOpen(w) /\ \A v \in OpenOf(UserOf(w)) : joining[v] = None

\* A socket told to close may still deliver messages.
JoinMessage(w, s) ==
  /\ Quiet(w)
  /\ s \in SessionsOf(UserOf(w))
  /\ UserJoinSession(w, s, listed, capacity)
  /\ UNCHANGED <<feed, clients, closing, joining, faults>>
  /\ Came

\* Mutant: one place is kept back for the owner.
CreateMessageOwnerApart(w, s, n) ==
  /\ Quiet(w)
  /\ UserOf(w) \in Hosts
  /\ s \in SessionsOf(UserOf(w))
  /\ capacity[s] = None
  /\ SessionOf(w) # s
  /\ UserJoinSession(w, s, listed,
       [capacity EXCEPT ![s] = [room |-> n - 1, started |-> FALSE, owner |-> UserOf(w)]])
  /\ UNCHANGED <<feed, clients, closing, joining, faults>>
  /\ Came

CreateMessage(w, s, n) ==
  /\ Quiet(w)
  /\ UserOf(w) \in Hosts
  /\ s \in SessionsOf(UserOf(w))
  /\ capacity[s] = None
  /\ SessionOf(w) # s
  /\ UserJoinSession(w, s, listed,
       [capacity EXCEPT ![s] = [room |-> n, started |-> FALSE, owner |-> UserOf(w)]])
  /\ UNCHANGED <<feed, clients, closing, joining, faults>>
  /\ Came

StartMessage(w) ==
  LET s == SessionOf(w)
  IN  /\ Quiet(w)
      /\ s # None
      /\ capacity[s] # None
      /\ capacity[s].owner = UserOf(w)
      /\ ~capacity[s].started
      /\ capacity' = [capacity EXCEPT ![s].started = TRUE]
      /\ UNCHANGED <<feed, wire, listed, departure, history, faults>>

\* Mutant: a disconnection from the lobby schedules nothing.
DisconnectQuietly(w) ==
  /\ Quiet(w)
  /\ clients' = [clients EXCEPT ![UserOf(w)] = IF @ = w THEN None ELSE @]
  /\ context' = [context EXCEPT ![w] = None]
  /\ closing' = closing \ {w}
  /\ UNCHANGED <<feed, joining, stores, strayed, faults>>
  /\ Came

\* The close event of a socket.  A user who has another one by now has not left.
Disconnect(w) ==
  LET u == UserOf(w)
  IN  /\ Quiet(w)
      /\ clients' = [clients EXCEPT ![u] = IF @ = w THEN None ELSE @]
      /\ departure' =
           IF SessionOf(w) # None /\ clients'[u] = None
           THEN HandleSessionDeparture(SessionOf(w), u) ELSE departure
      /\ context' = [context EXCEPT ![w] = None]
      /\ closing' = closing \ {w}
      /\ UNCHANGED <<feed, joining, listed, capacity, strayed, faults>>
      /\ Came

\* Mutant: an owner's timer is like anybody's.
ExpireAlike(u) ==
  LET s     == departure[u]
      left  == RemoveParticipant(listed, s, u)
      empty == SessionSockets(left, s) = {}
  IN  /\ s # None
      /\ departure' = ClearPendingDeparture(u)
      /\ listed' = left
      /\ capacity' = IF empty THEN [capacity EXCEPT ![s] = None] ELSE capacity
      /\ UNCHANGED <<feed, wire, strayed, faults>>
      /\ Came

\* The grace period of u is over.
Expire(u) ==
  LET s     == departure[u]
      left  == RemoveParticipant(listed, s, u)
      empty == SessionSockets(left, s) = {}
      owned == capacity[s] # None /\ capacity[s].owner = u
  IN  /\ s # None
      /\ departure' = ClearPendingDeparture(u)
      /\ \/ /\ empty
            /\ listed' = left
            /\ capacity' = [capacity EXCEPT ![s] = None]
            /\ UNCHANGED closing
         \/ /\ ~empty /\ owned
            /\ listed' = [listed EXCEPT ![s] = {}]
            /\ capacity' = [capacity EXCEPT ![s] = None]
            /\ closing' = closing \cup SessionSockets(left, s)
         \/ /\ ~empty /\ ~owned
            /\ listed' = left
            /\ UNCHANGED <<capacity, closing>>
      /\ UNCHANGED <<feed, clients, context, joining, strayed, faults>>
      /\ Came

----------------------------------------------------------------------------
(* Events of the topic.                                                     *)

Take(types) ==
  /\ cursor < Len(topic)
  /\ topic[cursor + 1].type \in types
  /\ cursor' = cursor + 1
  /\ UNCHANGED topic

OnSessionCreated ==
  LET s == topic[cursor + 1].session
  IN  /\ Take({"created"})
      /\ capacity' = [capacity EXCEPT ![s] =
           [room |-> Room, started |-> FALSE, owner |-> OwnerOf[s]]]
      /\ listed' = AddParticipant(listed, s, OwnerOf[s])
      /\ UNCHANGED <<wire, departure, strayed, faults>>
      /\ Came

OnParticipantJoined ==
  LET e    == topic[cursor + 1]
      list == AddParticipant(listed, e.session, e.user)
  IN  /\ Take({"joined"})
      /\ \/ /\ clients[e.user] # None
            /\ UserJoinSession(clients[e.user], e.session, list, capacity)
         \/ /\ clients[e.user] = None
            /\ listed' = list
            /\ UNCHANGED <<context, capacity, departure, strayed>>
      /\ UNCHANGED <<clients, closing, joining, faults>>
      /\ Came

\* The player's own socket, when it is in the session, is taken out of it.
OnParticipantLeft ==
  LET e    == topic[cursor + 1]
      s    == e.session
      list == RemoveParticipant(listed, s, e.user)
      last == SessionSockets(list, s) = {}
  IN  /\ Take({"left"})
      /\ \/ /\ ~Within(e.user, s)
            /\ listed' = list
            /\ UNCHANGED <<context, capacity, departure>>
         \/ /\ Within(e.user, s)
            /\ context' = [context EXCEPT ![clients[e.user]].session = None]
            /\ listed' = IF last THEN [list EXCEPT ![s] = {}] ELSE list
            /\ capacity' = IF last THEN [capacity EXCEPT ![s] = None] ELSE capacity
            /\ departure' = IF last THEN departure
                                    ELSE HandleSessionDeparture(s, e.user)
      /\ UNCHANGED <<clients, closing, joining, strayed, faults>>
      /\ Came

OnSessionClosed ==
  LET s == topic[cursor + 1].session
  IN  /\ Take({"ended", "deleted"})
      /\ closing' = closing \cup SessionSockets(listed, s)
      /\ listed' = [listed EXCEPT ![s] = {}]
      /\ capacity' = [capacity EXCEPT ![s] = None]
      /\ UNCHANGED <<clients, context, joining, departure, strayed, faults>>
      /\ Came

\* A rebalance: what has not been committed comes again, with no look at ids.
Rewind ==
  /\ faults < MaxFaults
  /\ faults' = faults + 1
  /\ cursor' \in 0..(cursor - 1)
  /\ UNCHANGED <<topic, wire, stores, history>>

\* A restart loses everything but the offset.
Crash ==
  /\ faults < MaxFaults
  /\ faults' = faults + 1
  /\ cursor' \in 0..cursor
  /\ clients' = [u \in Users |-> None]
  /\ context' = [w \in Sockets |-> None]
  /\ closing' = {}
  /\ joining' = [w \in Sockets |-> None]
  /\ listed' = [s \in Sessions |-> {}]
  /\ capacity' = [s \in Sessions |-> None]
  /\ departure' = [u \in Users |-> None]
  /\ came' = [s \in Sessions |-> {}]
  /\ strayed' = {}
  /\ UNCHANGED topic

----------------------------------------------------------------------------

Consume ==
  \/ OnSessionCreated \/ OnParticipantJoined
  \/ OnParticipantLeft \/ OnSessionClosed

Next ==
  \/ Publish
  \/ \E u \in Users, w \in Sockets, s \in Sessions \cup {None} : Connect(u, w, s)
  \/ \E w \in Sockets, s \in Sessions : JoinMessage(w, s)
  \/ \E w \in Sockets, s \in Sessions, n \in Rooms : CreateMessage(w, s, n)
  \/ \E w \in Sockets : AutoJoin(w) \/ StartMessage(w) \/ Disconnect(w)
  \/ \E u \in Users : Expire(u)
  \/ Consume
  \/ Rewind
  \/ Crash

\* Timers fire, scheduled joins run, and a socket told to close does.
Fairness ==
  /\ \A u \in Users : WF_vars(Expire(u))
  /\ \A w \in Sockets :
       WF_vars(AutoJoin(w)) /\ WF_vars(w \in closing /\ Disconnect(w))

Spec == Init /\ [][Next]_vars /\ Fairness

----------------------------------------------------------------------------
(* Properties.                                                              *)

\* A timer is never left running for a user whose live socket is in the
\* session: whoever comes back within the grace period is neither removed nor,
\* when they own the session, everybody kicked because of them.
DepartureIsReal ==
  \A u \in Users \ strayed :
    departure[u] # None /\ Within(u, departure[u]) => joining[clients[u]] # None

\* Nobody who was in a session and whose socket has gone stays listed without
\* a timer that will take them off, or a close event to come that will start
\* it: no ghosts, however their sockets replaced each other and whatever the
\* topic delivered again.
NoGhost ==
  \A u \in Users \ strayed, s \in Sessions :
    u \in came[s] /\ clients[u] = None =>
      departure[u] = s \/ \E w \in OpenOf(u) : SessionOf(w) = s

\* Whoever is connected and listed, and has not been lost track of, keeps their
\* place, and with it what is sent to the session: no timer, join, event or close
\* event of an older socket takes them off the list without taking their socket
\* out of the session, unless the session itself is given up (removeParticipant
\* and its callers).
KeepsPlace ==
  [][\A u \in Users, s \in Sessions :
       u \in listed[s] /\ Within(u, s) /\ joining[clients[u]] = None =>
         \/ u \in listed'[s]
         \/ ~Within(u, s)'
         \/ capacity'[s] = None
         \/ u \in strayed']_vars

\* A session whose owner was there and does not come back is given up: it does
\* not stay open for its players without anyone to run it.
OwnerlessEnds ==
  \A s \in Sessions :
    LET h == OwnerOf[s]
    IN  h \in came[s] /\ clients[h] = None
          ~> capacity[s] = None \/ clients[h] # None \/ h \in strayed

=============================================================================
