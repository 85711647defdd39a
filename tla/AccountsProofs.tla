---------------------------- MODULE AccountsProofs ----------------------------
(***************************************************************************)
(* Proofs about Accounts, for any accounts, addresses, requests and        *)
(* failures.                                                               *)
(***************************************************************************)
EXTENDS Accounts, GatewayProofs, SequenceTheorems

\* The order of the awaits: what a step has read the next one writes, and what
\* is written is dropped next.
After(s, i) == IF i < Len(s) THEN s[i + 1] ELSE "end"

Follows(op, w, v) ==
  /\ w \in {"insert", "update", "save", "delete"} => v = "drop"
  /\ w = "find" <=> v = "save"
  /\ w = "get" <=> v = "load"
  /\ w = "load" <=> v = "set"
  /\ w = "set" => v = "end"
  /\ w = "loadAll" <=> v = "setAll"
  /\ w = "setAll" => v = "end"
  /\ w \in {"getAll", "loadAll", "setAll"} => op = "findAll"
  /\ w = "insert" => op = "register"
  /\ w = "update" => op = "grantPermissions"
  /\ w \in {"save", "delete", "find", "set"} => op # "register"

Path(op, s) == \A i \in 1..Len(s) : Follows(op, s[i], After(s, i))

\* What a request has seen when it comes to an await.
IsAt(r, w) == r.todo # <<>> /\ Head(r.todo) = w

SeenOK(r) ==
  IF IsAt(r, "setAll") THEN r.seen \in List
  ELSE IF IsAt(r, "save") \/ IsAt(r, "set") THEN r.seen \in Row
  ELSE r.seen \in Row \cup {None}

RequestOK(u, r) ==
  /\ r \in Req
  /\ Path(r.op, r.todo)
  /\ SeenOK(r)
  /\ r.op = "register" => r.on = u /\ r.data.email \in Emails
  /\ r.op = "grantPermissions" => r.data.role \in UserRole

Requests ==
  /\ req \in [Users -> Req \cup {None}]
  /\ \A u \in Users : req[u] # None => RequestOK(u, req[u])

Types ==
  /\ rows \in [Users -> Row \cup {None, Gone}]
  /\ copy \in [Users -> Row \cup {None}]
  /\ list \in List \cup {None}
  /\ tokens \in [Users -> [access : UserRole \cup {None}, refresh : UserRole \cup {None}]]
  /\ Requests
  /\ granted \in [Users -> UserRole \cup {None}]
  /\ late \subseteq Users /\ (\A w \in late : At(w, "save")) /\ lost \subseteq Users
  /\ missed \subseteq Users \cup {"list"}
  /\ requests \in 0..MaxRequests /\ faults \in 0..MaxFaults

\* An account that is not there yet has no copy, and only its registration runs.
Unborn ==
  \A u \in Users :
    rows[u] = None =>
      /\ copy[u] = None
      /\ \A w \in Users : req[w] # None /\ req[w].on = u => req[w].op = "register"

\* What differs from its rows is about to be dropped, or never will be.
Owed(key) == \E w \in Users : At(w, "drop") /\ key \in Drops(req[w])

Copies ==
  /\ \A u \in Users : copy[u] \notin {None, rows[u]} => u \in missed \/ Owed(u)
  /\ list \notin {None, All(rows)} => "list" \in missed \/ Owed("list")

\* An update about to write its row back has read the role last given, unless
\* it is late.
Roles ==
  /\ GrantHolds
  /\ \A w \in Users :
       At(w, "save") /\ w \notin late /\ Exists(req[w].on) =>
         req[w].seen.role = granted[req[w].on] \/ req[w].on \in lost

IInv == Types /\ Unborn /\ OneAccountPerEmail /\ Copies /\ Roles

----------------------------------------------------------------------------
(* The sequences of awaits.                                                 *)

\* What is left of a request's awaits after one of them.
LEMMA Rest ==
  ASSUME NEW s \in Seq(Steps), s # <<>>
  PROVE  /\ Head(s) = s[1] /\ Len(s) \in Nat /\ Len(s) >= 1
         /\ Tail(s) \in Seq(Steps)
         /\ Len(Tail(s)) = Len(s) - 1
         /\ \A i \in 1..(Len(s) - 1) : Tail(s)[i] = s[i + 1]
         /\ Tail(s) = <<>> <=> Len(s) = 1
<1>1. Head(s) = s[1] /\ Len(s) \in Nat /\ Len(s) >= 1
  BY EmptySeq, LenProperties
<1>2. /\ Tail(s) \in Seq(Steps) /\ Len(Tail(s)) = Len(s) - 1
      /\ \A i \in 1..(Len(s) - 1) : Tail(s)[i] = s[i + 1]
  BY HeadTailProperties
<1>3. Tail(s) = <<>> <=> Len(Tail(s)) = 0
  BY <1>2, EmptySeq
<1> QED BY <1>1, <1>2, <1>3

\* The order holds of what is left.
LEMMA RestPath ==
  ASSUME NEW op, NEW s \in Seq(Steps), s # <<>>, Path(op, s)
  PROVE  /\ Path(op, Tail(s))
         /\ Follows(op, Head(s), IF Tail(s) = <<>> THEN "end" ELSE Head(Tail(s)))
<1>1. /\ Len(s) \in Nat /\ Len(s) >= 1 /\ Len(Tail(s)) = Len(s) - 1
      /\ \A i \in 1..(Len(s) - 1) : Tail(s)[i] = s[i + 1]
      /\ Tail(s) = <<>> <=> Len(s) = 1
      /\ Tail(s) \in Seq(Steps)
      /\ Head(s) = s[1]
  BY Rest
<1>2. \A i \in 1..Len(Tail(s)) :
        i + 1 \in 1..Len(s) /\ Tail(s)[i] = s[i + 1] /\ After(Tail(s), i) = After(s, i + 1)
  BY <1>1 DEF After
<1>3. Path(op, Tail(s))
  BY <1>2 DEF Path
<1>4. After(s, 1) = IF Tail(s) = <<>> THEN "end" ELSE Head(Tail(s))
  <2>1. CASE Tail(s) = <<>>
    BY <1>1, <2>1 DEF After
  <2>2. CASE Tail(s) # <<>>
    <3>1. Head(Tail(s)) = Tail(s)[1]
      BY <1>1, <2>2, Rest
    <3> QED BY <1>1, <2>2, <3>1 DEF After
  <2> QED BY <2>1, <2>2
<1> QED BY <1>1, <1>3, <1>4 DEF Path

\* The awaits of every operation are in order.
LEMMA AwaitsPath ==
  ASSUME NEW op \in Ops, NEW data \in Data
  PROVE  /\ Awaits(op, data) \in Seq(Steps) /\ Awaits(op, data) # <<>>
         /\ Path(op, Awaits(op, data))
         /\ Head(Awaits(op, data)) \notin {"save", "set", "setAll"}
<1>1. CASE op = "register"
  <2> DEFINE s == <<"look", "insert", "drop">>
  <2>1. Awaits(op, data) = s
    BY <1>1 DEF Awaits
  <2>2. s \in Seq(Steps) /\ s # <<>> /\ Len(s) = 3 /\ Head(s) = "look"
    BY DEF Steps
  <2>3. /\ s[1] = "look" /\ After(s, 1) = "insert"
        /\ s[2] = "insert" /\ After(s, 2) = "drop"
        /\ s[3] = "drop" /\ After(s, 3) = "end"
    BY <2>2 DEF After
  <2>4. /\ Follows(op, "look", "insert")
        /\ Follows(op, "insert", "drop")
        /\ Follows(op, "drop", "end")
    BY <1>1 DEF Follows
  <2>5. Path(op, s)
    <3> HIDE DEF s
    <3> QED BY <2>2, <2>3, <2>4 DEF Path
  <2> QED BY <2>1, <2>2, <2>5
<1>2. CASE op = "login"
  <2> DEFINE s == <<"look">>
  <2>1. Awaits(op, data) = s
    BY <1>2 DEF Awaits
  <2>2. s \in Seq(Steps) /\ s # <<>> /\ Len(s) = 1 /\ Head(s) = "look"
    BY DEF Steps
  <2>3. /\ s[1] = "look" /\ After(s, 1) = "end"
    BY <2>2 DEF After
  <2>4. /\ Follows(op, "look", "end")
    BY <1>2 DEF Follows
  <2>5. Path(op, s)
    <3> HIDE DEF s
    <3> QED BY <2>2, <2>3, <2>4 DEF Path
  <2> QED BY <2>1, <2>2, <2>5
<1>3. CASE op \in {"refreshAccessToken", "findById"}
  <2> DEFINE s == <<"get", "load", "set">>
  <2>1. Awaits(op, data) = s
    BY <1>3 DEF Awaits, FindByIdAwaits
  <2>2. s \in Seq(Steps) /\ s # <<>> /\ Len(s) = 3 /\ Head(s) = "get"
    BY DEF Steps
  <2>3. /\ s[1] = "get" /\ After(s, 1) = "load"
        /\ s[2] = "load" /\ After(s, 2) = "set"
        /\ s[3] = "set" /\ After(s, 3) = "end"
    BY <2>2 DEF After
  <2>4. /\ Follows(op, "get", "load")
        /\ Follows(op, "load", "set")
        /\ Follows(op, "set", "end")
    BY <1>3 DEF Follows
  <2>5. Path(op, s)
    <3> HIDE DEF s
    <3> QED BY <2>2, <2>3, <2>4 DEF Path
  <2> QED BY <2>1, <2>2, <2>5
<1>4. CASE op = "findAll"
  <2> DEFINE s == <<"getAll", "loadAll", "setAll">>
  <2>1. Awaits(op, data) = s
    BY <1>4 DEF Awaits
  <2>2. s \in Seq(Steps) /\ s # <<>> /\ Len(s) = 3 /\ Head(s) = "getAll"
    BY DEF Steps
  <2>3. /\ s[1] = "getAll" /\ After(s, 1) = "loadAll"
        /\ s[2] = "loadAll" /\ After(s, 2) = "setAll"
        /\ s[3] = "setAll" /\ After(s, 3) = "end"
    BY <2>2 DEF After
  <2>4. /\ Follows(op, "getAll", "loadAll")
        /\ Follows(op, "loadAll", "setAll")
        /\ Follows(op, "setAll", "end")
    BY <1>4 DEF Follows
  <2>5. Path(op, s)
    <3> HIDE DEF s
    <3> QED BY <2>2, <2>3, <2>4 DEF Path
  <2> QED BY <2>1, <2>2, <2>5
<1>5. CASE op = "grantPermissions"
  <2> DEFINE s == <<"check", "update", "drop", "check">>
  <2>1. Awaits(op, data) = s
    BY <1>5 DEF Awaits
  <2>2. s \in Seq(Steps) /\ s # <<>> /\ Len(s) = 4 /\ Head(s) = "check"
    BY DEF Steps
  <2>3. /\ s[1] = "check" /\ After(s, 1) = "update"
        /\ s[2] = "update" /\ After(s, 2) = "drop"
        /\ s[3] = "drop" /\ After(s, 3) = "check"
        /\ s[4] = "check" /\ After(s, 4) = "end"
    BY <2>2 DEF After
  <2>4. /\ Follows(op, "check", "update")
        /\ Follows(op, "update", "drop")
        /\ Follows(op, "drop", "check")
        /\ Follows(op, "check", "end")
    BY <1>5 DEF Follows
  <2>5. Path(op, s)
    <3> HIDE DEF s
    <3> QED BY <2>2, <2>3, <2>4 DEF Path
  <2> QED BY <2>1, <2>2, <2>5
<1>6. CASE op = "deleteUser"
  <2> DEFINE s == <<"delete", "drop">>
  <2>1. Awaits(op, data) = s
    BY <1>6 DEF Awaits
  <2>2. s \in Seq(Steps) /\ s # <<>> /\ Len(s) = 2 /\ Head(s) = "delete"
    BY DEF Steps
  <2>3. /\ s[1] = "delete" /\ After(s, 1) = "drop"
        /\ s[2] = "drop" /\ After(s, 2) = "end"
    BY <2>2 DEF After
  <2>4. /\ Follows(op, "delete", "drop")
        /\ Follows(op, "drop", "end")
    BY <1>6 DEF Follows
  <2>5. Path(op, s)
    <3> HIDE DEF s
    <3> QED BY <2>2, <2>3, <2>4 DEF Path
  <2> QED BY <2>1, <2>2, <2>5
<1>7. CASE op = "updateUser" /\ data.email = None
  <2> DEFINE s == <<"check", "find", "save", "drop", "get", "load", "set">>
  <2>1. Awaits(op, data) = s
    BY <1>7 DEF Awaits
  <2>2. s \in Seq(Steps) /\ s # <<>> /\ Len(s) = 7 /\ Head(s) = "check"
    BY DEF Steps
  <2>3. /\ s[1] = "check" /\ After(s, 1) = "find"
        /\ s[2] = "find" /\ After(s, 2) = "save"
        /\ s[3] = "save" /\ After(s, 3) = "drop"
        /\ s[4] = "drop" /\ After(s, 4) = "get"
        /\ s[5] = "get" /\ After(s, 5) = "load"
        /\ s[6] = "load" /\ After(s, 6) = "set"
        /\ s[7] = "set" /\ After(s, 7) = "end"
    BY <2>2 DEF After
  <2>4. /\ Follows(op, "check", "find")
        /\ Follows(op, "find", "save")
        /\ Follows(op, "save", "drop")
        /\ Follows(op, "drop", "get")
        /\ Follows(op, "get", "load")
        /\ Follows(op, "load", "set")
        /\ Follows(op, "set", "end")
    BY <1>7 DEF Follows
  <2>5. Path(op, s)
    <3> HIDE DEF s
    <3> QED BY <2>2, <2>3, <2>4 DEF Path
  <2> QED BY <2>1, <2>2, <2>5
<1>8. CASE op = "updateUser" /\ data.email # None
  <2> DEFINE s == <<"check", "look", "find", "save", "drop", "get", "load", "set">>
  <2>1. Awaits(op, data) = s
    BY <1>8 DEF Awaits
  <2>2. s \in Seq(Steps) /\ s # <<>> /\ Len(s) = 8 /\ Head(s) = "check"
    BY DEF Steps
  <2>3. /\ s[1] = "check" /\ After(s, 1) = "look"
        /\ s[2] = "look" /\ After(s, 2) = "find"
        /\ s[3] = "find" /\ After(s, 3) = "save"
        /\ s[4] = "save" /\ After(s, 4) = "drop"
        /\ s[5] = "drop" /\ After(s, 5) = "get"
        /\ s[6] = "get" /\ After(s, 6) = "load"
        /\ s[7] = "load" /\ After(s, 7) = "set"
        /\ s[8] = "set" /\ After(s, 8) = "end"
    BY <2>2 DEF After
  <2>4. /\ Follows(op, "check", "look")
        /\ Follows(op, "look", "find")
        /\ Follows(op, "find", "save")
        /\ Follows(op, "save", "drop")
        /\ Follows(op, "drop", "get")
        /\ Follows(op, "get", "load")
        /\ Follows(op, "load", "set")
        /\ Follows(op, "set", "end")
    BY <1>8 DEF Follows
  <2>5. Path(op, s)
    <3> HIDE DEF s
    <3> QED BY <2>2, <2>3, <2>4 DEF Path
  <2> QED BY <2>1, <2>2, <2>5
<1> QED BY <1>1, <1>2, <1>3, <1>4, <1>5, <1>6, <1>7, <1>8 DEF Ops

----------------------------------------------------------------------------
(* A request.                                                               *)

\* A request that starts, or starts over.
LEMMA Starts ==
  ASSUME NEW u \in Users, NEW op \in Ops, NEW on \in Users, NEW data \in Data,
         NEW n \in 0..MaxRetries,
         op = "register" => on = u /\ data.email \in Emails,
         op = "grantPermissions" => data.role \in UserRole
  PROVE  /\ RequestOK(u, Request(op, on, data, n))
         /\ ~IsAt(Request(op, on, data, n), "save")
<1> DEFINE r == Request(op, on, data, n)
<1>1. /\ r.op = op /\ r.on = on /\ r.data = data /\ r.todo = Awaits(op, data)
      /\ r.seen = None /\ r.tries = n
  BY DEF Request
<1>2. r \in Req
  BY AwaitsPath DEF Request, Req
<1>3. SeenOK(r) /\ ~IsAt(r, "save")
  BY <1>1, AwaitsPath DEF SeenOK, IsAt
<1> HIDE DEF r
<1>4. RequestOK(u, r)
  BY <1>1, <1>2, <1>3, AwaitsPath DEF RequestOK
<1> QED BY <1>3, <1>4 DEF r

\* The await done, x seen.
LEMMA Sees ==
  ASSUME NEW u \in Users, NEW r, RequestOK(u, r), r.todo # <<>>,
         NEW x \in Row \cup {None} \cup List,
         SeenOK(Saw(r, x))
  PROVE  /\ RequestOK(u, Saw(r, x))
         /\ Saw(r, x).op = r.op /\ Saw(r, x).on = r.on /\ Saw(r, x).seen = x
         /\ IsAt(Saw(r, x), "save") => IsAt(r, "find")
<1> DEFINE s == Saw(r, x)
<1>1. r \in Req
  BY DEF RequestOK
<1>2. /\ s.op = r.op /\ s.on = r.on /\ s.data = r.data /\ s.seen = x
      /\ s.todo = Tail(r.todo) /\ s.tries = r.tries
  BY <1>1 DEF Saw, Req
<1>3. Tail(r.todo) \in Seq(Steps)
  BY <1>1, Rest DEF Req
<1>4. s \in Req
  BY <1>1, <1>3 DEF Saw, Req
<1>5. /\ Path(r.op, Tail(r.todo))
      /\ Follows(r.op, Head(r.todo), IF Tail(r.todo) = <<>> THEN "end" ELSE Head(Tail(r.todo)))
  BY <1>1, RestPath DEF RequestOK, Req
<1>6. IsAt(s, "save") => IsAt(r, "find")
  BY <1>2, <1>5 DEF IsAt, Follows
<1> HIDE DEF s
<1>7. RequestOK(u, s)
  BY <1>2, <1>4, <1>5 DEF RequestOK, s
<1> QED BY <1>2, <1>6, <1>7 DEF s

\* What comes of a request in one step: it goes on as the same operation on the
\* same account, or ends.
Follow(u, r, s) ==
  s # None =>
    /\ RequestOK(u, s)
    /\ s.op = r.op /\ s.on = r.on
    /\ IsAt(s, "save") => IsAt(r, "find")

LEMMA Goes ==
  ASSUME NEW u \in Users, NEW r, RequestOK(u, r)
  PROVE  /\ Follow(u, r, Again(r))
         /\ Follow(u, r, Refused(r)) /\ Refused(r).todo = <<>>
         /\ Follow(u, r, Failed(r))
         /\ ~(Again(r) # None /\ IsAt(Again(r), "save"))
         /\ ~(Failed(r) # None /\ IsAt(Failed(r), "save"))
<1>1. r \in Req /\ (r.op = "register" => r.on = u /\ r.data.email \in Emails)
      /\ (r.op = "grantPermissions" => r.data.role \in UserRole)
  BY DEF RequestOK
<1>2. Follow(u, r, Again(r)) /\ ~(Again(r) # None /\ IsAt(Again(r), "save"))
  <2>1. CASE r.tries < MaxRetries
    <3> DEFINE n == r.tries + 1
    <3>1. n \in 0..MaxRetries
      BY <1>1, <2>1, AccountBounds DEF Req
    <3> HIDE DEF n
    <3>2. /\ RequestOK(u, Request(r.op, r.on, r.data, n))
          /\ ~IsAt(Request(r.op, r.on, r.data, n), "save")
      BY <1>1, <3>1, Starts DEF Req
    <3>3. /\ Request(r.op, r.on, r.data, n).op = r.op
          /\ Request(r.op, r.on, r.data, n).on = r.on
      BY DEF Request
    <3> QED BY <2>1, <3>2, <3>3 DEF Again, Follow, n
  <2>2. CASE ~(r.tries < MaxRetries)
    BY <2>2 DEF Again, Follow
  <2> QED BY <2>1, <2>2
<1>3. Follow(u, r, Refused(r)) /\ Refused(r).todo = <<>>
  <2> DEFINE s == Refused(r)
  <2>1. /\ s.op = r.op /\ s.on = r.on /\ s.data = r.data /\ s.seen = None
        /\ s.todo = <<>> /\ s.tries = r.tries
    BY <1>1 DEF Refused, Req
  <2>2. s \in Req
    <3>1. <<>> \in Seq(Steps)
      OBVIOUS
    <3> QED BY <1>1, <3>1 DEF Refused, Req
  <2>3. Path(s.op, <<>>)
    BY DEF Path
  <2> HIDE DEF s
  <2>4. RequestOK(u, s)
    BY <1>1, <2>1, <2>2, <2>3 DEF RequestOK, SeenOK, IsAt
  <2> QED BY <2>1, <2>4 DEF Follow, IsAt, s
<1>4. Follow(u, r, Failed(r)) /\ ~(Failed(r) # None /\ IsAt(Failed(r), "save"))
  BY <1>2, <1>3 DEF Failed, IsAt
<1> QED BY <1>2, <1>3, <1>4

\* The await done, and nothing of it kept.
LEMMA GoesOn ==
  ASSUME NEW u \in Users, NEW r, RequestOK(u, r), r.todo # <<>>,
         Head(r.todo) \notin {"find", "load", "loadAll"}
  PROVE  Follow(u, r, Done(r)) /\ RequestOK(u, Done(r))
<1>1. r \in Req /\ Path(r.op, r.todo) /\ SeenOK(r)
  BY DEF RequestOK
<1>2. Follows(r.op, Head(r.todo), IF Tail(r.todo) = <<>> THEN "end" ELSE Head(Tail(r.todo)))
  BY <1>1, RestPath DEF Req
<1>3. Tail(r.todo) = <<>> <=> Len(r.todo) = 1
  BY <1>1, Rest DEF Req
<1>4. /\ Saw(r, None).seen = None /\ Saw(r, None).todo = Tail(r.todo)
      /\ Saw(r, r.seen).seen = r.seen /\ Saw(r, r.seen).todo = Tail(r.todo)
  BY <1>1 DEF Saw, Req
<1>5. CASE Len(r.todo) = 1 /\ r.op \notin Signing
  <2>1. SeenOK(Saw(r, None))
    BY <1>3, <1>4, <1>5 DEF SeenOK, IsAt
  <2> QED BY <1>5, <2>1, Sees DEF Follow, Done
<1>6. CASE ~(Len(r.todo) = 1 /\ r.op \notin Signing)
  <2>1. ~IsAt(r, "setAll")
    <3>1. Tail(r.todo) # <<>> => Head(Tail(r.todo)) \in Steps
      BY <1>1, Rest, ElementOfSeq DEF Req
    <3>2. "end" \notin Steps
      BY DEF Steps
    <3> QED BY <3>1, <3>2, <1>2, <1>3, <1>6 DEF IsAt, Follows, Signing
  <2>2. r.seen \in Row \cup {None}
    BY <1>1, <2>1 DEF SeenOK
  <2>3. Tail(r.todo) = <<>> \/ Head(Tail(r.todo)) \notin {"save", "set", "setAll"}
    BY <1>2 DEF Follows
  <2>4. SeenOK(Saw(r, r.seen))
    BY <1>4, <2>2, <2>3 DEF SeenOK, IsAt
  <2> QED BY <1>6, <2>2, <2>4, Sees DEF Follow, Done
<1> QED BY <1>5, <1>6

\* A row is read, or written.
LEMMA SeesRow ==
  ASSUME NEW u \in Users, NEW r, RequestOK(u, r), r.todo # <<>>,
         Head(r.todo) # "loadAll", NEW x \in Row
  PROVE  Follow(u, r, Saw(r, x)) /\ RequestOK(u, Saw(r, x)) /\ Saw(r, x).seen = x
<1>1. r \in Req /\ Path(r.op, r.todo)
  BY DEF RequestOK
<1>2. Follows(r.op, Head(r.todo), IF Tail(r.todo) = <<>> THEN "end" ELSE Head(Tail(r.todo)))
  BY <1>1, RestPath DEF Req
<1>3. Saw(r, x).seen = x /\ Saw(r, x).todo = Tail(r.todo)
  BY <1>1 DEF Saw, Req
<1>4. SeenOK(Saw(r, x))
  BY <1>2, <1>3 DEF SeenOK, IsAt, Follows
<1> QED BY <1>4, Sees DEF Follow

\* The rows are read.
LEMMA SeesList ==
  ASSUME NEW u \in Users, NEW r, RequestOK(u, r), r.todo # <<>>,
         Head(r.todo) = "loadAll", NEW x \in List
  PROVE  Follow(u, r, Saw(r, x))
<1>1. r \in Req /\ Path(r.op, r.todo)
  BY DEF RequestOK
<1>2. Follows(r.op, Head(r.todo), IF Tail(r.todo) = <<>> THEN "end" ELSE Head(Tail(r.todo)))
  BY <1>1, RestPath DEF Req
<1>3. Saw(r, x).seen = x /\ Saw(r, x).todo = Tail(r.todo)
  BY <1>1 DEF Saw, Req
<1>4. SeenOK(Saw(r, x))
  BY <1>2, <1>3 DEF SeenOK, IsAt, Follows
<1> QED BY <1>4, Sees DEF Follow

\* The row is written, and what was read of it not needed any more.
LEMMA Saves ==
  ASSUME NEW u \in Users, NEW r, RequestOK(u, r), r.todo # <<>>,
         Head(r.todo) = "save"
  PROVE  RequestOK(u, Saw(r, None))
<1>1. r \in Req /\ Path(r.op, r.todo)
  BY DEF RequestOK
<1>2. Follows(r.op, Head(r.todo), IF Tail(r.todo) = <<>> THEN "end" ELSE Head(Tail(r.todo)))
  BY <1>1, RestPath DEF Req
<1>3. Saw(r, None).seen = None /\ Saw(r, None).todo = Tail(r.todo)
  BY <1>1 DEF Saw, Req
<1>4. SeenOK(Saw(r, None))
  BY <1>2, <1>3 DEF SeenOK, IsAt, Follows
<1> QED BY <1>4, Sees

\* What follows a write is the drop of the copies.
LEMMA Written ==
  ASSUME NEW u \in Users, NEW r, RequestOK(u, r), r.todo # <<>>,
         Head(r.todo) \in {"insert", "update", "save", "delete"},
         NEW s, s \in {Done(r), Saw(r, None), Saw(r, r.seen)}
                \cup {Saw(r, x) : x \in Row}
  PROVE  /\ IsAt(s, "drop") /\ s.op = r.op /\ s.on = r.on
         /\ Head(r.todo) = "insert" => r.op = "register"
         /\ Head(r.todo) = "update" => r.op = "grantPermissions"
         /\ Head(r.todo) \in {"save", "delete"} => r.op # "register"
<1>1. r \in Req /\ Path(r.op, r.todo)
  BY DEF RequestOK
<1>2. Follows(r.op, Head(r.todo), IF Tail(r.todo) = <<>> THEN "end" ELSE Head(Tail(r.todo)))
  BY <1>1, RestPath DEF Req
<1>3. Tail(r.todo) # <<>> /\ Head(Tail(r.todo)) = "drop"
  BY <1>2 DEF Follows
<1>4. s.todo = Tail(r.todo) /\ s.op = r.op /\ s.on = r.on
  BY <1>1 DEF Saw, Done, Req
<1> QED BY <1>2, <1>3, <1>4 DEF IsAt, Follows

\* A copy that is found is the answer; at a "get" only a "load" and a "set" are left.
LEMMA Answers ==
  ASSUME NEW u \in Users, NEW r, RequestOK(u, r), r.todo # <<>>,
         NEW x \in Row \cup {None},
         NEW todo, todo = <<>> \/ (Head(r.todo) = "get" /\ todo = SubSeq(r.todo, 4, Len(r.todo)))
  PROVE  Follow(u, r, [r EXCEPT !.todo = todo, !.seen = x])
<1> DEFINE s == [r EXCEPT !.todo = todo, !.seen = x]
<1>1. r \in Req /\ Path(r.op, r.todo)
  BY DEF RequestOK
<1>2. todo = <<>>
  <2>1. CASE Head(r.todo) = "get" /\ todo = SubSeq(r.todo, 4, Len(r.todo))
    <3>1. r.todo \in Seq(Steps) /\ Len(r.todo) \in Nat /\ Len(r.todo) >= 1 /\ r.todo[1] = "get"
      BY <1>1, <2>1, Rest DEF Req
    <3>2. /\ After(r.todo, 1) = "load"
          /\ Len(r.todo) >= 2 /\ r.todo[2] = "load"
      BY <1>1, <3>1 DEF Path, Follows, After
    <3>3. /\ After(r.todo, 2) = "set"
          /\ Len(r.todo) >= 3 /\ r.todo[3] = "set"
      BY <1>1, <3>1, <3>2 DEF Path, Follows, After
    <3>4. After(r.todo, 3) = "end"
      BY <1>1, <3>1, <3>3 DEF Path, Follows
    <3>5. Len(r.todo) = 3
      <4>1. \A i \in 1..Len(r.todo) : r.todo[i] \in Steps
        BY <3>1, ElementOfSeq
      <4>2. "end" \notin Steps
        BY DEF Steps
      <4>3. ~(3 < Len(r.todo))
        <5> SUFFICES ASSUME 3 < Len(r.todo) PROVE FALSE
          OBVIOUS
        <5>1. 4 \in 1..Len(r.todo) /\ After(r.todo, 3) = r.todo[4]
          BY <3>1 DEF After
        <5> QED BY <3>4, <4>1, <4>2, <5>1
      <4>4. \A n \in Nat : n >= 3 /\ ~(3 < n) => n = 3
        OBVIOUS
      <4> QED BY <3>1, <3>3, <4>3, <4>4
    <3>6. SubSeq(r.todo, 4, 3) = <<>>
      BY <3>1
    <3> QED BY <2>1, <3>5, <3>6
  <2> QED BY <2>1
<1>3. /\ s.op = r.op /\ s.on = r.on /\ s.data = r.data /\ s.seen = x
      /\ s.todo = <<>> /\ s.tries = r.tries
  BY <1>1, <1>2 DEF Req
<1>4. s \in Req
  <2>1. <<>> \in Seq(Steps)
    OBVIOUS
  <2> QED BY <1>1, <1>2, <2>1 DEF Req
<1>5. Path(s.op, <<>>)
  BY DEF Path
<1> HIDE DEF s
<1>6. RequestOK(u, s)
  BY <1>1, <1>3, <1>4, <1>5 DEF RequestOK, SeenOK, IsAt
<1> QED BY <1>3, <1>6 DEF Follow, IsAt, s

----------------------------------------------------------------------------
(* What the gateway lets through.                                           *)

\* What an owner sends are tokens of its own.
LEMMA SentTokens ==
  ASSUME Types, NEW u \in Users
  PROVE  LET h == [access |-> Sent(u).access, refresh |-> Sent(u).refresh,
                    game |-> None, metrics |-> FALSE]
         IN  /\ h \in Headers
             /\ \A kind \in {"access", "refresh"} : Verifies(h[kind]) => h[kind].userId = u
<1> DEFINE h == [access |-> Sent(u).access, refresh |-> Sent(u).refresh,
                    game |-> None, metrics |-> FALSE]
<1>1. tokens[u].access \in UserRole \cup {None} /\ tokens[u].refresh \in UserRole \cup {None}
  BY DEF Types
<1>2. /\ h.access = IF tokens[u].access = None THEN None ELSE AccountToken(u, tokens[u].access)
      /\ h.refresh = IF tokens[u].refresh = None THEN None ELSE AccountToken(u, tokens[u].refresh)
  BY DEF Sent
<1>3. \A role : AccountToken(u, role).userId = u
  BY DEF AccountToken, Nobody
<1>4. h \in Headers
  BY <1>1, <1>2 DEF Headers, AccountTokens
<1>5. \A kind \in {"access", "refresh"} : Verifies(h[kind]) => h[kind].userId = u
  BY <1>2, <1>3 DEF Verifies
<1> QED BY <1>4, <1>5

\* The requests a route can lead to.
LEMMA RouteData ==
  ASSUME NEW rt \in UserRoutes, NEW data \in DataOf(rt)
  PROVE  /\ OperationOf(rt) \in Ops /\ data \in Data
         /\ OperationOf(rt) = "register" <=> rt = Register
         /\ OperationOf(rt) = "register" => data.email \in Emails
         /\ OperationOf(rt) = "grantPermissions" => data.role \in UserRole
         /\ rt.token = "public" => rt \in {Register, Login}
         /\ rt.token \in {"public", "access", "refresh"}
<1>1. /\ Register.handler = "register" /\ Register.token = "public"
      /\ Login.handler = "login" /\ Login.token = "public"
      /\ RefreshToken.handler = "refreshToken" /\ RefreshToken.token = "refresh"
      /\ GrantPermissions.handler = "grantPermissions" /\ GrantPermissions.token = "access"
      /\ FindAll.handler = "findAll" /\ FindAll.token = "access"
      /\ FindById.handler = "findById" /\ FindById.token = "access"
      /\ UpdateUser.handler = "updateUser" /\ UpdateUser.token = "access"
      /\ DeleteUser.handler = "deleteUser" /\ DeleteUser.token = "access"
      /\ GetMe.handler = "getMe" /\ GetMe.token = "access"
      /\ UpdateMe.handler = "updateMe" /\ UpdateMe.token = "access"
      /\ DeleteMe.handler = "deleteMe" /\ DeleteMe.token = "access"
  BY DEF Route, Register, Login, RefreshToken, GrantPermissions, FindAll, FindById,
         UpdateUser, DeleteUser, GetMe, UpdateMe, DeleteMe
<1>2. UserRole \cup {None} # {} /\ Granted \subseteq UserRole
  BY GrantedType
<1>3. CASE rt = Register
  <2>1. OperationOf(rt) = "register"
    BY <1>1, <1>3 DEF OperationOf
  <2>2. DataOf(rt) = {[NoData EXCEPT !.email = e] : e \in Emails}
    BY <1>1, <1>3 DEF DataOf
  <2> QED BY <1>1, <1>2, <1>3, <2>1, <2>2 DEF Ops, Data, NoData
<1>4. CASE rt = Login
  <2>1. OperationOf(rt) = "login"
    BY <1>1, <1>4 DEF OperationOf
  <2>2. DataOf(rt) = {NoData}
    BY <1>1, <1>4 DEF DataOf
  <2> QED BY <1>1, <1>2, <1>4, <2>1, <2>2 DEF Ops, Data, NoData
<1>5. CASE rt = RefreshToken
  <2>1. OperationOf(rt) = "refreshAccessToken"
    BY <1>1, <1>5 DEF OperationOf
  <2>2. DataOf(rt) = {NoData}
    BY <1>1, <1>5 DEF DataOf
  <2> QED BY <1>1, <1>2, <1>5, <2>1, <2>2 DEF Ops, Data, NoData
<1>6. CASE rt = GrantPermissions
  <2>1. OperationOf(rt) = "grantPermissions"
    BY <1>1, <1>6 DEF OperationOf
  <2>2. DataOf(rt) = {[NoData EXCEPT !.role = r] : r \in Granted}
    BY <1>1, <1>6 DEF DataOf
  <2> QED BY <1>1, <1>2, <1>6, <2>1, <2>2 DEF Ops, Data, NoData
<1>7. CASE rt = FindAll
  <2>1. OperationOf(rt) = "findAll"
    BY <1>1, <1>7 DEF OperationOf
  <2>2. DataOf(rt) = {NoData}
    BY <1>1, <1>7 DEF DataOf
  <2> QED BY <1>1, <1>2, <1>7, <2>1, <2>2 DEF Ops, Data, NoData
<1>8. CASE rt = FindById
  <2>1. OperationOf(rt) = "findById"
    BY <1>1, <1>8 DEF OperationOf
  <2>2. DataOf(rt) = {NoData}
    BY <1>1, <1>8 DEF DataOf
  <2> QED BY <1>1, <1>2, <1>8, <2>1, <2>2 DEF Ops, Data, NoData
<1>9. CASE rt = UpdateUser
  <2>1. OperationOf(rt) = "updateUser"
    BY <1>1, <1>9 DEF OperationOf
  <2>2. DataOf(rt) = [email : Emails \cup {None}, role : Granted \cup {None}]
    BY <1>1, <1>9 DEF DataOf
  <2> QED BY <1>1, <1>2, <1>9, <2>1, <2>2 DEF Ops, Data, NoData
<1>10. CASE rt = DeleteUser
  <2>1. OperationOf(rt) = "deleteUser"
    BY <1>1, <1>10 DEF OperationOf
  <2>2. DataOf(rt) = {NoData}
    BY <1>1, <1>10 DEF DataOf
  <2> QED BY <1>1, <1>2, <1>10, <2>1, <2>2 DEF Ops, Data, NoData
<1>11. CASE rt = GetMe
  <2>1. OperationOf(rt) = "findById"
    BY <1>1, <1>11 DEF OperationOf
  <2>2. DataOf(rt) = {NoData}
    BY <1>1, <1>11 DEF DataOf
  <2> QED BY <1>1, <1>2, <1>11, <2>1, <2>2 DEF Ops, Data, NoData
<1>12. CASE rt = UpdateMe
  <2>1. OperationOf(rt) = "updateUser"
    BY <1>1, <1>12 DEF OperationOf
  <2>2. DataOf(rt) = [email : Emails \cup {None}, role : Granted \cup {None}]
    BY <1>1, <1>12 DEF DataOf
  <2> QED BY <1>1, <1>2, <1>12, <2>1, <2>2 DEF Ops, Data, NoData
<1>13. CASE rt = DeleteMe
  <2>1. OperationOf(rt) = "deleteUser"
    BY <1>1, <1>13 DEF OperationOf
  <2>2. DataOf(rt) = {NoData}
    BY <1>1, <1>13 DEF DataOf
  <2> QED BY <1>1, <1>2, <1>13, <2>1, <2>2 DEF Ops, Data, NoData
<1> QED BY <1>3, <1>4, <1>5, <1>6, <1>7, <1>8, <1>9, <1>10, <1>11, <1>12, <1>13 DEF UserRoutes

----------------------------------------------------------------------------
(* The steps that leave the rows and the copies alone.                      *)

\* One request moves, the others stay where they are.
LEMMA OneMoves ==
  ASSUME Types, NEW u \in Users, NEW s, s = None \/ RequestOK(u, s), Becomes(u, s)
  PROVE  /\ Requests'
         /\ req'[u] = s
         /\ \A v \in Users \ {u} : req'[v] = req[v] /\ \A k : At(v, k)' <=> At(v, k)
         /\ \A k : At(u, k)' <=> s # None /\ IsAt(s, k)
<1>1. /\ req'[u] = s /\ req' \in [Users -> Req \cup {None}]
      /\ \A v \in Users \ {u} : req'[v] = req[v]
  BY DEF Types, Requests, Becomes, RequestOK
<1>2. Requests'
  BY <1>1 DEF Types, Requests
<1>3. \A v \in Users \ {u} : \A k : At(v, k)' <=> At(v, k)
  BY <1>1 DEF At, Busy
<1>4. \A k : At(u, k)' <=> s # None /\ IsAt(s, k)
  BY <1>1 DEF At, Busy, IsAt
<1> QED BY <1>1, <1>2, <1>3, <1>4

\* An update that has read its row has read the role last given, or a lost one.
LEMMA ReadsTheRole ==
  ASSUME IInv, NEW on \in Users, Exists(on)
  PROVE  rows[on] \in Row /\ (rows[on].role = granted[on] \/ on \in lost)
BY DEF IInv, Types, Roles, GrantHolds, Exists

LEMMA Quiet ==
  ASSUME IInv, NEW u \in Users, req[u] # None, ~At(u, "drop"),
         NEW s, Follow(u, req[u], s), Becomes(u, s),
         s # None /\ IsAt(s, "save") => Exists(s.on) /\ s.seen = rows[s.on],
         late' = late \ {u} \/ (late' = late /\ ~At(u, "save")),
         UNCHANGED <<rows, granted, lost, copy, list, missed>>,
         tokens' \in [Users -> [access : UserRole \cup {None}, refresh : UserRole \cup {None}]],
         requests' \in 0..MaxRequests, faults' \in 0..MaxFaults
  PROVE  IInv'
<1>1. /\ Requests' /\ req'[u] = s
      /\ \A v \in Users \ {u} : req'[v] = req[v] /\ \A k : At(v, k)' <=> At(v, k)
      /\ \A k : At(u, k)' <=> s # None /\ IsAt(s, k)
  BY OneMoves DEF IInv, Follow
<1>2. RequestOK(u, req[u]) /\ req[u].on \in Users
  BY DEF IInv, Types, Requests, RequestOK, Req
<1>3. late' \subseteq late /\ u \notin late'
  BY DEF IInv, Types
<1>4. Types'
  <2>1. \A w \in late' : w \in Users /\ At(w, "save")'
    BY <1>1, <1>3 DEF IInv, Types
  <2> QED BY <1>1, <1>3, <2>1 DEF IInv, Types
<1>5. Unborn'
  BY <1>1 DEF IInv, Unborn, Follow
<1>6. OneAccountPerEmail'
  BY DEF IInv, OneAccountPerEmail, Exists
<1>7. Copies'
  <2>1. \A key : Owed(key) => Owed(key)'
    BY <1>1 DEF Owed, Drops
  <2> QED BY <2>1 DEF IInv, Copies, All
<1>8. Roles'
  <2>1. GrantHolds'
    BY DEF IInv, Roles, GrantHolds, Exists
  <2>2. ASSUME NEW w \in Users, At(w, "save")', w \notin late', Exists(req[w].on)'
        PROVE  req'[w].seen.role = granted[req'[w].on] \/ req'[w].on \in lost
    <3>1. CASE w = u
      <4>1. s # None /\ IsAt(s, "save") /\ s.on = req[u].on
        BY <1>1, <2>2, <3>1 DEF Follow
      <4> QED BY <1>1, <1>2, <3>1, <4>1, ReadsTheRole
    <3>2. CASE w # u
      <4>1. At(w, "save") /\ req'[w] = req[w] /\ Exists(req[w].on)
        BY <1>1, <2>2, <3>2 DEF Exists
      <4>2. w \notin late
        BY <2>2, <3>2
      <4> QED BY <4>1, <4>2 DEF IInv, Roles
    <3> QED BY <3>1, <3>2
  <2> QED BY <2>1, <2>2 DEF Roles
<1> QED BY <1>4, <1>5, <1>6, <1>7, <1>8 DEF IInv

\* The request that is at an await.
LEMMA AtAnAwait ==
  ASSUME IInv, NEW u \in Users, NEW w, At(u, w)
  PROVE  /\ req[u] # None /\ RequestOK(u, req[u]) /\ req[u].todo # <<>>
         /\ Head(req[u].todo) = w /\ req[u].on \in Users
         /\ \A k : At(u, k) <=> k = w
         /\ rows[req[u].on] = None => req[u].op = "register"
BY DEF At, Busy, IInv, Types, Requests, RequestOK, Req, Unborn

\* A step that only moves its request, to one that is not about to save.
LEMMA OnlyMoves ==
  ASSUME IInv, NEW u \in Users, NEW w, At(u, w), w \notin {"find", "save", "drop"},
         NEW s, Follow(u, req[u], s), Becomes(u, s),
         UNCHANGED <<store, caches, tokens, counts>>
  PROVE  IInv'
<1>1. /\ req[u] # None /\ ~At(u, "drop") /\ ~At(u, "save") /\ ~IsAt(req[u], "find")
  BY AtAnAwait DEF IsAt
<1>2. ~(s # None /\ IsAt(s, "save"))
  BY <1>1 DEF Follow
<1>3. UNCHANGED <<rows, granted, lost, copy, list, missed, late, tokens, requests, faults>>
  BY DEF store, caches, counts
<1>4. /\ tokens' \in [Users -> [access : UserRole \cup {None}, refresh : UserRole \cup {None}]]
      /\ requests' \in 0..MaxRequests /\ faults' \in 0..MaxFaults
  BY <1>3 DEF IInv, Types
<1> QED BY <1>1, <1>2, <1>3, <1>4, Quiet

LEMMA LookStep ==
  ASSUME IInv, NEW u \in Users, Look(u)
  PROVE  IInv'
<1>1. At(u, "look") /\ UNCHANGED <<store, caches, tokens, counts>>
  BY DEF Look
<1>2. /\ req[u] # None /\ RequestOK(u, req[u]) /\ req[u].todo # <<>>
      /\ Head(req[u].todo) = "look"
  BY <1>1, AtAnAwait
<1>3. Follow(u, req[u], Done(req[u])) /\ Follow(u, req[u], Refused(req[u]))
  BY <1>2, GoesOn, Goes
<1>4. ASSUME Exists(u)
      PROVE  Follow(u, req[u], Saw(req[u], rows[u]))
  BY <1>2, <1>4, SeesRow, ReadsTheRole
<1>5. \/ Becomes(u, Done(req[u])) \/ Becomes(u, Refused(req[u]))
      \/ Exists(u) /\ Becomes(u, Saw(req[u], rows[u]))
  <2>1. CASE Exists(u)
    BY <2>1 DEF Look
  <2>2. CASE ~Exists(u)
    <3> DEFINE found == {v \in Users : Exists(v) /\ rows[v].email = None}
    <3>1. found = {}
      <4> SUFFICES ASSUME NEW v \in Users, Exists(v), rows[v].email = None PROVE FALSE
        OBVIOUS
      <4>1. rows[v] \in Row
        BY ReadsTheRole
      <4> QED BY <4>1, ApartFromNone DEF Row
    <3> QED BY <2>2, <3>1 DEF Look
  <2> QED BY <2>1, <2>2
<1> QED BY <1>1, <1>3, <1>4, <1>5, OnlyMoves

LEMMA CheckStep ==
  ASSUME IInv, NEW u \in Users, Check(u)
  PROVE  IInv'
<1>1. At(u, "check") /\ UNCHANGED <<store, caches, tokens, counts>>
  BY DEF Check
<1>2. /\ req[u] # None /\ RequestOK(u, req[u]) /\ req[u].todo # <<>>
      /\ Head(req[u].todo) = "check"
  BY <1>1, AtAnAwait
<1>3. Follow(u, req[u], Done(req[u])) /\ Follow(u, req[u], Refused(req[u]))
  BY <1>2, GoesOn, Goes
<1>4. Becomes(u, Done(req[u])) \/ Becomes(u, Refused(req[u]))
  BY DEF Check
<1> QED BY <1>1, <1>3, <1>4, OnlyMoves

LEMMA FindStep ==
  ASSUME IInv, NEW u \in Users, Find(u)
  PROVE  IInv'
<1> DEFINE r == req[u]
           s == IF Exists(r.on) THEN Saw(r, rows[r.on]) ELSE Refused(r)
<1>1. At(u, "find") /\ Becomes(u, s) /\ UNCHANGED <<store, caches, tokens, counts>>
  BY DEF Find
<1>2. /\ r # None /\ RequestOK(u, r) /\ r.todo # <<>> /\ r.on \in Users
      /\ Head(r.todo) = "find" /\ ~At(u, "drop") /\ ~At(u, "save")
  BY <1>1, AtAnAwait
<1>3. CASE Exists(r.on)
  <2>1. rows[r.on] \in Row
    BY <1>2, <1>3, ReadsTheRole
  <2>2. Follow(u, r, s) /\ s.seen = rows[r.on]
    BY <1>2, <1>3, <2>1, SeesRow
  <2>3. s # None => s.on = r.on
    BY <2>2 DEF Follow
  <2> HIDE DEF s
  <2>4. UNCHANGED <<rows, granted, lost, copy, list, missed, late, tokens, requests, faults>>
    BY <1>1 DEF store, caches, counts
  <2>5. /\ tokens' \in [Users -> [access : UserRole \cup {None}, refresh : UserRole \cup {None}]]
        /\ requests' \in 0..MaxRequests /\ faults' \in 0..MaxFaults
    BY <2>4 DEF IInv, Types
  <2> QED BY <1>1, <1>2, <1>3, <2>2, <2>3, <2>4, <2>5, Quiet
<1>4. CASE ~Exists(r.on)
  <2>1. Follow(u, r, s) /\ s.todo = <<>>
    BY <1>2, <1>4, Goes
  <2> HIDE DEF s
  <2>2. UNCHANGED <<rows, granted, lost, copy, list, missed, late, tokens, requests, faults>>
    BY <1>1 DEF store, caches, counts
  <2>3. /\ tokens' \in [Users -> [access : UserRole \cup {None}, refresh : UserRole \cup {None}]]
        /\ requests' \in 0..MaxRequests /\ faults' \in 0..MaxFaults
    BY <2>2 DEF IInv, Types
  <2> QED BY <1>1, <1>2, <2>1, <2>2, <2>3, Quiet DEF IsAt
<1> QED BY <1>3, <1>4

LEMMA GetStep ==
  ASSUME IInv, NEW u \in Users, Get(u)
  PROVE  IInv'
<1> DEFINE r == req[u]
           hit == [r EXCEPT !.todo = SubSeq(r.todo, 4, Len(r.todo)), !.seen = copy[r.on]]
<1>1. /\ At(u, "get") /\ UNCHANGED <<store, caches, tokens, counts>>
      /\ Becomes(u, Done(r)) \/ Becomes(u, hit)
  BY DEF Get
<1>2. /\ r # None /\ RequestOK(u, r) /\ r.todo # <<>> /\ r.on \in Users
      /\ Head(r.todo) = "get"
  BY <1>1, AtAnAwait
<1>3. copy[r.on] \in Row \cup {None}
  BY <1>2 DEF IInv, Types
<1>4. Follow(u, r, Done(r)) /\ Follow(u, r, hit)
  BY <1>2, <1>3, GoesOn, Answers
<1> QED BY <1>1, <1>4, OnlyMoves

LEMMA LoadStep ==
  ASSUME IInv, NEW u \in Users, Load(u)
  PROVE  IInv'
<1> DEFINE r == req[u]
<1>1. /\ At(u, "load") /\ UNCHANGED <<store, caches, tokens, counts>>
      /\ \/ Exists(r.on) /\ Becomes(u, Saw(r, rows[r.on]))
         \/ Becomes(u, Failed(r)) \/ Becomes(u, Refused(r))
  BY DEF Load
<1>2. /\ r # None /\ RequestOK(u, r) /\ r.todo # <<>> /\ r.on \in Users
      /\ Head(r.todo) = "load"
  BY <1>1, AtAnAwait
<1>3. Exists(r.on) => Follow(u, r, Saw(r, rows[r.on]))
  BY <1>2, ReadsTheRole, SeesRow
<1>4. Follow(u, r, Failed(r)) /\ Follow(u, r, Refused(r))
  BY <1>2, Goes
<1> QED BY <1>1, <1>3, <1>4, OnlyMoves

LEMMA GetAllStep ==
  ASSUME IInv, NEW u \in Users, GetAll(u)
  PROVE  IInv'
<1> DEFINE r == req[u]
           hit == [r EXCEPT !.todo = <<>>]
<1>1. /\ At(u, "getAll") /\ UNCHANGED <<store, caches, tokens, counts>>
      /\ Becomes(u, Done(r)) \/ Becomes(u, hit)
  BY DEF GetAll
<1>2. /\ r # None /\ RequestOK(u, r) /\ r.todo # <<>> /\ r.on \in Users
      /\ Head(r.todo) = "getAll"
  BY <1>1, AtAnAwait
<1>3. r.seen \in Row \cup {None}
  BY <1>2 DEF RequestOK, SeenOK, IsAt
<1>4. hit = [r EXCEPT !.todo = <<>>, !.seen = r.seen]
  BY <1>2 DEF RequestOK, Req
<1>5. Follow(u, r, Done(r))
  BY <1>2, GoesOn
<1>6. Follow(u, r, [r EXCEPT !.todo = <<>>, !.seen = r.seen])
  BY <1>2, <1>3, Answers
<1> QED BY <1>1, <1>4, <1>5, <1>6, OnlyMoves

\* The rows as a list.
LEMMA Lists ==
  ASSUME IInv
  PROVE  All(rows) \in List
<1> DEFINE S == {v \in Users : rows[v] \notin {None, Gone}}
<1>1. \A u \in S : rows[u] \in Row
  BY DEF IInv, Types
<1>2. All(rows) \in [S -> Row] /\ S \in SUBSET Users
  BY <1>1 DEF All
<1> QED BY <1>2 DEF List

LEMMA LoadAllStep ==
  ASSUME IInv, NEW u \in Users, LoadAll(u)
  PROVE  IInv'
<1>1. /\ At(u, "loadAll") /\ UNCHANGED <<store, caches, tokens, counts>>
      /\ Becomes(u, Saw(req[u], All(rows)))
  BY DEF LoadAll
<1>2. /\ RequestOK(u, req[u]) /\ req[u].todo # <<>> /\ Head(req[u].todo) = "loadAll"
  BY <1>1, AtAnAwait
<1>3. Follow(u, req[u], Saw(req[u], All(rows)))
  BY <1>2, Lists, SeesList
<1> QED BY <1>1, <1>3, OnlyMoves

\* A request whose reply is to come.
LEMMA AtTheEnd ==
  ASSUME IInv, NEW u \in Users, req[u] # None, req[u].todo = <<>>
  PROVE  /\ RequestOK(u, req[u])
         /\ \A k : ~At(u, k)
         /\ \A k : ~IsAt(req[u], k)
         /\ req[u].seen \in Row \cup {None}
BY DEF At, Busy, IInv, Types, Requests, RequestOK, SeenOK, IsAt

\* A step that only ends a request, or has it start over.
LEMMA OnlyEnds ==
  ASSUME IInv, NEW u \in Users, req[u] # None, req[u].todo = <<>>,
         NEW s, Follow(u, req[u], s), Becomes(u, s),
         UNCHANGED <<store, caches>>,
         tokens' \in [Users -> [access : UserRole \cup {None}, refresh : UserRole \cup {None}]],
         requests' \in 0..MaxRequests, faults' \in 0..MaxFaults
  PROVE  IInv'
<1>1. /\ ~At(u, "drop") /\ ~At(u, "save")
      /\ ~(s # None /\ IsAt(s, "save"))
  BY AtTheEnd DEF Follow
<1>2. UNCHANGED <<rows, granted, lost, copy, list, missed, late>>
  BY DEF store, caches
<1> QED BY <1>1, <1>2, Quiet

LEMMA ReplyStep ==
  ASSUME IInv, NEW u \in Users, Reply(u)
  PROVE  IInv'
<1>1. /\ req[u] # None /\ req[u].todo = <<>> /\ Becomes(u, None)
      /\ UNCHANGED <<store, caches>> /\ requests' = requests /\ faults' = faults
  BY DEF Reply, counts
<1>2. Follow(u, req[u], None)
  BY DEF Follow
<1>3. tokens' \in [Users -> [access : UserRole \cup {None}, refresh : UserRole \cup {None}]]
  <2>1. CASE req[u].seen # None /\ req[u].op \in Signing
    <3>1. req[u].seen.role \in UserRole
      BY <1>1, <2>1, AtTheEnd DEF Row
    <3>2. tokens' = [tokens EXCEPT ![u] = Signed(req[u].seen.role)]
      BY <2>1 DEF Reply, Sign
    <3> QED BY <3>1, <3>2 DEF IInv, Types, Signed
  <2>2. CASE ~(req[u].seen # None /\ req[u].op \in Signing)
    BY <2>2 DEF Reply, IInv, Types
  <2> QED BY <2>1, <2>2
<1>4. requests' \in 0..MaxRequests /\ faults' \in 0..MaxFaults
  BY <1>1 DEF IInv, Types
<1> QED BY <1>1, <1>2, <1>3, <1>4, OnlyEnds

\* The bound on the faults.
LEMMA FaultCounted ==
  ASSUME IInv, Fault
  PROVE  faults' \in 0..MaxFaults
BY AccountBounds DEF IInv, Types, Fault

LEMMA PublishFailsStep ==
  ASSUME IInv, NEW u \in Users, PublishFails(u)
  PROVE  IInv'
<1>1. /\ req[u] # None /\ req[u].todo = <<>> /\ Becomes(u, Failed(req[u])) /\ Fault
      /\ UNCHANGED <<store, caches>> /\ requests' = requests /\ tokens' = tokens
  BY DEF PublishFails
<1>2. Follow(u, req[u], Failed(req[u]))
  BY <1>1, AtTheEnd, Goes
<1>3. /\ tokens' \in [Users -> [access : UserRole \cup {None}, refresh : UserRole \cup {None}]]
      /\ requests' \in 0..MaxRequests /\ faults' \in 0..MaxFaults
  BY <1>1, FaultCounted DEF IInv, Types
<1> QED BY <1>1, <1>2, <1>3, OnlyEnds

LEMMA LoseReplyStep ==
  ASSUME IInv, NEW u \in Users, LoseReply(u)
  PROVE  IInv'
<1>1. /\ req[u] # None /\ req[u].todo = <<>> /\ Fault
      /\ Becomes(u, Again(req[u])) \/ Becomes(u, None)
      /\ UNCHANGED <<store, caches>> /\ requests' = requests /\ tokens' = tokens
  BY DEF LoseReply
<1>2. Follow(u, req[u], Again(req[u])) /\ Follow(u, req[u], None)
  BY <1>1, AtTheEnd, Goes DEF Follow
<1>3. /\ tokens' \in [Users -> [access : UserRole \cup {None}, refresh : UserRole \cup {None}]]
      /\ requests' \in 0..MaxRequests /\ faults' \in 0..MaxFaults
  BY <1>1, FaultCounted DEF IInv, Types
<1> QED BY <1>1, <1>2, <1>3, OnlyEnds

LEMMA DatabaseFailsStep ==
  ASSUME IInv, NEW u \in Users, DatabaseFails(u)
  PROVE  IInv'
<1> DEFINE w == Head(req[u].todo)
<1>1. /\ At(u, w) /\ w # "drop" /\ Becomes(u, Failed(req[u])) /\ Fault
      /\ late' = late \ {u}
      /\ UNCHANGED <<rows, granted, lost, copy, list, missed, tokens, requests>>
  BY DEF DatabaseFails, At, UpdateEnds, caches
<1>2. req[u] # None /\ ~At(u, "drop") /\ RequestOK(u, req[u])
  BY <1>1, AtAnAwait
<1>3. Follow(u, req[u], Failed(req[u]))
  BY <1>2, Goes
<1>4. ~(Failed(req[u]) # None /\ IsAt(Failed(req[u]), "save"))
  BY <1>2, Goes
<1>5. /\ tokens' \in [Users -> [access : UserRole \cup {None}, refresh : UserRole \cup {None}]]
      /\ requests' \in 0..MaxRequests /\ faults' \in 0..MaxFaults
  BY <1>1, FaultCounted DEF IInv, Types
<1> QED BY <1>1, <1>2, <1>3, <1>4, <1>5, Quiet

\* What a request is about, on a route the gateway lets its owner through.
LEMMA AdmittedRequest ==
  ASSUME IInv, NEW u \in Users, NEW rt \in UserRoutes,
         NEW sent, sent = Sent(u),
         NEW reply,
         reply = Admit(rt, [access |-> sent.access, refresh |-> sent.refresh,
                           game |-> None, metrics |-> FALSE]),
         reply.status = 200,
         NEW on \in TargetsOf(rt, reply.token, u), NEW data \in DataOf(rt)
  PROVE  /\ RequestOK(u, Request(OperationOf(rt), on, data, 0))
         /\ ~IsAt(Request(OperationOf(rt), on, data, 0), "save")
         /\ Request(OperationOf(rt), on, data, 0).on = on
         /\ rt = Register => Request(OperationOf(rt), on, data, 0).op = "register" /\ on = u
<1> DEFINE h == [access |-> sent.access, refresh |-> sent.refresh,
                           game |-> None, metrics |-> FALSE]
<1>1. /\ h \in Headers
      /\ \A kind \in {"access", "refresh"} : Verifies(h[kind]) => h[kind].userId = u
  BY SentTokens DEF IInv
<1>2. /\ OperationOf(rt) \in Ops /\ data \in Data
      /\ OperationOf(rt) = "register" <=> rt = Register
      /\ OperationOf(rt) = "register" => data.email \in Emails
      /\ OperationOf(rt) = "grantPermissions" => data.role \in UserRole
      /\ rt.token = "public" => rt \in {Register, Login}
      /\ rt.token \in {"public", "access", "refresh"}
  BY RouteData
<1>3. on \in Users /\ (rt = Register => on = u)
  <2>1. CASE rt \in {RefreshToken, GetMe, UpdateMe, DeleteMe}
    <3>1. rt.token \in {"access", "refresh"} /\ rt # Register
      BY <2>1 DEF RefreshToken, GetMe, UpdateMe, DeleteMe, Register, Route
    <3>2. DecidesAlone(rt, h)
      BY <1>1, TokenDecides DEF Routes
    <3>3. h.game = None /\ h.game # Expired /\ ~h.metrics
      BY TokensApart
    <3>4. reply = Admit(rt, h)
      OBVIOUS
    <3> HIDE DEF h
    <3>5. reply.token.userId = h[rt.token].userId /\ Verifies(h[rt.token])
      BY <3>1, <3>2, <3>3, <3>4 DEF DecidesAlone, Deciding
    <3>6. reply.token.userId = u
      BY <1>1, <3>1, <3>5
    <3> QED BY <2>1, <3>1, <3>6 DEF TargetsOf
  <2>2. CASE rt \in {Register, Login} /\ rt \notin {RefreshToken, GetMe, UpdateMe, DeleteMe}
    BY <2>2 DEF TargetsOf
  <2>3. CASE rt \notin {RefreshToken, GetMe, UpdateMe, DeleteMe} \cup {Register, Login}
    BY <2>3 DEF TargetsOf
  <2> QED BY <2>1, <2>2, <2>3
<1>4. 0 \in 0..MaxRetries
  BY AccountBounds
<1>5. /\ Request(OperationOf(rt), on, data, 0).on = on
      /\ Request(OperationOf(rt), on, data, 0).op = OperationOf(rt)
  BY DEF Request
<1> QED BY <1>2, <1>3, <1>4, <1>5, Starts

LEMMA SendStep ==
  ASSUME IInv, NEW u \in Users, Send(u)
  PROVE  IInv'
<1> DEFINE sent == Sent(u)
           Reached(rt) ==
             Admit(rt, [access |-> sent.access, refresh |-> sent.refresh,
                           game |-> None, metrics |-> FALSE])
<1>1. PICK rt \in UserRoutes :
        /\ IF rt = RefreshToken THEN u \in Renewing /\ UNCHANGED requests
           ELSE requests < MaxRequests /\ requests' = requests + 1
        /\ Reached(rt).status = 200
        /\ \E on \in TargetsOf(rt, Reached(rt).token, u), data \in DataOf(rt) :
             /\ IF rt = Register THEN rows[u] = None ELSE rows[on] # None
             /\ req' = [req EXCEPT ![u] = Request(OperationOf(rt), on, data, 0)]
  BY DEF Send
<1>2. PICK on \in TargetsOf(rt, Reached(rt).token, u), data \in DataOf(rt) :
        /\ IF rt = Register THEN rows[u] = None ELSE rows[on] # None
        /\ req' = [req EXCEPT ![u] = Request(OperationOf(rt), on, data, 0)]
  BY <1>1
<1> DEFINE s == Request(OperationOf(rt), on, data, 0)
<1>3. /\ RequestOK(u, s) /\ ~IsAt(s, "save") /\ s.on = on
      /\ rt = Register => s.op = "register" /\ on = u
  BY <1>1, AdmittedRequest
<1>4. Becomes(u, s)
  BY <1>2 DEF Becomes
<1> HIDE DEF s
<1>5. req[u] = None /\ UNCHANGED <<rows, granted, lost, late, copy, list, missed, tokens, faults>>
  BY DEF Send, store, caches
<1>6. /\ Requests' /\ req'[u] = s
      /\ \A v \in Users \ {u} : req'[v] = req[v] /\ \A k : At(v, k)' <=> At(v, k)
      /\ \A k : At(u, k)' <=> s # None /\ IsAt(s, k)
  BY <1>3, <1>4, OneMoves DEF IInv
<1>7. \A k : ~At(u, k)
  BY <1>5 DEF At, Busy
<1>8. Types'
  <2>1. \A w \in late' : w \in Users /\ At(w, "save")'
    BY <1>5, <1>6, <1>7 DEF IInv, Types
  <2>2. requests' \in 0..MaxRequests
    BY <1>1, AccountBounds DEF IInv, Types
  <2> QED BY <1>5, <1>6, <2>1, <2>2 DEF IInv, Types
<1>9. Unborn'
  BY <1>2, <1>3, <1>5, <1>6 DEF IInv, Unborn
<1>10. OneAccountPerEmail'
  BY <1>5 DEF IInv, OneAccountPerEmail, Exists
<1>11. Copies'
  <2>1. \A key : Owed(key) => Owed(key)'
    BY <1>6, <1>7 DEF Owed, Drops
  <2> QED BY <1>5, <2>1 DEF IInv, Copies, All
<1>12. Roles'
  <2>1. GrantHolds'
    BY <1>5 DEF IInv, Roles, GrantHolds, Exists
  <2>2. ASSUME NEW w \in Users, At(w, "save")', w \notin late', Exists(req[w].on)'
        PROVE  req'[w].seen.role = granted'[req'[w].on] \/ req'[w].on \in lost'
    <3>1. w # u
      BY <1>3, <1>6, <2>2
    <3>2. At(w, "save") /\ req'[w] = req[w] /\ Exists(req[w].on)
      BY <1>5, <1>6, <2>2, <3>1 DEF Exists
    <3> QED BY <1>5, <2>2, <3>2 DEF IInv, Roles
  <2> QED BY <2>1, <2>2 DEF Roles
<1> QED BY <1>8, <1>9, <1>10, <1>11, <1>12 DEF IInv

----------------------------------------------------------------------------
(* The steps that write rows.                                               *)

\* A row written is of an address nobody else has, or gone.
LEMMA OneAddress ==
  ASSUME IInv, NEW on \in Users, NEW row,
         row = Gone \/ ~Taken(on, row.email),
         rows' = [rows EXCEPT ![on] = row]
  PROVE  OneAccountPerEmail'
<1> SUFFICES ASSUME NEW u \in Users, NEW v \in Users, Exists(u)', Exists(v)',
                    rows'[u].email = rows'[v].email, u # v
             PROVE  FALSE
  BY DEF OneAccountPerEmail
<1>1. \A w \in Users : rows'[w] = IF w = on THEN row ELSE rows[w]
  BY DEF IInv, Types
<1>2. CASE u = on
  BY <1>1, <1>2 DEF Taken, Exists
<1>3. CASE v = on
  BY <1>1, <1>3 DEF Taken, Exists
<1>4. CASE u # on /\ v # on
  BY <1>1, <1>4 DEF IInv, OneAccountPerEmail, Exists
<1> QED BY <1>2, <1>3, <1>4

\* What the step that has written a row makes of its request: the next await is
\* the drop of the copies, or the answer was lost and they stay.
Pays(u, s) ==
  \/ s # None /\ IsAt(s, "drop") /\ missed' = missed
  \/ missed' = missed \cup Drops(req[u])

\* A row written is owed to its copies from then on.
LEMMA WriteIsOwed ==
  ASSUME IInv, NEW u \in Users, req[u] # None, RequestOK(u, req[u]), ~At(u, "drop"),
         NEW s, Follow(u, req[u], s), Becomes(u, s), Pays(u, s),
         req[u].op = "register" => rows[req[u].on] = None,
         NEW row, rows' = [rows EXCEPT ![req[u].on] = row],
         UNCHANGED <<copy, list>>
  PROVE  Copies' /\ missed' \subseteq Users \cup {"list"}
<1> DEFINE on == req[u].on
<1>1. /\ req'[u] = s
      /\ \A v \in Users \ {u} : req'[v] = req[v] /\ \A k : At(v, k)' <=> At(v, k)
      /\ \A k : At(u, k)' <=> s # None /\ IsAt(s, k)
  BY OneMoves DEF IInv, Follow
<1>2. on \in Users
  BY DEF RequestOK, Req
<1>3. \A key : Owed(key) => Owed(key)'
  BY <1>1 DEF Owed, Drops
<1>4. \A key \in Drops(req[u]) : key \in missed' \/ Owed(key)'
  <2>1. CASE s # None /\ IsAt(s, "drop")
    <3>1. Drops(s) = Drops(req[u]) /\ At(u, "drop")' /\ req'[u] = s
      BY <1>1, <2>1 DEF Drops, Follow
    <3> QED BY <3>1 DEF Owed
  <2>2. CASE missed' = missed \cup Drops(req[u])
    BY <2>2
  <2> QED BY <2>1, <2>2 DEF Pays
<1>5. \A w \in Users \ {on} : rows'[w] = rows[w]
  BY DEF IInv, Types
<1>6. missed \subseteq missed' /\ missed' \subseteq Users \cup {"list"}
  BY <1>2 DEF Pays, Drops, IInv, Types
<1>7. \A w \in Users : copy'[w] \notin {None, rows'[w]} => w \in missed' \/ Owed(w)'
  <2> SUFFICES ASSUME NEW w \in Users, copy[w] \notin {None, rows'[w]}
               PROVE  w \in missed' \/ Owed(w)'
    OBVIOUS
  <2>1. CASE w = on
    <3>1. req[u].op # "register"
      BY <2>1 DEF IInv, Unborn
    <3> QED BY <1>4, <2>1, <3>1 DEF Drops
  <2>2. CASE w # on
    BY <1>3, <1>5, <1>6, <2>2 DEF IInv, Copies
  <2> QED BY <2>1, <2>2
<1>8. "list" \in missed' \/ Owed("list")'
  BY <1>4 DEF Drops
<1> QED BY <1>6, <1>7, <1>8 DEF Copies

\* A row written with the role given by name.
LEMMA Giving ==
  ASSUME IInv, NEW u \in Users, req[u] # None, RequestOK(u, req[u]), ~At(u, "drop"),
         NEW s, Follow(u, req[u], s), Becomes(u, s), Pays(u, s),
         ~(s # None /\ IsAt(s, "save")),
         req[u].op = "register" => rows[req[u].on] = None,
         NEW row \in Row, ~Taken(req[u].on, row.email),
         rows' = [rows EXCEPT ![req[u].on] = row], Give(u, req[u].on, row.role),
         UNCHANGED <<copy, list, tokens, requests>>, faults' \in 0..MaxFaults
  PROVE  IInv'
<1> DEFINE on == req[u].on
<1>1. /\ Requests' /\ req'[u] = s
      /\ \A v \in Users \ {u} : req'[v] = req[v] /\ \A k : At(v, k)' <=> At(v, k)
      /\ \A k : At(u, k)' <=> s # None /\ IsAt(s, k)
  BY OneMoves DEF IInv, Follow
<1>2. on \in Users /\ row.role \in UserRole /\ row \notin {None, Gone}
  BY ApartFromNone DEF RequestOK, Req, Row
<1>3. /\ granted' = [granted EXCEPT ![on] = row.role]
      /\ late' = (late \ {u}) \cup {w \in Users \ {u} : HasRead(w, on)}
      /\ lost' = lost \ {on}
      /\ UNCHANGED <<copy, list, tokens, requests>>
  BY DEF Give
<1>4. Types'
  <2>1. \A w \in late' : w \in Users /\ At(w, "save")'
    BY <1>1, <1>3 DEF IInv, Types, HasRead
  <2>2. missed' \subseteq Users \cup {"list"}
    BY WriteIsOwed
  <2> QED BY <1>1, <1>2, <1>3, <2>1, <2>2 DEF IInv, Types
<1>5. Unborn'
  <2> SUFFICES ASSUME NEW v \in Users, rows'[v] = None
               PROVE  /\ copy'[v] = None
                      /\ \A w \in Users : req'[w] # None /\ req'[w].on = v
                                             => req'[w].op = "register"
    BY DEF Unborn
  <2>1. v # on /\ rows[v] = None
    BY <1>2 DEF IInv, Types
  <2> QED BY <1>1, <1>3, <2>1 DEF IInv, Unborn, Follow
<1>6. OneAccountPerEmail'
  BY <1>2, OneAddress
<1>7. Copies'
  BY WriteIsOwed
<1>8. Roles'
  <2>1. GrantHolds'
    <3> SUFFICES ASSUME NEW v \in Users, Exists(v)'
                 PROVE  rows'[v].role = granted'[v] \/ v \in lost'
      BY DEF GrantHolds
    <3>1. CASE v = on
      BY <1>3, <3>1 DEF IInv, Types
    <3>2. CASE v # on
      BY <1>3, <3>2 DEF IInv, Types, Roles, GrantHolds, Exists
    <3> QED BY <3>1, <3>2
  <2>2. ASSUME NEW w \in Users, At(w, "save")', w \notin late', Exists(req[w].on)'
        PROVE  req'[w].seen.role = granted'[req'[w].on] \/ req'[w].on \in lost'
    <3>1. w # u /\ At(w, "save") /\ req'[w] = req[w]
      BY <1>1, <2>2
    <3>2. req[w].on # on /\ w \notin late
      BY <1>3, <2>2, <3>1 DEF HasRead
    <3>3. req[w].on \in Users
      BY <3>1, AtAnAwait
    <3>4. Exists(req[w].on)
      BY <1>2, <2>2, <3>1, <3>2 DEF Exists, IInv, Types
    <3>5. req[w].seen.role = granted[req[w].on] \/ req[w].on \in lost
      BY <3>1, <3>2, <3>4 DEF IInv, Roles
    <3> QED BY <1>3, <3>1, <3>2, <3>3, <3>5 DEF IInv, Types
  <2> QED BY <2>1, <2>2 DEF Roles
<1> QED BY <1>4, <1>5, <1>6, <1>7, <1>8 DEF IInv

\* An answer lost after the commit is paid for in copies that stay.
LEMMA WriteFails ==
  ASSUME IInv, NEW u \in Users, NEW w, At(u, w), w # "drop"
  PROVE  /\ Follow(u, req[u], Failed(req[u]))
         /\ ~(Failed(req[u]) # None /\ IsAt(Failed(req[u]), "save"))
         /\ ~At(u, "drop")
BY AtAnAwait, Goes

\* The step after a write: the drop is next.
LEMMA WriteGoesOn ==
  ASSUME IInv, NEW u \in Users, NEW w \in {"insert", "update", "save", "delete"}, At(u, w),
         NEW s, Follow(u, req[u], s), s # None, IsAt(s, "drop"), missed' = missed
  PROVE  Pays(u, s) /\ ~IsAt(s, "save") /\ ~At(u, "drop")
BY AtAnAwait DEF Pays, IsAt

LEMMA InsertsRow ==
  ASSUME IInv, NEW u \in Users, At(u, "insert"), Insertable(u), InsertRow(u),
         NEW s, Follow(u, req[u], s), Becomes(u, s), Pays(u, s),
         ~(s # None /\ IsAt(s, "save")),
         UNCHANGED <<copy, list, tokens, requests>>, faults' \in 0..MaxFaults
  PROVE  IInv'
<1> DEFINE r == req[u]
           row == Registered(r)
<1>1. /\ r # None /\ RequestOK(u, r) /\ r.todo # <<>> /\ r.on \in Users
      /\ Head(r.todo) = "insert" /\ ~At(u, "drop")
  BY AtAnAwait
<1>2. r.op = "register"
  BY <1>1, Written
<1>3. row \in Row /\ row.role = USER /\ row.email = r.data.email /\ r.on = u
  BY <1>1, <1>2 DEF RequestOK, Row, UserRole, Registered
<1>4. rows' = [rows EXCEPT ![u] = row] /\ Give(u, u, USER)
  BY DEF InsertRow
<1>5. ~Taken(u, row.email) /\ rows[u] = None
  BY <1>3 DEF Insertable
<1> HIDE DEF row
<1> QED BY <1>1, <1>3, <1>4, <1>5, Giving

LEMMA InsertStep ==
  ASSUME IInv, NEW u \in Users, Insert(u)
  PROVE  IInv'
<1> DEFINE r == req[u]
           s == Saw(r, Registered(r))
<1>1. At(u, "insert") /\ UNCHANGED <<caches, tokens, counts>>
  BY DEF Insert
<1>2. /\ r # None /\ RequestOK(u, r) /\ r.todo # <<>> /\ r.on \in Users
      /\ Head(r.todo) = "insert" /\ ~At(u, "drop") /\ ~At(u, "save")
  BY <1>1, AtAnAwait
<1>3. CASE ~Insertable(u)
  <2>1. Becomes(u, Failed(r)) /\ UNCHANGED store
    BY <1>3 DEF Insert
  <2> QED BY <1>1, <2>1, OnlyMoves, WriteFails
<1>4. CASE Insertable(u)
  <2>1. Becomes(u, s) /\ InsertRow(u)
    BY <1>4 DEF Insert
  <2>2. r.op = "register"
    BY <1>2, Written
  <2>3. Registered(r) \in Row
    BY <1>2, <2>2 DEF RequestOK, Row, UserRole, Registered
  <2>4. Follow(u, r, s) /\ s # None /\ IsAt(s, "drop")
    <3>1. Follow(u, r, s) /\ RequestOK(u, s) /\ IsAt(s, "drop")
      BY <1>2, <2>3, SeesRow, Written
    <3> HIDE DEF s
    <3> QED BY <3>1, NoRequestIsNone DEF RequestOK
  <2>5. /\ UNCHANGED <<copy, list, missed, tokens, requests>> /\ faults' \in 0..MaxFaults
    BY <1>1 DEF caches, counts, IInv, Types
  <2> HIDE DEF s
  <2> QED BY <1>1, <1>4, <2>1, <2>4, <2>5, WriteGoesOn, InsertsRow
<1> QED BY <1>3, <1>4

LEMMA UpdatesRow ==
  ASSUME IInv, NEW u \in Users, At(u, "update"), Exists(req[u].on), UpdateRow(u),
         NEW s, Follow(u, req[u], s), Becomes(u, s), Pays(u, s),
         ~(s # None /\ IsAt(s, "save")),
         UNCHANGED <<copy, list, tokens, requests>>, faults' \in 0..MaxFaults
  PROVE  IInv'
<1> DEFINE r == req[u]
           row == [rows[r.on] EXCEPT !.role = r.data.role]
<1>1. /\ r # None /\ RequestOK(u, r) /\ r.todo # <<>> /\ r.on \in Users
      /\ Head(r.todo) = "update" /\ ~At(u, "drop")
  BY AtAnAwait
<1>2. r.op = "grantPermissions"
  BY <1>1, Written
<1>3. rows[r.on] \in Row /\ r.data.role \in UserRole
  BY <1>1, <1>2, ReadsTheRole DEF RequestOK
<1>4. row \in Row /\ row.role = r.data.role /\ row.email = rows[r.on].email
  BY <1>3 DEF Row
<1>5. rows' = [rows EXCEPT ![r.on] = row] /\ Give(u, r.on, r.data.role)
  BY DEF UpdateRow
<1> HIDE DEF row
<1>6. ~Taken(r.on, row.email)
  BY <1>1, <1>4 DEF Taken, IInv, OneAccountPerEmail
<1> QED BY <1>1, <1>2, <1>4, <1>5, <1>6, Giving

LEMMA UpdateStep ==
  ASSUME IInv, NEW u \in Users, Update(u)
  PROVE  IInv'
<1> DEFINE r == req[u]
           s == Done(r)
<1>1. At(u, "update") /\ Becomes(u, s) /\ UNCHANGED <<caches, tokens, counts>>
  BY DEF Update
<1>2. /\ r # None /\ RequestOK(u, r) /\ r.todo # <<>> /\ Head(r.todo) = "update"
  BY <1>1, AtAnAwait
<1>3. IsAt(s, "drop") /\ Follow(u, r, s) /\ RequestOK(u, s)
  BY <1>2, Written, GoesOn
<1> HIDE DEF s
<1>4. s # None
  BY <1>3, NoRequestIsNone DEF RequestOK
<1>5. CASE ~Exists(r.on)
  <2>1. UNCHANGED store
    BY <1>5 DEF Update
  <2> QED BY <1>1, <1>3, <2>1, OnlyMoves
<1>6. CASE Exists(r.on)
  <2>1. UpdateRow(u)
    BY <1>6 DEF Update
  <2>2. /\ UNCHANGED <<copy, list, missed, tokens, requests>> /\ faults' \in 0..MaxFaults
    BY <1>1 DEF caches, counts, IInv, Types
  <2> QED BY <1>1, <1>3, <1>4, <1>6, <2>1, <2>2, WriteGoesOn, UpdatesRow
<1> QED BY <1>5, <1>6

\* A row is written back with the role that was read of it.
LEMMA WritesBack ==
  ASSUME IInv, NEW u \in Users, At(u, "save"),
         NEW s, Follow(u, req[u], s), Becomes(u, s), Pays(u, s),
         ~(s # None /\ IsAt(s, "save")), Exists(req[u].on),
         NEW row \in Row, ~Taken(req[u].on, row.email), row.role = req[u].seen.role,
         rows' = [rows EXCEPT ![req[u].on] = row],
         late' = late \ {u}, lost' = IF u \in late THEN lost \cup {req[u].on} ELSE lost,
         UNCHANGED <<granted, copy, list, tokens, requests>>, faults' \in 0..MaxFaults
  PROVE  IInv'
<1> DEFINE on == req[u].on
<1>1. /\ Requests' /\ req'[u] = s
      /\ \A v \in Users \ {u} : req'[v] = req[v] /\ \A k : At(v, k)' <=> At(v, k)
      /\ \A k : At(u, k)' <=> s # None /\ IsAt(s, k)
  BY OneMoves DEF IInv, Follow
<1>2. on \in Users /\ row \notin {None, Gone}
  BY AtAnAwait, ApartFromNone
<1>4. /\ req[u] # None /\ RequestOK(u, req[u]) /\ ~At(u, "drop")
      /\ req[u].op = "register" => rows[on] = None
  <2>1. Head(req[u].todo) = "save" /\ req[u].todo # <<>> /\ RequestOK(u, req[u])
        /\ req[u] # None /\ ~At(u, "drop")
    BY AtAnAwait
  <2>2. req[u].op # "register"
    BY <2>1, Written
  <2> QED BY <2>1, <2>2
<1>5. Types'
  <2>1. \A w \in late' : w \in Users /\ At(w, "save")'
    BY <1>1 DEF IInv, Types
  <2>2. missed' \subseteq Users \cup {"list"}
    BY <1>4, WriteIsOwed
  <2> QED BY <1>1, <1>2, <2>1, <2>2 DEF IInv, Types
<1>6. Unborn'
  <2> SUFFICES ASSUME NEW v \in Users, rows'[v] = None
               PROVE  /\ copy'[v] = None
                      /\ \A w \in Users : req'[w] # None /\ req'[w].on = v
                                             => req'[w].op = "register"
    BY DEF Unborn
  <2>1. v # on /\ rows[v] = None
    BY <1>2 DEF IInv, Types
  <2> QED BY <1>1, <2>1 DEF IInv, Unborn, Follow
<1>7. OneAccountPerEmail'
  BY <1>2, OneAddress
<1>8. Copies'
  BY <1>4, WriteIsOwed
<1>9. Roles'
  <2>1. row.role = granted[on] \/ on \in lost'
    BY <1>2 DEF IInv, Roles
  <2>2. GrantHolds'
    <3> SUFFICES ASSUME NEW v \in Users, Exists(v)'
                 PROVE  rows'[v].role = granted'[v] \/ v \in lost'
      BY DEF GrantHolds
    <3>1. CASE v = on
      BY <2>1, <3>1 DEF IInv, Types
    <3>2. CASE v # on
      BY <3>2 DEF IInv, Types, Roles, GrantHolds, Exists
    <3> QED BY <3>1, <3>2
  <2>3. ASSUME NEW w \in Users, At(w, "save")', w \notin late', Exists(req[w].on)'
        PROVE  req'[w].seen.role = granted'[req'[w].on] \/ req'[w].on \in lost'
    <3>1. w # u /\ At(w, "save") /\ req'[w] = req[w] /\ w \notin late
      BY <1>1, <2>3
    <3>2. req[w].on \in Users
      BY <3>1, AtAnAwait
    <3>3. Exists(req[w].on)
      BY <2>3, <3>1, <3>2 DEF Exists, IInv, Types
    <3>4. req[w].seen.role = granted[req[w].on] \/ req[w].on \in lost
      BY <3>1, <3>3 DEF IInv, Roles
    <3> QED BY <3>1, <3>4
  <2> QED BY <2>2, <2>3 DEF Roles
<1> QED BY <1>5, <1>6, <1>7, <1>8, <1>9 DEF IInv

LEMMA SavesRow ==
  ASSUME IInv, NEW u \in Users, At(u, "save"), Savable(u), SaveRow(u),
         NEW s, Follow(u, req[u], s), Becomes(u, s), Pays(u, s),
         ~(s # None /\ IsAt(s, "save")),
         UNCHANGED <<copy, list, tokens, requests>>, faults' \in 0..MaxFaults
  PROVE  IInv'
<1> DEFINE r == req[u]
           row == Saved(r)
<1>1. /\ r # None /\ RequestOK(u, r) /\ r.todo # <<>> /\ r.on \in Users
      /\ Head(r.todo) = "save" /\ ~At(u, "drop")
  BY AtAnAwait
<1>2. r.op # "register"
  BY <1>1, Written
<1>3. r.seen \in Row /\ r.data \in Data
  BY <1>1 DEF RequestOK, SeenOK, IsAt, Req
<1>4. /\ row \in Row
      /\ row.role = IF r.data.role = None THEN r.seen.role ELSE r.data.role
  BY <1>3 DEF Saved, UpdateFromDto, Row, Data
<1>5. Exists(r.on) /\ ~Taken(r.on, row.email) /\ rows' = [rows EXCEPT ![r.on] = row]
  BY DEF Savable, SaveRow
<1> HIDE DEF row
<1>6. CASE r.data.role # None
  <2>1. Give(u, r.on, row.role)
    BY <1>4, <1>6 DEF SaveRow
  <2> QED BY <1>1, <1>2, <1>4, <1>5, <2>1, Giving
<1>7. CASE r.data.role = None
  <2>1. /\ late' = late \ {u} /\ UNCHANGED granted
        /\ lost' = IF u \in late THEN lost \cup {r.on} ELSE lost
    BY <1>7 DEF SaveRow, UpdateEnds
  <2>2. row.role = r.seen.role
    BY <1>4, <1>7
  <2> QED BY <1>4, <1>5, <2>1, <2>2, WritesBack
<1> QED BY <1>6, <1>7

LEMMA SaveStep ==
  ASSUME IInv, NEW u \in Users, Save(u)
  PROVE  IInv'
<1> DEFINE r == req[u]
           s == Saw(r, None)
<1>1. At(u, "save") /\ UNCHANGED <<copy, list, missed, tokens, requests, faults>>
  BY DEF Save, caches, counts
<1>2. /\ r # None /\ RequestOK(u, r) /\ r.todo # <<>> /\ r.on \in Users
      /\ Head(r.todo) = "save" /\ ~At(u, "drop")
  BY <1>1, AtAnAwait
<1>3. CASE ~Savable(u)
  <2>1. /\ Becomes(u, Failed(r)) \/ Becomes(u, Done(r))
        /\ late' = late \ {u} /\ UNCHANGED <<rows, granted, lost>>
    BY <1>3 DEF Save, UpdateEnds
  <2>2. /\ Follow(u, r, Failed(r)) /\ ~(Failed(r) # None /\ IsAt(Failed(r), "save"))
        /\ Follow(u, r, Done(r)) /\ IsAt(Done(r), "drop")
    BY <1>2, Goes, GoesOn, Written
  <2>3. /\ tokens' \in [Users -> [access : UserRole \cup {None}, refresh : UserRole \cup {None}]]
        /\ requests' \in 0..MaxRequests /\ faults' \in 0..MaxFaults
    BY <1>1 DEF IInv, Types
  <2>4. ~IsAt(Done(r), "save")
    BY <2>2 DEF IsAt
  <2> QED BY <1>1, <1>2, <2>1, <2>2, <2>3, <2>4, Quiet
<1>4. CASE Savable(u)
  <2>1. Becomes(u, s) /\ SaveRow(u)
    BY <1>4 DEF Save
  <2>2. RequestOK(u, s) /\ IsAt(s, "drop") /\ s.op = r.op /\ s.on = r.on
    BY <1>2, Saves, Written
  <2> HIDE DEF s
  <2>3. s # None /\ Follow(u, r, s)
    BY <2>2, NoRequestIsNone DEF RequestOK, Follow, IsAt
  <2>4. faults' \in 0..MaxFaults
    BY <1>1 DEF IInv, Types
  <2> QED BY <1>1, <1>4, <2>1, <2>2, <2>3, <2>4, WriteGoesOn, SavesRow
<1> QED BY <1>3, <1>4

\* A row that is gone: nobody is given anything, and nobody saves it any more.
LEMMA DeletesRow ==
  ASSUME IInv, NEW u \in Users, At(u, "delete"), DeleteRow(u),
         NEW s, Follow(u, req[u], s), Becomes(u, s), Pays(u, s),
         ~(s # None /\ IsAt(s, "save")),
         UNCHANGED <<copy, list, tokens, requests>>, faults' \in 0..MaxFaults
  PROVE  IInv'
<1> DEFINE r == req[u]
<1>1. rows' = [rows EXCEPT ![r.on] = Gone] /\ UNCHANGED <<granted, late, lost>>
  BY DEF DeleteRow
<1>2. /\ r # None /\ RequestOK(u, r) /\ r.todo # <<>> /\ r.on \in Users
      /\ Head(r.todo) = "delete" /\ ~At(u, "drop") /\ ~At(u, "save")
  BY AtAnAwait
<1>3. r.op # "register"
  BY <1>2, Written
<1>4. /\ Requests' /\ req'[u] = s
      /\ \A v \in Users \ {u} : req'[v] = req[v] /\ \A k : At(v, k)' <=> At(v, k)
      /\ \A k : At(u, k)' <=> s # None /\ IsAt(s, k)
  BY OneMoves DEF IInv, Follow
<1>5. \A w \in Users : rows'[w] = IF w = r.on THEN Gone ELSE rows[w]
  BY <1>1 DEF IInv, Types
<1>6. Types'
  <2>1. \A w \in late' : w \in Users /\ At(w, "save")'
    BY <1>1, <1>2, <1>4 DEF IInv, Types
  <2>2. missed' \subseteq Users \cup {"list"}
    BY <1>1, <1>2, <1>3, WriteIsOwed
  <2> QED BY <1>1, <1>4, <2>1, <2>2 DEF IInv, Types
<1>7. Unborn'
  BY <1>1, <1>3, <1>4, <1>5, ApartFromNone DEF IInv, Unborn, Follow
<1>8. OneAccountPerEmail'
  BY <1>1, <1>2, OneAddress
<1>9. Copies'
  BY <1>1, <1>2, <1>3, WriteIsOwed
<1>10. Roles'
  <2>1. GrantHolds'
    BY <1>1, <1>5 DEF IInv, Roles, GrantHolds, Exists
  <2>2. ASSUME NEW w \in Users, At(w, "save")', w \notin late', Exists(req[w].on)'
        PROVE  req'[w].seen.role = granted'[req'[w].on] \/ req'[w].on \in lost'
    <3>1. w # u /\ At(w, "save") /\ req'[w] = req[w]
      BY <1>4, <2>2
    <3>2. req[w].on \in Users
      BY <3>1, AtAnAwait
    <3>3. Exists(req[w].on)
      BY <1>5, <2>2, <3>1, <3>2 DEF Exists
    <3>4. req[w].seen.role = granted[req[w].on] \/ req[w].on \in lost
      BY <1>1, <2>2, <3>1, <3>3 DEF IInv, Roles
    <3> QED BY <1>1, <3>1, <3>4
  <2> QED BY <2>1, <2>2 DEF Roles
<1> QED BY <1>6, <1>7, <1>8, <1>9, <1>10 DEF IInv

LEMMA DeleteStep ==
  ASSUME IInv, NEW u \in Users, Delete(u)
  PROVE  IInv'
<1> DEFINE r == req[u]
           s == Done(r)
<1>1. /\ At(u, "delete") /\ Becomes(u, s) /\ DeleteRow(u)
      /\ UNCHANGED <<copy, list, missed, tokens, requests, faults>>
  BY DEF Delete, caches, counts
<1>2. /\ r # None /\ RequestOK(u, r) /\ r.todo # <<>> /\ Head(r.todo) = "delete"
  BY <1>1, AtAnAwait
<1>3. IsAt(s, "drop") /\ Follow(u, r, s) /\ RequestOK(u, s)
  BY <1>2, Written, GoesOn
<1> HIDE DEF s
<1>4. s # None /\ faults' \in 0..MaxFaults
  BY <1>1, <1>3, NoRequestIsNone DEF RequestOK, IInv, Types
<1> QED BY <1>1, <1>3, <1>4, WriteGoesOn, DeletesRow

\* The answer to a write is lost.
LEMMA LoseWriteStep ==
  ASSUME IInv, NEW u \in Users, LoseWrite(u)
  PROVE  IInv'
<1> DEFINE s == Failed(req[u])
<1>1. /\ Becomes(u, s) /\ missed' = missed \cup Drops(req[u])
      /\ UNCHANGED <<copy, list, tokens, requests>> /\ faults' \in 0..MaxFaults
  BY FaultCounted DEF LoseWrite
<1>2. \E w \in {"insert", "update", "save", "delete"} : At(u, w)
  BY DEF LoseWrite
<1>3. Follow(u, req[u], s) /\ ~(s # None /\ IsAt(s, "save"))
  BY <1>2, WriteFails
<1> HIDE DEF s
<1>4. Pays(u, s)
  BY <1>1 DEF Pays
<1>5. CASE At(u, "insert") /\ Insertable(u) /\ InsertRow(u)
  BY <1>1, <1>3, <1>4, <1>5, InsertsRow
<1>6. CASE At(u, "update") /\ Exists(req[u].on) /\ UpdateRow(u)
  BY <1>1, <1>3, <1>4, <1>6, UpdatesRow
<1>7. CASE At(u, "save") /\ Savable(u) /\ SaveRow(u)
  BY <1>1, <1>3, <1>4, <1>7, SavesRow
<1>8. CASE At(u, "delete") /\ DeleteRow(u)
  BY <1>1, <1>3, <1>4, <1>8, DeletesRow
<1> QED BY <1>5, <1>6, <1>7, <1>8 DEF LoseWrite

----------------------------------------------------------------------------
(* The steps that write and drop copies.                                    *)

\* The copies change, in order; the rows do not.
LEMMA CopiesChange ==
  ASSUME IInv, NEW u \in Users, NEW w, At(u, w), w \notin {"find", "save"},
         NEW s, Follow(u, req[u], s), Becomes(u, s),
         UNCHANGED <<store, tokens>>,
         requests' = requests, faults' \in 0..MaxFaults,
         copy' \in [Users -> Row \cup {None}], list' \in List \cup {None},
         missed' \subseteq Users \cup {"list"},
         \A v \in Users : rows[v] = None => copy'[v] = None,
         Copies'
  PROVE  IInv'
<1>1. /\ Requests' /\ req'[u] = s
      /\ \A v \in Users \ {u} : req'[v] = req[v] /\ \A k : At(v, k)' <=> At(v, k)
      /\ \A k : At(u, k)' <=> s # None /\ IsAt(s, k)
  BY OneMoves DEF IInv, Follow
<1>2. req[u] # None /\ ~At(u, "save") /\ ~(s # None /\ IsAt(s, "save"))
  BY AtAnAwait DEF Follow, IsAt
<1>3. UNCHANGED <<rows, granted, late, lost, tokens>>
  BY DEF store
<1>4. Types'
  <2>1. \A v \in late' : v \in Users /\ At(v, "save")'
    BY <1>1, <1>2, <1>3 DEF IInv, Types
  <2> QED BY <1>1, <1>3, <2>1 DEF IInv, Types
<1>5. Unborn'
  BY <1>1, <1>2, <1>3 DEF IInv, Unborn, Follow
<1>6. OneAccountPerEmail'
  BY <1>3 DEF IInv, OneAccountPerEmail, Exists
<1>7. Roles'
  <2>1. GrantHolds'
    BY <1>3 DEF IInv, Roles, GrantHolds, Exists
  <2>2. ASSUME NEW v \in Users, At(v, "save")', v \notin late', Exists(req[v].on)'
        PROVE  req'[v].seen.role = granted'[req'[v].on] \/ req'[v].on \in lost'
    <3>1. v # u /\ At(v, "save") /\ req'[v] = req[v]
      BY <1>1, <1>2, <2>2
    <3>2. Exists(req[v].on)
      BY <1>3, <2>2, <3>1 DEF Exists
    <3> QED BY <1>3, <2>2, <3>1, <3>2 DEF IInv, Roles
  <2> QED BY <2>1, <2>2 DEF Roles
<1> QED BY <1>4, <1>5, <1>6, <1>7 DEF IInv

\* A request that is not at its drop owes nothing when it moves.
LEMMA OwedStays ==
  ASSUME IInv, NEW u \in Users, ~At(u, "drop"),
         NEW s, Follow(u, req[u], s), Becomes(u, s),
         NEW key, Owed(key)
  PROVE  Owed(key)'
<1>1. \A v \in Users \ {u} : req'[v] = req[v] /\ \A k : At(v, k)' <=> At(v, k)
  BY OneMoves DEF IInv, Follow
<1> QED BY <1>1 DEF Owed, Drops

LEMMA SetStep ==
  ASSUME IInv, NEW u \in Users, Set(u)
  PROVE  IInv'
<1> DEFINE r == req[u]
           s == Done(r)
<1>1. /\ At(u, "set") /\ Becomes(u, s) /\ UNCHANGED <<store, tokens>>
      /\ copy' = [copy EXCEPT ![r.on] = r.seen] /\ Keep(r.on, r.seen # rows[r.on])
      /\ UNCHANGED <<rows, list, requests, faults>>
  BY DEF Set, counts, store
<1>2. /\ r # None /\ RequestOK(u, r) /\ r.todo # <<>> /\ r.on \in Users
      /\ Head(r.todo) = "set" /\ ~At(u, "drop")
      /\ rows[r.on] = None => r.op = "register"
  BY <1>1, AtAnAwait
<1>3. Follow(u, r, s)
  BY <1>2, GoesOn
<1> HIDE DEF s
<1>4. r.seen \in Row
  BY <1>2 DEF RequestOK, SeenOK, IsAt
<1>5. r.op # "register"
  <2>1. Follows(r.op, Head(r.todo), IF Tail(r.todo) = <<>> THEN "end" ELSE Head(Tail(r.todo)))
    BY <1>2, RestPath DEF RequestOK, Req
  <2> QED BY <1>2, <2>1 DEF Follows
<1>6. /\ copy' \in [Users -> Row \cup {None}] /\ list' \in List \cup {None}
      /\ missed' \subseteq Users \cup {"list"} /\ faults' \in 0..MaxFaults
      /\ \A v \in Users : rows[v] = None => copy'[v] = None
  BY <1>1, <1>2, <1>4, <1>5 DEF IInv, Types, Unborn, Keep
<1>7. \A key : Owed(key) => Owed(key)'
  BY <1>1, <1>2, <1>3, OwedStays
<1>8. \A v \in Users : copy'[v] \notin {None, rows'[v]} => v \in missed' \/ Owed(v)'
  <2> SUFFICES ASSUME NEW v \in Users, copy'[v] \notin {None, rows[v]}
               PROVE  v \in missed' \/ Owed(v)'
    BY <1>1
  <2>1. CASE v = r.on
    BY <1>1, <2>1 DEF IInv, Types, Keep
  <2>2. CASE v # r.on
    <3>1. v \in missed \/ Owed(v)
      BY <1>1, <2>2 DEF IInv, Types, Copies
    <3> QED BY <1>1, <1>7, <2>2, <3>1 DEF Keep
  <2> QED BY <2>1, <2>2
<1>9. list' \notin {None, All(rows)'} => "list" \in missed' \/ Owed("list")'
  BY <1>1, <1>2, <1>7, ApartFromNone DEF IInv, Copies, Keep, All
<1>10. Copies'
  BY <1>8, <1>9 DEF Copies
<1> QED BY <1>1, <1>3, <1>6, <1>10, CopiesChange

LEMMA SetAllStep ==
  ASSUME IInv, NEW u \in Users, SetAll(u)
  PROVE  IInv'
<1> DEFINE r == req[u]
           s == Done(r)
<1>1. /\ At(u, "setAll") /\ Becomes(u, s) /\ UNCHANGED <<store, tokens>>
      /\ list' = r.seen /\ Keep("list", r.seen # All(rows))
      /\ UNCHANGED <<rows, copy, requests, faults>>
  BY DEF SetAll, counts, store
<1>2. /\ r # None /\ RequestOK(u, r) /\ r.todo # <<>> /\ r.on \in Users
      /\ Head(r.todo) = "setAll" /\ ~At(u, "drop")
  BY <1>1, AtAnAwait
<1>3. Follow(u, r, s)
  BY <1>2, GoesOn
<1> HIDE DEF s
<1>4. r.seen \in List
  BY <1>2 DEF RequestOK, SeenOK, IsAt
<1>5. /\ copy' \in [Users -> Row \cup {None}] /\ list' \in List \cup {None}
      /\ missed' \subseteq Users \cup {"list"} /\ faults' \in 0..MaxFaults
      /\ \A v \in Users : rows[v] = None => copy'[v] = None
  BY <1>1, <1>4 DEF IInv, Types, Unborn, Keep
<1>6. \A key : Owed(key) => Owed(key)'
  BY <1>1, <1>2, <1>3, OwedStays
<1>7. \A v \in Users : copy'[v] \notin {None, rows'[v]} => v \in missed' \/ Owed(v)'
  BY <1>1, <1>6, ApartFromNone DEF IInv, Copies, Keep
<1>8. list' \notin {None, All(rows)'} => "list" \in missed' \/ Owed("list")'
  BY <1>1 DEF Keep, All
<1>9. Copies'
  BY <1>7, <1>8 DEF Copies
<1> QED BY <1>1, <1>3, <1>5, <1>9, CopiesChange

\* Copies are dropped, all that are owed but those kept.
LEMMA Dropping ==
  ASSUME IInv, NEW u \in Users, At(u, "drop"), Becomes(u, Done(req[u])),
         NEW kept \in SUBSET Drops(req[u]),
         Dropped(Drops(req[u]) \ kept), missed' = (missed \ Drops(req[u])) \cup kept,
         UNCHANGED <<store, tokens>>, requests' = requests, faults' \in 0..MaxFaults
  PROVE  IInv'
<1> DEFINE r == req[u]
           s == Done(r)
           D == Drops(r)
<1>1. /\ r # None /\ RequestOK(u, r) /\ r.todo # <<>> /\ r.on \in Users
      /\ Head(r.todo) = "drop"
  BY AtAnAwait
<1>2. Follow(u, r, s)
  BY <1>1, GoesOn
<1>3. /\ \A v \in Users : copy'[v] = IF v \in D \ kept THEN None ELSE copy[v]
      /\ copy' \in [Users -> Row \cup {None}]
      /\ list' = IF "list" \in D \ kept THEN None ELSE list
      /\ list' \in List \cup {None}
  BY DEF Dropped, IInv, Types
<1>4. D \subseteq Users \cup {"list"} /\ missed' \subseteq Users \cup {"list"} /\ "list" \in D
  BY <1>1 DEF Drops, IInv, Types
<1>5. \A v \in Users : rows[v] = None => copy'[v] = None
  BY <1>3 DEF IInv, Unborn
<1>6. ASSUME NEW key, key \notin D, Owed(key)
      PROVE  Owed(key)'
  <2>1. PICK w \in Users : At(w, "drop") /\ key \in Drops(req[w])
    BY <1>6 DEF Owed
  <2>2. w # u
    BY <1>6, <2>1
  <2>3. req'[w] = req[w] /\ At(w, "drop")'
    BY <1>2, <2>1, <2>2, OneMoves DEF IInv, Follow
  <2> QED BY <2>1, <2>3 DEF Owed, Drops
<1>7. UNCHANGED rows
  BY DEF store
<1>8. \A v \in Users : copy'[v] \notin {None, rows'[v]} => v \in missed' \/ Owed(v)'
  <2> SUFFICES ASSUME NEW v \in Users, copy'[v] \notin {None, rows[v]}
               PROVE  v \in missed' \/ Owed(v)'
    BY <1>7
  <2>1. CASE v \in D
    BY <1>3, <2>1
  <2>2. CASE v \notin D
    BY <1>3, <1>6, <2>2 DEF IInv, Copies
  <2> QED BY <2>1, <2>2
<1>9. list' \notin {None, All(rows)'} => "list" \in missed' \/ Owed("list")'
  BY <1>3, <1>4
<1>10. Copies'
  BY <1>8, <1>9 DEF Copies
<1> HIDE DEF s, D
<1> QED BY <1>2, <1>3, <1>4, <1>5, <1>10, CopiesChange DEF s

LEMMA DropStep ==
  ASSUME IInv, NEW u \in Users, Drop(u)
  PROVE  IInv'
<1>1. /\ At(u, "drop") /\ Becomes(u, Done(req[u])) /\ Dropped(Drops(req[u]) \ {})
      /\ missed' = (missed \ Drops(req[u])) \cup {} /\ {} \in SUBSET Drops(req[u])
      /\ UNCHANGED <<store, tokens>> /\ requests' = requests /\ faults' = faults
  BY DEF Drop, Dropped, counts
<1>2. faults' \in 0..MaxFaults
  BY <1>1 DEF IInv, Types
<1> QED BY <1>1, <1>2, Dropping

LEMMA CommandFailsStep ==
  ASSUME IInv, NEW u \in Users, CommandFails(u)
  PROVE  IInv'
<1> DEFINE r == req[u]
           w == Head(r.todo)
<1>1. /\ At(u, w) /\ Becomes(u, Done(r)) /\ UNCHANGED <<store, tokens>> /\ requests' = requests
      /\ faults' \in 0..MaxFaults
  BY FaultCounted DEF CommandFails, At
<1>2. CASE w \in {"get", "getAll", "set", "setAll"} /\ UNCHANGED caches
  <2>1. r # None /\ RequestOK(u, r) /\ r.todo # <<>> /\ ~At(u, "drop") /\ ~At(u, "save")
    BY <1>1, <1>2, AtAnAwait
  <2>2. Follow(u, r, Done(r))
    BY <1>2, <2>1, GoesOn
  <2>3. ~(Done(r) # None /\ IsAt(Done(r), "save"))
    BY <1>2, <2>2 DEF Follow, IsAt
  <2>4. UNCHANGED <<rows, granted, lost, late, copy, list, missed>>
    BY <1>1, <1>2 DEF store, caches
  <2>5. /\ tokens' \in [Users -> [access : UserRole \cup {None}, refresh : UserRole \cup {None}]]
        /\ requests' \in 0..MaxRequests
    BY <1>1 DEF IInv, Types
  <2> QED BY <1>1, <2>1, <2>2, <2>3, <2>4, <2>5, Quiet
<1>3. CASE /\ w = "drop"
           /\ \E kept \in SUBSET Drops(r) \ {{}} :
                /\ Dropped(Drops(r) \ kept)
                /\ missed' = (missed \ Drops(r)) \cup kept
  BY <1>1, <1>3, Dropping
<1> QED BY <1>2, <1>3 DEF CommandFails

----------------------------------------------------------------------------
(* Time, and restarts.                                                      *)

\* Requests and rows stay.
LEMMA CopiesExpire ==
  ASSUME IInv, UNCHANGED <<store, req, tokens, counts>>,
         copy' \in [Users -> Row \cup {None}], list' \in List \cup {None},
         missed' \subseteq Users \cup {"list"},
         \A v \in Users : copy'[v] # None => copy'[v] = copy[v] /\ (v \in missed => v \in missed'),
         list' # None => list' = list /\ ("list" \in missed => "list" \in missed')
  PROVE  IInv'
<1>1. UNCHANGED <<rows, granted, late, lost, req, tokens, requests, faults>>
  BY DEF store, counts
<1>2. \A w \in Users : \A k : At(w, k)' <=> At(w, k)
  BY <1>1 DEF At, Busy
<1>3. Types'
  BY <1>1, <1>2 DEF IInv, Types, Requests
<1>4. Unborn'
  BY <1>1 DEF IInv, Unborn
<1>5. OneAccountPerEmail'
  BY <1>1 DEF IInv, OneAccountPerEmail, Exists
<1>6. Copies'
  <2>1. \A key : Owed(key)' <=> Owed(key)
    BY <1>1, <1>2 DEF Owed, Drops
  <2> QED BY <1>1, <2>1 DEF IInv, Copies, All
<1>7. Roles'
  BY <1>1, <1>2 DEF IInv, Roles, GrantHolds, Exists
<1> QED BY <1>3, <1>4, <1>5, <1>6, <1>7 DEF IInv

LEMMA ExpireCopyStep ==
  ASSUME IInv, NEW u \in Users, ExpireCopy(u)
  PROVE  IInv'
<1>1. /\ copy' = [copy EXCEPT ![u] = None] /\ missed' = missed \ {u} /\ list' = list
      /\ UNCHANGED <<store, req, tokens, counts>>
  BY DEF ExpireCopy
<1>2. /\ copy' \in [Users -> Row \cup {None}] /\ list' \in List \cup {None}
      /\ missed' \subseteq Users \cup {"list"}
      /\ \A v \in Users : copy'[v] # None => copy'[v] = copy[v] /\ (v \in missed => v \in missed')
  BY <1>1 DEF IInv, Types
<1>3. list' # None => list' = list /\ ("list" \in missed => "list" \in missed')
  BY <1>1, ApartFromNone
<1> QED BY <1>1, <1>2, <1>3, CopiesExpire

LEMMA ExpireListStep ==
  ASSUME IInv, ExpireList
  PROVE  IInv'
<1>1. /\ list' = None /\ missed' = missed \ {"list"} /\ copy' = copy
      /\ UNCHANGED <<store, req, tokens, counts>>
  BY DEF ExpireList
<1>2. /\ copy' \in [Users -> Row \cup {None}] /\ list' \in List \cup {None}
      /\ missed' \subseteq Users \cup {"list"}
      /\ \A v \in Users : copy'[v] # None => copy'[v] = copy[v] /\ (v \in missed => v \in missed')
  BY <1>1, ApartFromNone DEF IInv, Types
<1> QED BY <1>1, <1>2, CopiesExpire

\* Nothing but the tokens changes.
LEMMA TokensChange ==
  ASSUME IInv, UNCHANGED <<store, caches, req, counts>>,
         tokens' \in [Users -> [access : UserRole \cup {None}, refresh : UserRole \cup {None}]]
  PROVE  IInv'
<1>1. UNCHANGED <<rows, granted, late, lost, copy, list, missed, req, requests, faults>>
  BY DEF store, caches, counts
<1>2. \A w \in Users : \A k : At(w, k)' <=> At(w, k)
  BY <1>1 DEF At, Busy
<1>3. Types'
  BY <1>1, <1>2 DEF IInv, Types, Requests
<1>4. Unborn' /\ OneAccountPerEmail'
  BY <1>1 DEF IInv, Unborn, OneAccountPerEmail, Exists
<1>5. Copies'
  <2>1. \A key : Owed(key)' <=> Owed(key)
    BY <1>1, <1>2 DEF Owed, Drops
  <2> QED BY <1>1, <2>1 DEF IInv, Copies, All
<1>6. Roles'
  BY <1>1, <1>2 DEF IInv, Roles, GrantHolds, Exists
<1> QED BY <1>3, <1>4, <1>5, <1>6 DEF IInv

LEMMA ExpireTokensStep ==
  ASSUME IInv, NEW u \in Users, ExpireTokens(u)
  PROVE  IInv'
<1>1. /\ UNCHANGED <<store, caches, req, counts>>
      /\ \/ tokens' = [tokens EXCEPT ![u].access = None]
         \/ tokens' = [tokens EXCEPT ![u].refresh = None]
  BY DEF ExpireTokens, ExpireAccess, ExpireRefresh
<1>2. tokens' \in [Users -> [access : UserRole \cup {None}, refresh : UserRole \cup {None}]]
  BY <1>1 DEF IInv, Types
<1> QED BY <1>1, <1>2, TokensChange

\* What was owed is missed from then on, and nobody is about to save.
LEMMA CrashStep ==
  ASSUME IInv, Crash
  PROVE  IInv'
<1>1. /\ req' = [u \in Users |-> IF Busy(u) THEN Again(req[u]) ELSE req[u]]
      /\ late' = {}
      /\ missed' = missed \cup UNION {Drops(req[u]) : u \in {v \in Users : At(v, "drop")}}
      /\ UNCHANGED <<rows, granted, lost, copy, list, tokens, requests>>
      /\ faults' \in 0..MaxFaults
  BY FaultCounted DEF Crash
<1>2. ASSUME NEW u \in Users
      PROVE  /\ req'[u] \in Req \cup {None}
             /\ req'[u] # None =>
                  /\ RequestOK(u, req'[u])
                  /\ req[u] # None /\ req'[u].op = req[u].op /\ req'[u].on = req[u].on
                  /\ ~IsAt(req'[u], "save")
  <2>1. CASE Busy(u)
    <3>1. req'[u] = Again(req[u]) /\ req[u] # None /\ RequestOK(u, req[u])
      BY <1>1, <2>1 DEF Busy, IInv, Types, Requests
    <3>2. Follow(u, req[u], req'[u]) /\ ~(req'[u] # None /\ IsAt(req'[u], "save"))
      BY <3>1, Goes
    <3> QED BY <3>1, <3>2 DEF Follow, RequestOK
  <2>2. CASE ~Busy(u)
    <3>1. req'[u] = req[u]
      BY <1>1, <2>2
    <3>2. req[u] # None => ~IsAt(req[u], "save") /\ RequestOK(u, req[u])
      BY <2>2 DEF Busy, IsAt, IInv, Types, Requests
    <3> QED BY <3>1, <3>2 DEF IInv, Types, Requests
  <2> QED BY <2>1, <2>2
<1>3. \A u \in Users : ~At(u, "save")'
  BY <1>2 DEF At, Busy, IsAt
<1>4. missed' \subseteq Users \cup {"list"}
  <2>1. \A u \in Users : At(u, "drop") => Drops(req[u]) \subseteq Users \cup {"list"}
    BY AtAnAwait DEF Drops
  <2> QED BY <1>1, <2>1 DEF IInv, Types
<1>5. Requests'
  <2>1. req' \in [Users -> Req \cup {None}]
    BY <1>1, <1>2
  <2> QED BY <1>2, <2>1 DEF Requests
<1>6. Types'
  BY <1>1, <1>4, <1>5 DEF IInv, Types
<1>7. Unborn'
  BY <1>1, <1>2 DEF IInv, Unborn
<1>8. OneAccountPerEmail'
  BY <1>1 DEF IInv, OneAccountPerEmail, Exists
<1>9. Copies'
  <2>1. \A key : Owed(key) \/ key \in missed => key \in missed'
    BY <1>1 DEF Owed
  <2> QED BY <1>1, <2>1 DEF IInv, Copies, All
<1>10. Roles'
  BY <1>1, <1>3 DEF IInv, Roles, GrantHolds, Exists
<1> QED BY <1>6, <1>7, <1>8, <1>9, <1>10 DEF IInv

----------------------------------------------------------------------------
(* The invariant and what follows from it.                                  *)

LEMMA InitOK == Init => IInv
<1> SUFFICES ASSUME Init PROVE IInv
  OBVIOUS
<1>1. PICK S \in SUBSET Users :
        /\ Admin \in S
        /\ rows = [u \in Users |->
                     IF u \notin S THEN None
                     ELSE [email |-> Mailbox[u], role |-> IF u = Admin THEN ADMIN ELSE USER]]
  BY DEF Init
<1>2. /\ copy = [u \in Users |-> None]
      /\ list = None
      /\ tokens = [u \in Users |-> IF Exists(u) THEN Signed(rows[u].role) ELSE NoTokens]
      /\ req = [u \in Users |-> None]
      /\ granted = [u \in Users |-> IF Exists(u) THEN rows[u].role ELSE None]
      /\ late = {} /\ lost = {} /\ missed = {}
      /\ requests = 0 /\ faults = 0
  BY DEF Init
<1>3. \A u \in Users : ~Busy(u) /\ \A k : ~At(u, k)
  BY <1>2 DEF At, Busy
<1>4. /\ \A u \in S : rows[u] \in Row /\ rows[u].email = Mailbox[u]
      /\ \A u \in Users \ S : rows[u] = None
  BY <1>1, MailboxType DEF Row, UserRole
<1>5. rows \in [Users -> Row \cup {None, Gone}]
  BY <1>1, <1>4
<1>6. \A u \in Users : Exists(u) <=> u \in S
  BY <1>4, ApartFromNone DEF Exists
<1>7. tokens \in [Users -> [access : UserRole \cup {None}, refresh : UserRole \cup {None}]]
  BY <1>2, <1>4, <1>6 DEF Signed, NoTokens, Row
<1>8. granted \in [Users -> UserRole \cup {None}]
  BY <1>2, <1>4, <1>6 DEF Row
<1>9. Types
  <2>1. Requests
    BY <1>2 DEF Requests
  <2> QED BY <1>2, <1>5, <1>7, <1>8, <2>1, AccountBounds DEF Types
<1>10. Unborn
  BY <1>2 DEF Unborn
<1>11. OneAccountPerEmail
  BY <1>4, <1>6, MailboxType DEF OneAccountPerEmail
<1>12. Copies
  BY <1>2 DEF Copies
<1>13. Roles
  BY <1>2, <1>3 DEF Roles, GrantHolds
<1> QED BY <1>9, <1>10, <1>11, <1>12, <1>13 DEF IInv

LEMMA StepOK == IInv /\ [Next]_vars => IInv'
<1> SUFFICES ASSUME IInv, [Next]_vars PROVE IInv'
  OBVIOUS
<1>1. ASSUME NEW u \in Users, Serve(u)
      PROVE  IInv'
  BY <1>1, LookStep, InsertStep, CheckStep, FindStep, UpdateStep, SaveStep, DeleteStep,
     GetStep, LoadStep, SetStep, GetAllStep, LoadAllStep, SetAllStep, DropStep, ReplyStep
  DEF Serve
<1>2. ASSUME NEW u \in Users,
             \/ Send(u) \/ ExpireCopy(u) \/ ExpireTokens(u)
             \/ DatabaseFails(u) \/ LoseWrite(u) \/ CommandFails(u) \/ PublishFails(u)
             \/ LoseReply(u)
      PROVE  IInv'
  BY <1>2, SendStep, ExpireCopyStep, ExpireTokensStep, DatabaseFailsStep,
     LoseWriteStep, CommandFailsStep, PublishFailsStep, LoseReplyStep
<1>3. CASE UNCHANGED vars
  <2>1. UNCHANGED <<store, caches, req, counts>> /\ tokens' = tokens
    BY <1>3 DEF vars, store, caches, counts
  <2>2. tokens' \in [Users -> [access : UserRole \cup {None}, refresh : UserRole \cup {None}]]
    BY <2>1 DEF IInv, Types
  <2> QED BY <2>1, <2>2, TokensChange
<1> QED BY <1>1, <1>2, <1>3, ExpireListStep, CrashStep DEF Next

THEOREM InvariantHolds == Spec => []IInv
BY InitOK, StepOK, PTL DEF Spec

\* Every request is one the service knows, on an account there is or was, with
\* awaits left that it has to come to (all of UserService).
THEOREM TypeCorrect == Spec => []TypeOK
<1>1. IInv => TypeOK
  <2> SUFFICES ASSUME IInv PROVE TypeOK
    OBVIOUS
  <2>1. ASSUME NEW u \in Users, req[u] # None
        PROVE  /\ req[u].op # "register" => rows[req[u].on] # None
               /\ req[u].todo = <<>> => req[u].seen \in Row \cup {None}
    <3>1. RequestOK(u, req[u]) /\ req[u].on \in Users
      BY <2>1 DEF IInv, Types, Requests, RequestOK, Req
    <3>2. req[u].todo = <<>> => req[u].seen \in Row \cup {None}
      BY <3>1 DEF RequestOK, SeenOK, IsAt
    <3> QED BY <2>1, <3>1, <3>2 DEF IInv, Unborn
  <2> QED BY <2>1 DEF IInv, Types, Requests, TypeOK
<1> QED BY <1>1, InvariantHolds, PTL

\* Two accounts never have the same address.
THEOREM UniqueEmails == Spec => []OneAccountPerEmail
<1>1. IInv => OneAccountPerEmail
  BY DEF IInv
<1> QED BY <1>1, InvariantHolds, PTL

\* A copy that differs from its row is owed a drop, or was left by a crash, an
\* error, an answer that was lost or a late read.
THEOREM CopiesExcused == Spec => []CopiesAreExcused
<1>1. IInv => CopiesAreExcused
  <2> SUFFICES ASSUME IInv PROVE CopiesAreExcused
    OBVIOUS
  <2>1. \A u \in Users : Owed(u) => \E w \in Users : At(w, "drop") /\ req[w].on = u
    BY ApartFromNone DEF Owed, Drops
  <2>2. Owed("list") => \E w \in Users : At(w, "drop")
    BY DEF Owed
  <2> QED BY <2>1, <2>2 DEF IInv, Copies, CopiesAreExcused
<1> QED BY <1>1, InvariantHolds, PTL

\* An account keeps the role last given to it by name, by whichever update, unless
\* a late update has written the older one back.
THEOREM GrantsHold == Spec => []GrantHolds
<1>1. IInv => GrantHolds
  BY DEF IInv, Roles
<1> QED BY <1>1, InvariantHolds, PTL

\* One token decides alone who gets through, whatever tokens the owners hold: the
\* one the route asks for, or the game token that comes with a url that ends with
\* /metrics (the hooks of api-gateway).
THEOREM CredentialsDecide == Spec => []CredentialDecides
<1>1. CredentialDecides
  BY NoneMisjudged DEF CredentialDecides
<1> QED BY <1>1, PTL


\* What the gateway lets through is served, whatever tokens the owners hold, but
\* for the requests that reach a handler without the account it reads, and
\* so is what the services ask of each other (the routes of the services, and
\* the fields of the internal token their handlers need).
THEOREM AdmittedAreServed == Spec => []AdmittedIsServed
<1>1. AdmittedIsServed
  BY NoneUnserved, OwnServed DEF AdmittedIsServed
<1> QED BY <1>1, PTL

=============================================================================
