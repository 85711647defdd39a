------------------------------- MODULE Accounts -------------------------------
(***************************************************************************)
(* ms-user behind the gateway: accounts, their copies in Valkey, and the   *)
(* tokens signed for their owners.                                         *)
(*                                                                         *)
(* The owner of an account sends one request at a time; requests of        *)
(* different owners overlap.  The gateway lets a request through in one    *)
(* step (Gateway), the service handles it await by await, and a step of    *)
(* the model is one of the awaits.  The gateway repeats a call whose reply *)
(* is lost, and an idempotent one that ends with 500.                      *)
(***************************************************************************)
EXTENDS Gateway, Integers, Sequences

CONSTANTS
  Admin,         \* the account the administrator was given by hand
  Emails,
  Mailbox,       \* Mailbox[u]: the address u starts with
  Granted,       \* the roles that requests name
  Gone,          \* no row any more
  Renewing,      \* bound on whose tokens run out, and who renews them at will
  MaxRequests,   \* bound on the other requests
  MaxFaults,     \* bound on lost replies, failed operations and crashes
  MaxRetries     \* bound on the calls the gateway repeats, 3 in axios-retry

ASSUME AdminType == Admin \in Users
ASSUME MailboxType ==
  /\ Mailbox \in [Users -> Emails]
  /\ \A u, v \in Users : Mailbox[u] = Mailbox[v] => u = v
ASSUME GrantedType == Granted \subseteq UserRole /\ Renewing \subseteq Users
ASSUME AccountBounds == MaxRequests \in Nat /\ MaxFaults \in Nat /\ MaxRetries \in Nat

VARIABLES
  rows,      \* rows[u]: None before, Gone after, or [email, role]
  copy,      \* copy[u]: what is stored under user:<u>
  list,      \* what is stored under user:all
  tokens,    \* tokens[u]: the tokens its owner holds that have not expired
  req,       \* req[u]: the request of its owner
  granted,   \* history: granted[u], the role last given to u by name
  late,      \* history: updates that read their row before a role was given
  lost,      \* history: accounts whose role such an update has written back
  missed,    \* history: copies no running request will put right
  requests, faults  \* counters for the bounds

vars == <<rows, copy, list, tokens, req, granted, late, lost, missed,
          requests, faults>>

store  == <<rows, granted, late, lost>>
caches == <<copy, list, missed>>
counts == <<requests, faults>>

Row      == [email : Emails, role : UserRole]

ASSUME ApartFromNone ==
  /\ None \notin Emails
  /\ {None, Gone} \cap Row = {} /\ None # Gone
  /\ "list" \notin Users

Signed(role) == [access |-> role, refresh |-> role]
NoTokens == [access |-> None, refresh |-> None]
Exists(u) == rows[u] \notin {None, Gone}

\* The list of the rows as user:all holds it.
All(t) == [u \in {v \in Users : t[v] \notin {None, Gone}} |-> t[u]]

----------------------------------------------------------------------------
(* The operations of UserService: their awaits in order.                    *)

FindByIdAwaits == <<"get", "load", "set">>

Awaits(op, data) ==
  CASE op = "register"           -> <<"look", "insert", "drop">>
    [] op = "login"              -> <<"look">>
    [] op = "refreshAccessToken" -> FindByIdAwaits
    [] op = "findById"           -> FindByIdAwaits
    [] op = "findAll"            -> <<"getAll", "loadAll", "setAll">>
    [] op = "grantPermissions"   -> <<"check", "update", "drop", "check">>
    [] op = "deleteUser"         -> <<"delete", "drop">>
    [] op = "updateUser" /\ data.email = None ->
         <<"check", "find", "save", "drop", "get", "load", "set">>
    [] op = "updateUser" /\ data.email # None ->
         <<"check", "look", "find", "save", "drop", "get", "load", "set">>

Signing == {"register", "login", "refreshAccessToken"}

\* The operation the handler of a route ends in, and the account it is about.
OperationOf(rt) ==
  CASE rt.handler = "refreshToken"               -> "refreshAccessToken"
    [] rt.handler \in {"getMe", "findById"}      -> "findById"
    [] rt.handler \in {"updateMe", "updateUser"} -> "updateUser"
    [] rt.handler \in {"deleteMe", "deleteUser"} -> "deleteUser"
    [] OTHER                                     -> rt.handler

TargetsOf(rt, token, sender) ==
  IF rt \in {RefreshToken, GetMe, UpdateMe, DeleteMe} THEN {token.userId}
  ELSE IF rt \in {Register, Login} THEN {sender}
  ELSE Users

NoData == [email |-> None, role |-> None]

\* An update names an address, a role, both or neither, its owner's as well as an
\* administrator's: either passes the whole body on.  What else it may carry, a
\* password, is not told apart.
DataOf(rt) ==
  CASE rt = GrantPermissions -> {[NoData EXCEPT !.role = r] : r \in Granted}
    [] rt \in {UpdateMe, UpdateUser} ->
         [email : Emails \cup {None}, role : Granted \cup {None}]
    [] rt = Register         -> {[NoData EXCEPT !.email = e] : e \in Emails}
    [] OTHER                 -> {NoData}

----------------------------------------------------------------------------
(* The gateway.                                                             *)

\* What the owner of u sends along.
Sent(u) ==
  LET sent(kind) == IF tokens[u][kind] = None THEN None
                    ELSE AccountToken(u, tokens[u][kind])
  IN  [access |-> sent("access"), refresh |-> sent("refresh")]

Request(op, on, data, tries) ==
  [op |-> op, on |-> on, data |-> data, todo |-> Awaits(op, data), seen |-> None,
   tries |-> tries]

\* An owner registers once; the other requests are about accounts there are or
\* were.
Send(u) ==
  /\ req[u] = None
  /\ \E rt \in UserRoutes :
       LET op    == OperationOf(rt)
           sent  == Sent(u)
           reply == Admit(rt, [access |-> sent.access, refresh |-> sent.refresh,
                                game |-> None, metrics |-> FALSE])
       IN  /\ IF rt = RefreshToken THEN u \in Renewing /\ UNCHANGED requests
              ELSE requests < MaxRequests /\ requests' = requests + 1
           /\ reply.status = 200
           /\ \E on \in TargetsOf(rt, reply.token, u), data \in DataOf(rt) :
                /\ IF rt = Register THEN rows[u] = None ELSE rows[on] # None
                /\ req' = [req EXCEPT ![u] = Request(op, on, data, 0)]
  /\ UNCHANGED <<store, caches, tokens, faults>>

Idempotent ==
  {OperationOf(rt) : rt \in {r \in UserRoutes : CallOf(r)[1] \in {"GET", "PUT", "DELETE"}}}

\* axios-retry sends the call again, and the service starts over.
Again(r) ==
  IF r.tries < MaxRetries THEN Request(r.op, r.on, r.data, r.tries + 1) ELSE None

----------------------------------------------------------------------------
(* How an await of the service goes.                                        *)

Busy(u)   == req[u] # None /\ req[u].todo # <<>>
At(u, w)  == Busy(u) /\ Head(req[u].todo) = w
Saw(r, x) == [r EXCEPT !.todo = Tail(r.todo), !.seen = x]
Done(r)   ==
  IF Len(r.todo) = 1 /\ r.op \notin Signing THEN Saw(r, None) ELSE Saw(r, r.seen)

\* The request ends with an answer that is not repeated, 404, 409 or 401 ...
Refused(r) == [r EXCEPT !.todo = <<>>, !.seen = None]

\* ... or with 500, which is for an idempotent call.  A renewal says 401 of
\* whatever goes wrong.
Failed(r) ==
  IF r.op \in Idempotent /\ r.op # "refreshAccessToken" THEN Again(r) ELSE Refused(r)

Becomes(u, r) == req' = [req EXCEPT ![u] = r]

\* An update that has read its row for the last time and has not saved it.
HasRead(w, on) == At(w, "save") /\ req[w].on = on

\* The role of `on` is given by name: updates that have read the one before
\* would write it back.
Give(u, on, role) ==
  /\ granted' = [granted EXCEPT ![on] = role]
  /\ late' = (late \ {u}) \cup {w \in Users \ {u} : HasRead(w, on)}
  /\ lost' = lost \ {on}

UpdateEnds(u) == late' = late \ {u}

----------------------------------------------------------------------------
(* The rows.                                                                *)

\* register and updateUser look for another account with the address, login
\* for the one it is of, whose password is right or wrong.
Look(u) ==
  LET r == req[u]
      e == IF r.op = "login" THEN IF Exists(u) THEN rows[u].email ELSE None
           ELSE r.data.email
      found == {v \in Users : Exists(v) /\ rows[v].email = e}
  IN  /\ At(u, "look")
      /\ \/ r.op = "register" /\ Becomes(u, IF found = {} THEN Done(r) ELSE Refused(r))
         \/ r.op = "updateUser"
            /\ Becomes(u, IF found \subseteq {r.on} THEN Done(r) ELSE Refused(r))
         \/ r.op = "login" /\ found # {} /\ Becomes(u, Saw(r, rows[u]))
         \/ r.op = "login" /\ Becomes(u, Refused(r))
      /\ UNCHANGED <<store, caches, tokens, counts>>

\* Mutant: the column is not unique.
TakenByNobody(on, email) == FALSE

\* The unique column emailHash.
Taken(on, email) == \E v \in Users \ {on} : Exists(v) /\ rows[v].email = email

\* The row register writes.
Registered(r) == [email |-> r.data.email, role |-> USER]

InsertRow(u) ==
  /\ rows' = [rows EXCEPT ![u] = Registered(req[u])]
  /\ Give(u, u, USER)

\* A repeated registration finds its own address taken before it gets here
\* unless somebody changed it meanwhile; it then ends, as the model has one
\* account for an owner.
Insertable(u) == ~Taken(u, req[u].data.email) /\ rows[u] = None

Insert(u) ==
  /\ At(u, "insert")
  /\ IF Insertable(u) THEN Becomes(u, Saw(req[u], Registered(req[u]))) /\ InsertRow(u)
     ELSE Becomes(u, Failed(req[u])) /\ UNCHANGED store
  /\ UNCHANGED <<caches, tokens, counts>>

\* The row is there, and nothing of it kept.
Check(u) ==
  /\ At(u, "check")
  /\ Becomes(u, IF Exists(req[u].on) THEN Done(req[u]) ELSE Refused(req[u]))
  /\ UNCHANGED <<store, caches, tokens, counts>>

\* The row an update starts from.
Find(u) ==
  /\ At(u, "find")
  /\ Becomes(u, IF Exists(req[u].on) THEN Saw(req[u], rows[req[u].on])
               ELSE Refused(req[u]))
  /\ UNCHANGED <<store, caches, tokens, counts>>

UpdateRow(u) ==
  LET r == req[u]
  IN  /\ rows' = [rows EXCEPT ![r.on].role = r.data.role]
      /\ Give(u, r.on, r.data.role)

\* grantPermissions writes the role, and nothing of a row that is gone.
Update(u) ==
  /\ At(u, "update")
  /\ Becomes(u, Done(req[u]))
  /\ IF Exists(req[u].on) THEN UpdateRow(u) ELSE UNCHANGED store
  /\ UNCHANGED <<caches, tokens, counts>>

\* Mutant: what is not named is written as well.
UpdateToUndefined(row, data) ==
  [email |-> data.email, role |-> IF data.role = None THEN row.role ELSE data.role]

\* Mutant: a role that is not named is the role of a new account.
UpdateToDefault(row, data) ==
  [email |-> IF data.email = None THEN row.email ELSE data.email,
   role  |-> IF data.role = None THEN USER ELSE data.role]

\* The row as it was read, with what the request names.
UpdateFromDto(row, data) ==
  [email |-> IF data.email = None THEN row.email ELSE data.email,
   role  |-> IF data.role = None THEN row.role ELSE data.role]

\* updateUser writes the whole row.
Saved(r) == UpdateFromDto(r.seen, r.data)
Savable(u) == Exists(req[u].on) /\ ~Taken(req[u].on, Saved(req[u]).email)

SaveRow(u) ==
  LET r == req[u]
  IN  /\ rows' = [rows EXCEPT ![r.on] = Saved(r)]
      /\ IF r.data.role # None THEN Give(u, r.on, r.data.role)
         ELSE /\ UpdateEnds(u)
              /\ lost' = IF u \in late THEN lost \cup {r.on} ELSE lost
              /\ UNCHANGED granted

Save(u) ==
  LET r == req[u]
  IN  /\ At(u, "save")
      /\ IF Savable(u) THEN Becomes(u, Saw(r, None)) /\ SaveRow(u)
         ELSE /\ Becomes(u, IF Exists(r.on) THEN Failed(r) ELSE Done(r))
              /\ UpdateEnds(u)
              /\ UNCHANGED <<rows, granted, lost>>
      /\ UNCHANGED <<caches, tokens, counts>>

DeleteRow(u) ==
  /\ rows' = [rows EXCEPT ![req[u].on] = Gone]
  /\ UNCHANGED <<granted, late, lost>>

Delete(u) ==
  /\ At(u, "delete")
  /\ Becomes(u, Done(req[u]))
  /\ DeleteRow(u)
  /\ UNCHANGED <<caches, tokens, counts>>

----------------------------------------------------------------------------
(* The copies.                                                              *)

Keep(key, stale) == missed' = IF stale THEN missed \cup {key} ELSE missed \ {key}

\* A hit is the answer: nothing is loaded and nothing set.
Get(u) ==
  LET r == req[u]
  IN  /\ At(u, "get")
      /\ Becomes(u, IF copy[r.on] = None THEN Done(r)
                    ELSE [r EXCEPT !.todo = SubSeq(@, 4, Len(@)), !.seen = copy[r.on]])
      /\ UNCHANGED <<store, caches, tokens, counts>>

\* Mutant: a renewal trusts the token.
LoadOrTrust(u) ==
  LET r == req[u]
  IN  /\ At(u, "load")
      /\ Becomes(u, IF Exists(r.on) THEN Saw(r, rows[r.on])
                    ELSE IF r.op = "refreshAccessToken"
                         THEN [r EXCEPT !.todo = <<>>,
                                        !.seen = [email |-> CHOOSE e \in Emails : TRUE,
                                                  role |-> granted[u]]]
                    ELSE IF r.op = "updateUser" THEN Failed(r) ELSE Refused(r))
      /\ UNCHANGED <<store, caches, tokens, counts>>

\* At the end of an update, a row that is gone is a failure of the database.
Load(u) ==
  LET r == req[u]
  IN  /\ At(u, "load")
      /\ Becomes(u, IF Exists(r.on) THEN Saw(r, rows[r.on])
                    ELSE IF r.op = "updateUser" THEN Failed(r) ELSE Refused(r))
      /\ UNCHANGED <<store, caches, tokens, counts>>

Set(u) ==
  LET r == req[u]
  IN  /\ At(u, "set")
      /\ Becomes(u, Done(r))
      /\ copy' = [copy EXCEPT ![r.on] = r.seen]
      /\ Keep(r.on, r.seen # rows[r.on])
      /\ UNCHANGED <<store, list, tokens, counts>>

GetAll(u) ==
  /\ At(u, "getAll")
  /\ Becomes(u, IF list = None THEN Done(req[u]) ELSE [req[u] EXCEPT !.todo = <<>>])
  /\ UNCHANGED <<store, caches, tokens, counts>>

LoadAll(u) ==
  /\ At(u, "loadAll")
  /\ Becomes(u, Saw(req[u], All(rows)))
  /\ UNCHANGED <<store, caches, tokens, counts>>

SetAll(u) ==
  /\ At(u, "setAll")
  /\ Becomes(u, Done(req[u]))
  /\ list' = req[u].seen
  /\ Keep("list", req[u].seen # All(rows))
  /\ UNCHANGED <<store, copy, tokens, counts>>

\* What a request has to drop when it comes to that: the copy of its account
\* and the list; a new account has no copy yet.
Drops(r) == IF r.op = "register" THEN {"list"} ELSE {r.on, "list"}

Dropped(keys) ==
  /\ copy' = [u \in Users |-> IF u \in keys THEN None ELSE copy[u]]
  /\ list' = IF "list" \in keys THEN None ELSE list

\* Mutant: only the list is dropped.
DropTheList(u) ==
  /\ At(u, "drop")
  /\ Becomes(u, Done(req[u]))
  /\ Dropped({"list"})
  /\ missed' = missed \ {"list"}
  /\ UNCHANGED <<store, tokens, counts>>

\* The commands are sent together and awaited together.
Drop(u) ==
  /\ At(u, "drop")
  /\ Becomes(u, Done(req[u]))
  /\ Dropped(Drops(req[u]))
  /\ missed' = missed \ Drops(req[u])
  /\ UNCHANGED <<store, tokens, counts>>

----------------------------------------------------------------------------
(* The event of the change, the reply, and the tokens signed with it.       *)

Sign(u, role) == tokens' = [tokens EXCEPT ![u] = Signed(role)]

Reply(u) ==
  LET r == req[u]
  IN  /\ r # None /\ r.todo = <<>>
      /\ Becomes(u, None)
      /\ IF r.seen # None /\ r.op \in Signing THEN Sign(u, r.seen.role) ELSE UNCHANGED tokens
      /\ UNCHANGED <<store, caches, counts>>

\* A copy lives for the ttl of the configuration.
ExpireCopy(u) ==
  /\ copy[u] # None
  /\ copy' = [copy EXCEPT ![u] = None]
  /\ missed' = missed \ {u}
  /\ UNCHANGED <<store, list, tokens, req, counts>>

ExpireList ==
  /\ list # None
  /\ list' = None
  /\ missed' = missed \ {"list"}
  /\ UNCHANGED <<store, copy, tokens, req, counts>>

\* An access token is good for an hour, the refresh token signed with it for a
\* week, so that one that is renewed in time does not expire.
ExpireAccess(u) ==
  /\ u \in Renewing /\ tokens[u].access # None
  /\ tokens' = [tokens EXCEPT ![u].access = None]
  /\ UNCHANGED <<store, caches, req, counts>>

ExpireRefresh(u) ==
  /\ u \in Renewing /\ tokens[u].refresh # None /\ tokens[u].access = None
  /\ tokens' = [tokens EXCEPT ![u].refresh = None]
  /\ UNCHANGED <<store, caches, req, counts>>

ExpireTokens(u) == ExpireAccess(u) \/ ExpireRefresh(u)

----------------------------------------------------------------------------
(* Failures.                                                                *)

Fault == faults < MaxFaults /\ faults' = faults + 1

\* The database is out of reach.
DatabaseFails(u) ==
  /\ Fault
  /\ Busy(u)
  /\ Head(req[u].todo) \in {"look", "insert", "check", "find", "update", "save", "delete",
                            "load", "loadAll"}
  /\ Becomes(u, Failed(req[u]))
  /\ UpdateEnds(u)
  /\ UNCHANGED <<rows, granted, lost, caches, tokens, requests>>

\* A write is committed and the answer to it lost: to the service it has failed,
\* and the copies are not dropped.
LoseWrite(u) ==
  /\ Fault
  /\ \/ At(u, "insert") /\ Insertable(u) /\ InsertRow(u)
     \/ At(u, "update") /\ Exists(req[u].on) /\ UpdateRow(u)
     \/ At(u, "save") /\ Savable(u) /\ SaveRow(u)
     \/ At(u, "delete") /\ DeleteRow(u)
  /\ Becomes(u, Failed(req[u]))
  /\ missed' = missed \cup Drops(req[u])
  /\ UNCHANGED <<copy, list, tokens, requests>>

\* Valkey answers a command with an error: a copy is not there, not stored, or
\* not dropped.
CommandFails(u) ==
  /\ Fault
  /\ Busy(u)
  /\ Becomes(u, Done(req[u]))
  /\ \/ Head(req[u].todo) \in {"get", "getAll", "set", "setAll"}
        /\ UNCHANGED caches
     \/ Head(req[u].todo) = "drop"
        /\ \E kept \in SUBSET Drops(req[u]) \ {{}} :
             /\ Dropped(Drops(req[u]) \ kept)
             /\ missed' = (missed \ Drops(req[u])) \cup kept
  /\ UNCHANGED <<store, tokens, requests>>

\* The event is published last.
PublishFails(u) ==
  /\ Fault
  /\ req[u] # None /\ req[u].todo = <<>>
  /\ req[u].op \in {"register", "updateUser", "deleteUser"}
  /\ Becomes(u, Failed(req[u]))
  /\ UNCHANGED <<store, caches, tokens, requests>>

\* The connection is reset, and the call repeated whatever it is, or it times
\* out and is not.
LoseReply(u) ==
  /\ Fault
  /\ req[u] # None /\ req[u].todo = <<>>
  /\ Becomes(u, Again(req[u])) \/ Becomes(u, None)
  /\ UNCHANGED <<store, caches, tokens, requests>>

\* ms-user restarts.  Who was between a row and its copies leaves them.
Crash ==
  /\ Fault
  /\ \E u \in Users : Busy(u)
  /\ req' = [u \in Users |-> IF Busy(u) THEN Again(req[u]) ELSE req[u]]
  /\ late' = {}
  /\ missed' = missed \cup UNION {Drops(req[u]) : u \in {v \in Users : At(v, "drop")}}
  /\ UNCHANGED <<rows, granted, lost, copy, list, tokens, requests>>

----------------------------------------------------------------------------

\* The administrator is registered and has been given the role; the others are
\* registered or still to come.  Who is registered has logged in.
Init ==
  /\ \E S \in SUBSET Users :
       /\ Admin \in S
       /\ rows = [u \in Users |->
                    IF u \notin S THEN None
                    ELSE [email |-> Mailbox[u], role |-> IF u = Admin THEN ADMIN ELSE USER]]
  /\ copy = [u \in Users |-> None]
  /\ list = None
  /\ tokens = [u \in Users |-> IF Exists(u) THEN Signed(rows[u].role) ELSE NoTokens]
  /\ req = [u \in Users |-> None]
  /\ granted = [u \in Users |-> IF Exists(u) THEN rows[u].role ELSE None]
  /\ late = {} /\ lost = {} /\ missed = {}
  /\ requests = 0 /\ faults = 0

\* The step of the service for the request of u.
Serve(u) ==
  \/ Look(u) \/ Insert(u) \/ Check(u) \/ Find(u) \/ Update(u) \/ Save(u) \/ Delete(u)
  \/ Get(u) \/ Load(u) \/ Set(u) \/ GetAll(u) \/ LoadAll(u) \/ SetAll(u)
  \/ Drop(u) \/ Reply(u)

Next ==
  \/ \E u \in Users :
       \/ Send(u)
       \/ Serve(u)
       \/ ExpireCopy(u) \/ ExpireTokens(u)
       \/ DatabaseFails(u) \/ LoseWrite(u) \/ CommandFails(u) \/ PublishFails(u)
       \/ LoseReply(u)
  \/ ExpireList
  \/ Crash

Spec == Init /\ [][Next]_vars

\* A request that runs gets on, and time passes; the owner of an account need
\* not send anything.
FairSpec ==
  /\ Spec
  /\ \A u \in Users : WF_vars(Serve(u)) /\ WF_vars(ExpireCopy(u))
  /\ \A u \in Renewing : WF_vars(ExpireTokens(u))

----------------------------------------------------------------------------
(* Properties.                                                              *)

Ops ==
  {"register", "login", "refreshAccessToken", "findById", "findAll",
   "grantPermissions", "deleteUser", "updateUser"}

Steps ==
  {"look", "insert", "check", "find", "update", "save", "delete", "get", "load",
   "set", "getAll", "loadAll", "setAll", "drop"}

Data == [email : Emails \cup {None}, role : UserRole \cup {None}]
List == UNION {[S -> Row] : S \in SUBSET Users}
Req  == [op : Ops, on : Users, data : Data, todo : Seq(Steps),
         seen : List \cup Row \cup {None}, tries : 0..MaxRetries]

ASSUME NoRequestIsNone == None \notin Req

TypeOK ==
  /\ rows \in [Users -> Row \cup {None, Gone}]
  /\ copy \in [Users -> Row \cup {None}]
  /\ list \in List \cup {None}
  /\ tokens \in [Users -> [access : UserRole \cup {None}, refresh : UserRole \cup {None}]]
  /\ req \in [Users -> Req \cup {None}]
  /\ \A u \in Users :
       req[u] # None =>
         /\ req[u].op # "register" => rows[req[u].on] # None
         /\ req[u].todo = <<>> => req[u].seen \in Row \cup {None}
  /\ granted \in [Users -> UserRole \cup {None}]
  /\ late \subseteq {u \in Users : At(u, "save")} /\ lost \subseteq Users
  /\ missed \subseteq Users \cup {"list"}
  /\ requests \in 0..MaxRequests /\ faults \in 0..MaxFaults

\* Two accounts never have the same address, although the check and the write
\* of a registration, or of two updates, are apart.
OneAccountPerEmail ==
  \A u, v \in Users : Exists(u) /\ Exists(v) /\ rows[u].email = rows[v].email => u = v

\* What Valkey stores of an account is what the row says, unless a request is
\* between the row and the copies, or a copy was filled from an older row, left
\* by a crash or by a write whose answer was lost, or not dropped for an error.
CopiesAreExcused ==
  /\ \A u \in Users :
       copy[u] \notin {None, rows[u]} =>
         u \in missed \/ \E w \in Users : At(w, "drop") /\ req[w].on = u
  /\ list \notin {None, All(rows)} =>
       "list" \in missed \/ \E w \in Users : At(w, "drop")

\* An account keeps the role a request last named for it, an administrator's or
\* its owner's update, unless an update that names none and read the row before
\* has written the older one back.
GrantHolds ==
  \A u \in Users : Exists(u) => rows[u].role = granted[u] \/ u \in lost

\* Whatever an owner holds at the time, one token decides alone whether it is let
\* through, and in whose name: the one the route asks for, or the game token
\* that comes with a url that ends with /metrics.
CredentialDecides == \A u \in Users : Sent(u) \notin Misjudged

\* What the gateway lets through, the services serve: each call has a route,
\* and the internal token made of the owner's has the fields its handler needs;
\* so have the calls the services make of each other, with the token of the
\* request or one of their own.  Left out, and only they, are the requests that
\* a url ending with /metrics brings without an account to a handler that reads
\* one.
AdmittedIsServed ==
  /\ \A u \in Users : Sent(u) \notin Unserved
  /\ OwnCallsServed

\* A deleted account comes to nothing: its tokens run out, and can be renewed
\* only for as long as a copy of it lives.
DeletedLosesAccess ==
  \A u \in Renewing :
    <>[](rows[u] = Gone => /\ tokens[u].access = None /\ tokens[u].refresh = None
                           /\ copy[u] = None)

=============================================================================
