----------------------------- MODULE RmcServer -----------------------------
(***************************************************************************)
(* Remote method calls, server/quazal/src/rmc.rs and the services of       *)
(* server/dedicated-server/src: how a call is decoded, dispatched and      *)
(* answered, and the accounts, tickets and connections that the            *)
(* authentication server and the secure server keep between calls.         *)
(*                                                                         *)
(* A frame is the sequence of its fields, so a size counts fields where    *)
(* the code counts bytes.  A client has one connection to each server and  *)
(* one call outstanding; a call the network repeats is a second Call.      *)
(* Sessions, invitations and stations, which some of the calls change,     *)
(* are those of GameSessions and PrudpServer.                              *)
(***************************************************************************)
EXTENDS RmcProtocols, FiniteSets

CONSTANTS
    Names,        \* user names
    MaxAccounts,  \* bound: accounts registered in a behaviour
    CallId,       \* the call id of the client's calls, opaque to the server
    Nobody        \* no user; no call

ASSUME BoundAssumption == MaxAccounts \in Nat

Servers  == {"auth", "secure"}
Accounts == 1..MaxAccounts

\* A credential names a user by id; the account it was made out to is a history variable.
Credentials == [id : Accounts, account : Accounts]

ASSUME NobodyIsNoCredential == Nobody \notin Credentials

VARIABLES
    users,    \* the table: id -> [name, account]
    born,     \* accounts registered so far
    tokens,   \* API tokens sealed with this start's key
    tickets,  \* tickets sealed with the configured key
    conn,     \* user_id of the client's connection to each server, as a credential
    thread,   \* "serving", or "panicked": the thread of each server
    last      \* the call being answered: [server, user, call, cut, answer]

accounts == <<users, born>>
sealed   == <<tokens, tickets>>
vars     == <<accounts, sealed, conn, thread, last>>

Init ==
    /\ users = [id \in {} |-> Nobody]
    /\ born = 0
    /\ tokens = {}
    /\ tickets = {}
    /\ conn = [s \in Servers |-> Nobody]
    /\ thread = [s \in Servers |-> "serving"]
    /\ last = Nobody

-----------------------------------------------------------------------------
\* The frames: rmc.rs.

Sized(body) == <<Len(body)>> \o body

\* Request::to_bytes, by the client.
EncodeRequest(r) ==
    Sized((IF r.protocol < 255 THEN <<128 + (r.protocol % 128)>> ELSE <<255, r.protocol>>)
              \o <<r.call, r.method>> \o r.params)

\* Where the protocol number of a request ends.
Header(f) == IF f[2] = 255 THEN 3 ELSE 2

\* Packet::from_bytes and Request::from_bytes give a request: a frame of a response,
\* a size below the data's and a field that is missing give an error.
IsRequest(f) ==
    /\ Len(f) >= 2
    /\ f[2] >= 128
    /\ f[1] >= Len(f) - 1
    /\ Len(f) >= Header(f) + 2

DecodeRequest(f) ==
    [protocol |-> IF f[2] = 255 THEN f[3] ELSE f[2] - 128,
     call     |-> f[Header(f) + 1],
     method   |-> f[Header(f) + 2],
     params   |-> SubSeq(f, Header(f) + 3, Len(f))]

\* Error::to_error_code, without its high bit.
ErrorCode ==
    [UnknownProtocol |-> 65537, UnknownMethod |-> 65537, UnimplementedMethod |-> 65538,
     AccessDenied |-> 65542, ParsingError |-> 65546, InternalError |-> 65554]

\* Mutant: protocol numbers of more than one byte are cut down to it.
EncodeResponse_OneByte(r) ==
    Sized(<<r.protocol % 128>>
              \o IF r.ok THEN <<1, r.call, r.method + 32768>> \o r.data
                         ELSE <<0, ErrorCode[r.error], r.call>>)

\* Response::to_bytes. Method numbers stay below 0x8000, where | is +.
EncodeResponse(r) ==
    Sized((IF r.protocol < 127 THEN <<r.protocol>> ELSE <<127, r.protocol>>)
              \o IF r.ok THEN <<1, r.call, r.method + 32768>> \o r.data
                         ELSE <<0, ErrorCode[r.error], r.call>>)

\* Response::from_bytes, by the client, of an answer that arrived whole: the protocol
\* number ends at h.
DecodeAt(f, h) ==
    IF f[h + 1] = 1
    THEN [protocol |-> f[h], ok |-> TRUE, call |-> f[h + 2],
          method |-> f[h + 3] - 32768, data |-> SubSeq(f, h + 4, Len(f))]
    ELSE [protocol |-> f[h], ok |-> FALSE, code |-> f[h + 2], call |-> f[h + 3]]

DecodeResponse(f) == DecodeAt(f, IF f[2] = 127 THEN 3 ELSE 2)

-----------------------------------------------------------------------------
\* The services. A result has what the method returned, the connection's user
\* afterwards and the tickets it made.

Returns(v, u, made) == [value |-> v, user |-> u, made |-> made]
Fails(e, u)         == Returns(e, u, {})

\* find_user_id_by_name.
IdsOf(n) == {id \in DOMAIN users : users[id].name = n}

TicketFor(id) == [id |-> id, account |-> users[id].account]

\* login: a name that exists is enough; the ticket can only be read with its password.
Login(u, n) ==
    {Fails("InternalError", u)}
        \cup IF IdsOf(n) = {} THEN {Fails("AccessDenied", u)}
             ELSE {Returns("ok", TicketFor(id), {TicketFor(id)}) : id \in IdsOf(n)}

\* login_ex: the custom data has to parse and the password to match.
LoginEx(u, n) == {Fails("ParsingError", u), Fails("AccessDenied", u)} \cup Login(u, n)

\* Mutant: the connection's user is not compared with the source.
RequestTicket_ForAnybody(u, id) ==
    IF u = Nobody THEN {Fails("AccessDenied", u)}
    ELSE {Fails("InternalError", u), Returns("ok", u, {[id |-> id, account |-> u.account]})}

\* request_ticket.
RequestTicket(u, id) ==
    IF u = Nobody \/ u.id # id THEN {Fails("AccessDenied", u)}
    ELSE {Fails("InternalError", u), Returns("ok", u, {[id |-> id, account |-> u.account]})}

\* Mutant: login_required lets everybody pass.
LoggedIn_Always(u) == TRUE

\* login_required.
LoggedIn(u) == u # Nobody

\* Calls that end the thread: ReadStatsByPlayers unwraps the first of no players, and
\* RequestProbeInitiationExt borrows the caller's own ClientInfo a second time.
Panics(method, arg) == <<method, arg>> \in {<<"ReadStatsByPlayers", "none">>,
                                            <<"RequestProbeInitiationExt", "own">>}

\* What a method may be given, as far as its outcome depends on it.
ArgsOf(method) ==
    CASE method \in {"Login", "LoginEx"}        -> Names
      [] method = "RequestTicket"               -> Accounts
      [] method = "ReadStatsByPlayers"          -> {"none", "some"}
      [] method = "RequestProbeInitiationExt"   -> {"own", "other"}
      [] OTHER                                  -> {"any"}

\* The errors of the services that use the database or belong to a session's host.
Errors(p) ==
    CASE p.id = GameSession.id                                -> {"InternalError", "AccessDenied"}
      [] p.id \in {GameSessionEx.id, SecureConnection.id}     -> {"InternalError"}
      [] OTHER                                                -> {}

\* A served method of the secure server.
Serve(p, u, method, arg) ==
    IF ~LoggedIn(u) THEN {Fails("AccessDenied", u)}
    ELSE IF Panics(method, arg) THEN {Fails("panic", u)}
    ELSE {Returns("ok", u, {})} \cup {Fails(e, u) : e \in Errors(p)}

ServeTicket(u, method, arg) ==
    CASE method = "Login"         -> Login(u, arg)
      [] method = "LoginEx"       -> LoginEx(u, arg)
      [] method = "RequestTicket" -> RequestTicket(u, arg)

-----------------------------------------------------------------------------
\* The dispatch.

ProtocolsOf(s) == IF s = "auth" THEN AuthProtocols ELSE SecureProtocols

\* rmc_registry.get: the protocol registered last under a number.
Registered(s, id) ==
    LET ps == ProtocolsOf(s)
        at == {i \in DOMAIN ps : ps[i].id = id /\ \A j \in DOMAIN ps : ps[j].id = id => j <= i}
    IN  {ps[i] : i \in at}

\* Mutant: parameters that are missing are taken for empty ones.
Parses_Missing(p, method, params) == TRUE

\* XRequest::from_bytes: the parameters are all there, or the request has none.
Parses(p, method, params) == method \in p.bare \/ params # <<>>

\* Protocol::handle of protocol p.
Dispatch(s, p, u, r) ==
    IF p.loginFirst /\ ~LoggedIn(u) THEN {Fails("AccessDenied", u)}
    ELSE IF r.method \notin DOMAIN p.methods THEN {Fails("UnknownMethod", u)}
    ELSE LET method == p.methods[r.method]
             arg    == IF r.params = <<>> THEN Nobody ELSE r.params[1]
         IN  IF ~Parses(p, method, r.params) THEN {Fails("ParsingError", u)}
             ELSE IF method \notin p.served THEN {Fails("UnimplementedMethod", u)}
             ELSE IF s = "auth" THEN ServeTicket(u, method, arg)
             ELSE Serve(p, u, method, arg)

\* RVSecHandler::handle, up to the answer.
Handle(s, u, r) ==
    LET ps == Registered(s, r.protocol)
    IN  IF ps = {} THEN {Fails("UnknownProtocol", u)} ELSE UNION {Dispatch(s, p, u, r) : p \in ps}

\* Whether the answer of a method carries something.
Speaks(s, r) == \E p \in Registered(s, r.protocol) : p.methods[r.method] \notin p.silent

\* RVSecHandler::handle, the answer.
Answer(s, r, result) ==
    EncodeResponse(
        IF result.value = "ok"
        THEN [protocol |-> r.protocol, ok |-> TRUE, call |-> r.call, method |-> r.method,
              data |-> IF Speaks(s, r) THEN <<"data">> ELSE <<>>]
        ELSE [protocol |-> r.protocol, ok |-> FALSE, call |-> r.call, error |-> result.value])

-----------------------------------------------------------------------------
\* The actions.

\* users.id is the rowid: SQLite gives the one after the greatest there is.
IsNextId(id) == (\A i \in DOMAIN users : i < id) /\ (id = 1 \/ id - 1 \in DOMAIN users)

\* MyUsers::register: a name that is taken is refused.
RegisterAccount(n) ==
    /\ born < MaxAccounts
    /\ IdsOf(n) = {}
    /\ born' = born + 1
    /\ \E id \in 0..MaxAccounts :
          /\ IsNextId(id)
          /\ users' = [i \in DOMAIN users \cup {id} |->
                           IF i = id THEN [name |-> n, account |-> born + 1] ELSE users[i]]
    /\ UNCHANGED <<sealed, conn, thread, last>>

\* The administrator's delete, when no invitation refers to the user.
DeleteAccount(id) ==
    /\ users' = [i \in DOMAIN users \ {id} |-> users[i]]
    /\ UNCHANGED <<born, sealed, conn, thread, last>>

\* MyUsers::login: a token for a user whose password was given.
ApiLogin(n) ==
    /\ \E id \in IdsOf(n) : tokens' = tokens \cup {TicketFor(id)}
    /\ UNCHANGED <<accounts, tickets, conn, thread, last>>

\* check_token: the account that a token is taken for, if there is one. A ticket's
\* principal is looked up by the same id.
Reaches(k) == IF k.id \in DOMAIN users THEN {users[k.id].account} ELSE {}

\* A new connection: to the secure server with a ticket or without one.
Connect(s, u) ==
    /\ thread[s] = "serving"
    /\ u = Nobody \/ (s = "secure" /\ u \in tickets)
    /\ conn' = [conn EXCEPT ![s] = u]
    /\ UNCHANGED <<accounts, sealed, thread, last>>

\* Stop and start: the key of the tokens is drawn again, that of the tickets is configured.
Restart ==
    /\ tokens' = {}
    /\ conn' = [s \in Servers |-> Nobody]
    /\ thread' = [s \in Servers |-> "serving"]
    /\ UNCHANGED <<accounts, tickets, last>>

\* The calls a client makes: to every method with everything it may be given, to a
\* method that the protocol does not have, and to a protocol that no server has.
CallsTo(p) ==
    {[protocol |-> p.id, call |-> CallId, method |-> Len(p.methods) + 1, params |-> <<>>]}
        \cup UNION {{[protocol |-> p.id, call |-> CallId, method |-> m,
                      params |-> IF p.methods[m] \in p.bare THEN <<>> ELSE <<arg>>]
                         : arg \in ArgsOf(p.methods[m])} : m \in DOMAIN p.methods}

UnknownCall == [protocol |-> 2, call |-> CallId, method |-> 1, params |-> <<>>]

CallsOf(s) ==
    {UnknownCall} \cup UNION {CallsTo(ProtocolsOf(s)[i]) : i \in DOMAIN ProtocolsOf(s)}

\* What arrives of a call: all of it; a frame that ends in the parameters or before them;
\* a frame whose size is too small; a frame that is an answer.
Cuts == {"whole", "params", "header", "size", "answer"}

Frame(c, cut) ==
    LET f == EncodeRequest(c)
    IN  CASE cut = "whole"  -> f
          [] cut = "params" -> EncodeRequest([c EXCEPT !.params = <<>>])
          [] cut = "header" -> SubSeq(f, 1, Header(f) + 1)
          [] cut = "size"   -> [f EXCEPT ![1] = @ - 1]
          [] cut = "answer" -> EncodeResponse([protocol |-> c.protocol, ok |-> FALSE,
                                               call |-> c.call, error |-> "InternalError"])

Call(s, c, cut, answer) ==
    last' = [server |-> s, user |-> conn[s], call |-> c, cut |-> cut, answer |-> answer]

\* The frame is refused, and nothing but its acknowledgement is sent.
CallRefused(s, c, cut) ==
    /\ last = Nobody /\ thread[s] = "serving"
    /\ ~IsRequest(Frame(c, cut))
    /\ Call(s, c, cut, <<>>)
    /\ UNCHANGED <<accounts, sealed, conn, thread>>

\* The call is handled and answered, or ends the thread.
CallHandled(s, c, cut) ==
    /\ last = Nobody /\ thread[s] = "serving"
    /\ IsRequest(Frame(c, cut))
    /\ LET r == DecodeRequest(Frame(c, cut))
       IN  \E result \in Handle(s, conn[s], r) :
             /\ conn' = [conn EXCEPT ![s] = result.user]
             /\ tickets' = tickets \cup result.made
             /\ thread' = IF result.value = "panic" THEN [thread EXCEPT ![s] = "panicked"]
                                                    ELSE thread
             /\ Call(s, c, cut, IF result.value = "panic" THEN <<>> ELSE Answer(s, r, result))
    /\ UNCHANGED <<accounts, tokens>>

\* The client reads the answer, or gives up.
CallEnds ==
    /\ last # Nobody
    /\ last' = Nobody
    /\ UNCHANGED <<accounts, sealed, conn, thread>>

\* What happens between two calls of the client.
Between ==
    /\ last = Nobody
    /\ \/ \E n \in Names : RegisterAccount(n) \/ ApiLogin(n)
       \/ \E id \in DOMAIN users : DeleteAccount(id)
       \/ \E s \in Servers, u \in tickets \cup {Nobody} : Connect(s, u)
       \/ Restart

Next ==
    \/ Between
    \/ \E s \in Servers : \E c \in CallsOf(s), cut \in Cuts :
            CallRefused(s, c, cut) \/ CallHandled(s, c, cut)
    \/ CallEnds

Spec == Init /\ [][Next]_vars

-----------------------------------------------------------------------------
\* Properties.

Answered == last # Nobody /\ last.answer # <<>>

\* The tables, credentials and connections keep their types.
TypeOK ==
    /\ DOMAIN users \subseteq Accounts
    /\ \A id \in DOMAIN users : users[id].name \in Names /\ users[id].account \in 1..born
    /\ born \in 0..MaxAccounts
    /\ tokens \subseteq Credentials /\ tickets \subseteq Credentials
    /\ conn \in [Servers -> Credentials \cup {Nobody}]
    /\ thread \in [Servers -> {"serving", "panicked"}]

\* The client, which knows only the bytes, reads from every answer the protocol, the
\* call and, when it succeeded, the method that it asked for, with protocol numbers of
\* one byte and of three (Request and Response in rmc.rs, and RVSecHandler::handle).
AnswersMatchTheirCalls ==
    Answered =>
        LET a == DecodeResponse(last.answer)
        IN  /\ a.protocol = last.call.protocol
            /\ a.call = last.call.call
            /\ IF a.ok THEN a.method = last.call.method ELSE a.code \in 65537..65554

\* Whatever a client that is not logged in sends to the secure server, of any protocol
\* and method, it is given no result and does not end the thread that serves everybody
\* (login_required before every other step of the services, unwraps included).
StrangersGetNothing ==
    last # Nobody /\ last.server = "secure" /\ last.user = Nobody =>
        /\ thread["secure"] = "serving"
        /\ last.answer = <<>> \/ ~DecodeResponse(last.answer).ok

\* A ticket, token or connection that was made out to an account leads to that account
\* for as long as it exists, through second logins on one connection, deletions and
\* restarts; when an administrator deleted it, it leads to nobody or to an account
\* registered later, which was given the same id (request_ticket, check_token,
\* handle_connect and the rowid of users).
LeadsHome(k) ==
    \A a \in Reaches(k) :
        \/ a = k.account
        \/ a > k.account /\ \A i \in DOMAIN users : users[i].account # k.account

CredentialsLeadHome ==
    /\ \A k \in tokens \cup tickets : LeadsHome(k)
    /\ \A s \in Servers : conn[s] # Nobody => LeadsHome(conn[s])

\* A call that did not arrive whole is not carried out, unless it is one whose request
\* has no parameters: it gets no result, makes no ticket and logs nobody in
\* (Packet::from_bytes and the request's from_bytes before the method is called).
CutCallsDoNothing ==
    [][last = Nobody /\ last' # Nobody =>
        LET bare == \E p \in Registered(last'.server, last'.call.protocol) :
                        last'.call.method \in DOMAIN p.methods /\ p.methods[last'.call.method] \in p.bare
        IN  last'.cut = "whole" \/ (bare /\ last'.cut = "params")
                \/ /\ UNCHANGED <<tickets, conn, thread>>
                   /\ last'.answer = <<>> \/ ~DecodeResponse(last'.answer).ok]_vars

=============================================================================
