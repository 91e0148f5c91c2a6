-------------------------- MODULE RmcServerProofs --------------------------
(***************************************************************************)
(* Proofs about RmcServer: a credential leads to the account it was made   *)
(* out to, a client that is not logged in is given nothing, answers are    *)
(* read as they were meant, and a call that was cut is not carried out.    *)
(***************************************************************************)
EXTENDS RmcServer, SequenceTheorems, TLAPS

\* What holds of a credential whatever became of its account.
Honest(k) ==
    /\ k \in Credentials
    /\ k.account \in 1..born
    /\ \A i \in DOMAIN users : users[i].account = k.account => i = k.id
    /\ k.id \in DOMAIN users => users[k.id].account >= k.account

Tables ==
    /\ born \in 0..MaxAccounts
    /\ DOMAIN users \subseteq 1..born
    /\ \A i \in DOMAIN users : users[i].name \in Names /\ users[i].account \in 1..born
    /\ \A i, j \in DOMAIN users : users[i].account = users[j].account => i = j

Held ==
    /\ \A k \in tokens \cup tickets : Honest(k)
    /\ conn \in [Servers -> Credentials \cup {Nobody}]
    /\ \A s \in Servers : conn[s] # Nobody => Honest(conn[s])

Threads == thread \in [Servers -> {"serving", "panicked"}]

\* The inductive invariant.
CredentialInv == Tables /\ Held /\ Threads

-----------------------------------------------------------------------------
\* A ticket made out to a user in the table is honest.
LEMMA TicketsAreHonest ==
    ASSUME Tables, NEW id \in DOMAIN users
    PROVE  Honest(TicketFor(id)) /\ TicketFor(id) # Nobody
<1>1. TicketFor(id) \in Credentials
  BY BoundAssumption DEF Tables, TicketFor, Credentials, Accounts
<1> QED
  BY <1>1, NobodyIsNoCredential DEF Tables, TicketFor, Honest

\* How a method can end.
Outcomes == {"ok", "panic"} \cup DOMAIN ErrorCode

LEMMA OutcomesAre ==
    Outcomes = {"ok", "panic", "UnknownProtocol", "UnknownMethod", "UnimplementedMethod",
                "AccessDenied", "ParsingError", "InternalError"}
BY DEF Outcomes, ErrorCode

\* What a result may carry.
Fair(u, result) ==
    /\ result.value \in Outcomes
    /\ result.user = u \/ \E id \in DOMAIN users : result.user = TicketFor(id)
    /\ \A k \in result.made : (u # Nobody /\ k = u) \/ \E id \in DOMAIN users : k = TicketFor(id)

LEMMA FailsAreFair ==
    ASSUME NEW u, NEW e \in Outcomes
    PROVE  Fair(u, Fails(e, u)) /\ Fails(e, u).value = e
BY DEF Fair, Fails, Returns

\* login and login_ex.
LEMMA LoginIsFair ==
    ASSUME NEW u, NEW n, NEW x \in Login(u, n)
    PROVE  Fair(u, x)
<1>1. CASE x = Fails("InternalError", u) \/ x = Fails("AccessDenied", u)
  BY <1>1, FailsAreFair, OutcomesAre
<1>2. CASE \E id \in IdsOf(n) : x = Returns("ok", TicketFor(id), {TicketFor(id)})
  BY <1>2, OutcomesAre DEF Fair, Returns, IdsOf
<1> QED
  BY <1>1, <1>2 DEF Login

\* request_ticket.
LEMMA RequestTicketIsFair ==
    ASSUME NEW u \in Credentials \cup {Nobody}, NEW id, NEW x \in RequestTicket(u, id)
    PROVE  Fair(u, x)
<1>1. CASE x = Fails("InternalError", u) \/ x = Fails("AccessDenied", u)
  BY <1>1, FailsAreFair, OutcomesAre
<1>2. CASE /\ u # Nobody /\ u.id = id
           /\ x = Returns("ok", u, {[id |-> id, account |-> u.account]})
  <2>1. u = [id |-> id, account |-> u.account]
    BY <1>2 DEF Credentials
  <2> QED BY <1>2, <2>1, OutcomesAre DEF Fair, Returns
<1> QED
  BY <1>1, <1>2 DEF RequestTicket

LEMMA ServeTicketIsFair ==
    ASSUME NEW u \in Credentials \cup {Nobody}, NEW arg, NEW m \in TicketGrantingServed,
           NEW x \in ServeTicket(u, m, arg)
    PROVE  Fair(u, x)
<1>1. CASE m = "Login" BY <1>1, LoginIsFair DEF ServeTicket
<1>2. CASE m = "LoginEx"
  <2>1. x \in {Fails("ParsingError", u), Fails("AccessDenied", u)} \/ x \in Login(u, arg)
    BY <1>2 DEF ServeTicket, LoginEx
  <2> QED BY <2>1, LoginIsFair, FailsAreFair, OutcomesAre
<1>3. CASE m = "RequestTicket" BY <1>3, RequestTicketIsFair DEF ServeTicket
<1> QED BY <1>1, <1>2, <1>3 DEF TicketGrantingServed

LEMMA ServeIsFair ==
    ASSUME NEW u, NEW p, NEW m, NEW arg, NEW x \in Serve(p, u, m, arg)
    PROVE  /\ Fair(u, x)
           /\ u = Nobody => x.value \notin {"ok", "panic"}
<1>1. CASE u = Nobody BY <1>1, FailsAreFair, OutcomesAre DEF Serve, LoggedIn
<1>2. CASE u # Nobody
  <2>1. x \in {Fails("panic", u), Returns("ok", u, {})} \/ \E e \in Errors(p) : x = Fails(e, u)
    BY <1>2 DEF Serve, LoggedIn
  <2>2. Errors(p) \subseteq {"InternalError", "AccessDenied"}
    BY DEF Errors
  <2> QED BY <1>2, <2>1, <2>2, FailsAreFair, OutcomesAre DEF Fair, Returns
<1> QED BY <1>1, <1>2

\* Protocol::handle: the tickets come from the ticket protocol, which is the only one
\* of the authentication server.
LEMMA DispatchIsFair ==
    ASSUME NEW s \in Servers, NEW u \in Credentials \cup {Nobody}, NEW r,
           NEW p, s = "auth" => p = TicketGranting, NEW x \in Dispatch(s, p, u, r)
    PROVE  /\ Fair(u, x)
           /\ (s = "secure" /\ u = Nobody) => x.value \notin {"ok", "panic"}
<1> DEFINE method == p.methods[r.method]
           arg == IF r.params = <<>> THEN Nobody ELSE r.params[1]
<1>1. CASE x \in {Fails("AccessDenied", u), Fails("UnknownMethod", u),
                  Fails("ParsingError", u), Fails("UnimplementedMethod", u)}
  BY <1>1, FailsAreFair, OutcomesAre
<1>2. CASE s = "auth" /\ method \in p.served /\ x \in ServeTicket(u, method, arg)
  <2>1. p.served = TicketGrantingServed
    BY <1>2 DEF TicketGranting, Generated
  <2> QED BY <1>2, <2>1, ServeTicketIsFair
<1>3. CASE s # "auth" /\ x \in Serve(p, u, method, arg)
  BY <1>3, ServeIsFair
<1> QED BY <1>1, <1>2, <1>3 DEF Dispatch

LEMMA HandleIsFair ==
    ASSUME NEW s \in Servers, NEW u \in Credentials \cup {Nobody}, NEW r,
           NEW x \in Handle(s, u, r)
    PROVE  /\ Fair(u, x)
           /\ (s = "secure" /\ u = Nobody) => x.value \notin {"ok", "panic"}
<1>1. CASE x = Fails("UnknownProtocol", u) BY <1>1, FailsAreFair, OutcomesAre
<1>2. CASE \E p \in Registered(s, r.protocol) : x \in Dispatch(s, p, u, r)
  <2>1. PICK p \in Registered(s, r.protocol) : x \in Dispatch(s, p, u, r) BY <1>2
  <2>2. s = "auth" => p = TicketGranting
    BY <2>1 DEF Registered, ProtocolsOf, AuthProtocols
  <2> HIDE DEF Dispatch
  <2> QED BY <2>1, <2>2, DispatchIsFair
<1> QED BY <1>1, <1>2 DEF Handle

-----------------------------------------------------------------------------
\* The initial state.
LEMMA InitHolds == Init => CredentialInv
BY BoundAssumption DEF Init, CredentialInv, Tables, Held, Threads, Servers

\* Credentials that are dropped, and a table that loses a row, harm nobody.
LEMMA FewerUsers ==
    ASSUME CredentialInv, NEW id \in DOMAIN users, DeleteAccount(id)
    PROVE  CredentialInv'
<1>1. /\ born' = born /\ tokens' = tokens /\ tickets' = tickets
      /\ conn' = conn /\ thread' = thread
  BY DEF DeleteAccount, sealed
<1>2. /\ DOMAIN users' \subseteq DOMAIN users
      /\ \A i \in DOMAIN users' : users'[i] = users[i]
  BY DEF DeleteAccount
<1>3. \A k : Honest(k) => Honest(k)'
  BY <1>1, <1>2 DEF Honest
<1>4. Tables'
  BY <1>1, <1>2 DEF CredentialInv, Tables
<1>5. Held'
  BY <1>1, <1>3 DEF CredentialInv, Held
<1> QED BY <1>1, <1>4, <1>5 DEF CredentialInv, Threads

LEMMA NewUser ==
    ASSUME CredentialInv, NEW n \in Names, RegisterAccount(n)
    PROVE  CredentialInv'
<1>1. /\ born' = born + 1 /\ born < MaxAccounts /\ born \in Nat
      /\ tokens' = tokens /\ tickets' = tickets /\ conn' = conn /\ thread' = thread
  BY BoundAssumption DEF RegisterAccount, sealed, CredentialInv, Tables
<1>2. PICK id \in 0..MaxAccounts :
        /\ IsNextId(id)
        /\ users' = [i \in DOMAIN users \cup {id} |->
                        IF i = id THEN [name |-> n, account |-> born + 1] ELSE users[i]]
  BY DEF RegisterAccount
<1>3. id \notin DOMAIN users /\ id \in 1..(born + 1)
  BY <1>1, <1>2, BoundAssumption DEF IsNextId, CredentialInv, Tables
<1>4. /\ DOMAIN users' = DOMAIN users \cup {id}
      /\ users'[id].account = born + 1 /\ users'[id].name = n
      /\ \A i \in DOMAIN users : users'[i] = users[i]
  BY <1>2, <1>3
<1>5. \A k : Honest(k) => Honest(k)'
  <2> SUFFICES ASSUME NEW k, Honest(k) PROVE Honest(k)'
    OBVIOUS
  <2>1. k.account \in 1..born' /\ k.account # born + 1 /\ k.account < born + 1
    BY <1>1 DEF Honest
  <2>2. \A i \in DOMAIN users' : users'[i].account = k.account => i = k.id
    BY <1>4, <2>1 DEF Honest
  <2>3. k.id \in DOMAIN users' => users'[k.id].account >= k.account
    BY <1>1, <1>4, <2>1 DEF Honest
  <2> QED BY <2>1, <2>2, <2>3 DEF Honest
<1>6. Tables'
  <2>1. born' \in 0..MaxAccounts /\ DOMAIN users' \subseteq 1..born'
    BY <1>1, <1>3, <1>4, BoundAssumption DEF CredentialInv, Tables
  <2>2. \A i \in DOMAIN users' : users'[i].name \in Names /\ users'[i].account \in 1..born'
    BY <1>1, <1>4 DEF CredentialInv, Tables
  <2>3. \A i, j \in DOMAIN users' : users'[i].account = users'[j].account => i = j
    BY <1>1, <1>4 DEF CredentialInv, Tables
  <2> QED BY <2>1, <2>2, <2>3 DEF Tables
<1>7. Held'
  BY <1>1, <1>5 DEF CredentialInv, Held
<1> QED BY <1>1, <1>6, <1>7 DEF CredentialInv, Threads

\* A step that leaves the table alone and only holds credentials that were held, or
\* were made out to a user in it.
LEMMA SameTable ==
    ASSUME CredentialInv, UNCHANGED accounts, Threads',
           \A k \in tokens' \cup tickets' : Honest(k),
           conn' \in [Servers -> Credentials \cup {Nobody}],
           \A s \in Servers : conn'[s] # Nobody => Honest(conn'[s])
    PROVE  CredentialInv'
<1>1. \A k : Honest(k)' <=> Honest(k)
  BY DEF accounts, Honest
<1>2. Tables'
  BY DEF accounts, Tables, CredentialInv
<1>3. Held'
  BY <1>1 DEF Held
<1> QED BY <1>2, <1>3 DEF CredentialInv

LEMMA HandledHolds ==
    ASSUME CredentialInv, NEW s \in Servers, NEW c, NEW cut, CallHandled(s, c, cut)
    PROVE  CredentialInv'
<1> DEFINE r == DecodeRequest(Frame(c, cut))
<1>1. PICK result \in Handle(s, conn[s], r) :
        /\ conn' = [conn EXCEPT ![s] = result.user]
        /\ tickets' = tickets \cup result.made
        /\ thread' = IF result.value = "panic" THEN [thread EXCEPT ![s] = "panicked"] ELSE thread
  BY DEF CallHandled
<1>2. conn[s] \in Credentials \cup {Nobody} /\ (conn[s] # Nobody => Honest(conn[s]))
  BY DEF CredentialInv, Held
<1>3. Fair(conn[s], result)
  <2> HIDE DEF r
  <2> QED BY <1>1, <1>2, HandleIsFair
<1>4. \A id \in DOMAIN users : Honest(TicketFor(id)) /\ TicketFor(id) \in Credentials
  BY TicketsAreHonest DEF CredentialInv, Honest
<1>5. \A k \in result.made : Honest(k)
  BY <1>2, <1>3, <1>4 DEF Fair
<1>6. result.user \in Credentials \cup {Nobody} /\ (result.user # Nobody => Honest(result.user))
  BY <1>2, <1>3, <1>4 DEF Fair
<1>7. Threads'
  BY <1>1 DEF Threads, CredentialInv
<1>8. /\ conn' \in [Servers -> Credentials \cup {Nobody}]
      /\ \A t \in Servers : conn'[t] # Nobody => Honest(conn'[t])
  BY <1>1, <1>6 DEF CredentialInv, Held
<1>9. \A k \in tokens' \cup tickets' : Honest(k)
  BY <1>1, <1>5 DEF CredentialInv, Held, CallHandled
<1>10. UNCHANGED accounts
  BY DEF CallHandled
<1> QED BY <1>7, <1>8, <1>9, <1>10, SameTable

\* The inductive step.
LEMMA StepHolds == CredentialInv /\ [Next]_vars => CredentialInv'
<1> SUFFICES ASSUME CredentialInv, [Next]_vars PROVE CredentialInv'
  OBVIOUS
<1> USE DEF CredentialInv
<1>1. ASSUME NEW n \in Names, RegisterAccount(n) PROVE CredentialInv'
  BY <1>1, NewUser
<1>2. ASSUME NEW n \in Names, ApiLogin(n) PROVE CredentialInv'
  <2>1. PICK id \in IdsOf(n) : tokens' = tokens \cup {TicketFor(id)}
    BY <1>2 DEF ApiLogin
  <2>2. Honest(TicketFor(id))
    BY <2>1, TicketsAreHonest DEF IdsOf
  <2>3. \A k \in tokens' \cup tickets' : Honest(k)
    BY <1>2, <2>1, <2>2 DEF ApiLogin, Held
  <2> QED BY <1>2, <2>3, SameTable DEF ApiLogin, Held, Threads
<1>3. ASSUME NEW id \in DOMAIN users, DeleteAccount(id) PROVE CredentialInv'
  BY <1>3, FewerUsers
<1>4. ASSUME NEW s \in Servers, NEW u \in tickets \cup {Nobody}, Connect(s, u)
      PROVE CredentialInv'
  <2>1. u \in Credentials \cup {Nobody} /\ (u # Nobody => Honest(u))
    BY DEF Held, Honest
  <2>2. /\ conn' \in [Servers -> Credentials \cup {Nobody}]
        /\ \A t \in Servers : conn'[t] # Nobody => Honest(conn'[t])
    BY <1>4, <2>1 DEF Connect, Held
  <2> QED BY <1>4, <2>2, SameTable DEF Connect, sealed, Held, Threads
<1>5. CASE Restart
  <2>1. /\ conn' \in [Servers -> Credentials \cup {Nobody}]
        /\ \A t \in Servers : conn'[t] # Nobody => Honest(conn'[t])
    BY <1>5 DEF Restart
  <2>2. Threads' BY <1>5 DEF Restart, Threads
  <2>3. \A k \in tokens' \cup tickets' : Honest(k) BY <1>5 DEF Restart, Held
  <2> QED BY <1>5, <2>1, <2>2, <2>3, SameTable DEF Restart
<1>6. ASSUME NEW s \in Servers, NEW c, NEW cut, CallRefused(s, c, cut) PROVE CredentialInv'
  BY <1>6, SameTable DEF CallRefused, sealed, Held, Threads
<1>7. ASSUME NEW s \in Servers, NEW c, NEW cut, CallHandled(s, c, cut) PROVE CredentialInv'
  BY <1>7, HandledHolds
<1>8. CASE CallEnds
  BY <1>8, SameTable DEF CallEnds, sealed, Held, Threads
<1>9. CASE UNCHANGED vars
  BY <1>9, SameTable DEF vars, sealed, Held, Threads
<1> QED BY <1>1, <1>2, <1>3, <1>4, <1>5, <1>6, <1>7, <1>8, <1>9 DEF Next, Between

LEMMA CredentialsInvariant == Spec => []CredentialInv
BY InitHolds, StepHolds, PTL DEF Spec

\* The tables, credentials and connections keep their types (users and user_sessions,
\* the sealed tokens and tickets, ClientInfo.user_id).
THEOREM TablesAreTyped == Spec => []TypeOK
<1>1. CredentialInv => TypeOK
  BY BoundAssumption DEF CredentialInv, Tables, Held, Threads, Honest, TypeOK, Accounts
<1> QED BY <1>1, CredentialsInvariant, PTL

\* A ticket, token or connection leads to the account it was made out to while that
\* exists, and to nobody or a later one afterwards (request_ticket, check_token,
\* handle_connect), for any number of names, accounts and calls.
THEOREM CredentialsAreKept == Spec => []CredentialsLeadHome
<1>1. \A k : CredentialInv /\ Honest(k) => LeadsHome(k)
  BY DEF CredentialInv, Tables, Honest, LeadsHome, Reaches
<1>2. CredentialInv => CredentialsLeadHome
  BY <1>1 DEF CredentialInv, Held, CredentialsLeadHome
<1> QED BY <1>2, CredentialsInvariant, PTL

-----------------------------------------------------------------------------
LEMMA DecodesRefusal ==
    ASSUME NEW f, NEW h, f[h + 1] = 0
    PROVE  ~DecodeAt(f, h).ok
BY 0 # 1 DEF DecodeAt

\* An answer that refuses is read as one, whatever its protocol number.
LEMMA RefusalsAreRead ==
    ASSUME NEW r, ~r.ok
    PROVE  ~DecodeResponse(EncodeResponse(r)).ok
<1> DEFINE tail == <<0, ErrorCode[r.error], r.call>>
           f == EncodeResponse(r)
<1>1. CASE r.protocol < 127
  <2>1. f = <<Len(<<r.protocol>> \o tail)>> \o (<<r.protocol>> \o tail)
    BY <1>1 DEF EncodeResponse, Sized
  <2>2. f[2] = r.protocol /\ f[2 + 1] = 0
    BY <2>1
  <2>3. f[2] # 127
    BY <1>1, <2>2
  <2> HIDE DEF f
  <2>4. ~DecodeAt(f, 2).ok
    BY <2>2, DecodesRefusal
  <2> QED BY <2>3, <2>4 DEF DecodeResponse, f
<1>2. CASE ~(r.protocol < 127)
  <2>1. f = <<Len(<<127, r.protocol>> \o tail)>> \o (<<127, r.protocol>> \o tail)
    BY <1>2 DEF EncodeResponse, Sized
  <2>2. f[2] = 127 /\ f[3 + 1] = 0
    BY <2>1
  <2> HIDE DEF f
  <2>4. ~DecodeAt(f, 3).ok
    BY <2>2, DecodesRefusal
  <2> QED BY <2>2, <2>4 DEF DecodeResponse, f
<1> QED BY <1>1, <1>2

\* A call of a client that is not logged in.
LEMMA StrangersCall ==
    ASSUME CredentialInv, NEW s \in Servers, NEW c, NEW cut, CallHandled(s, c, cut),
           s = "secure", conn[s] = Nobody
    PROVE  /\ thread' = thread
           /\ last'.answer = <<>> \/ ~DecodeResponse(last'.answer).ok
<1> DEFINE r == DecodeRequest(Frame(c, cut))
<1>1. PICK x \in Handle(s, conn[s], r) :
        /\ thread' = IF x.value = "panic" THEN [thread EXCEPT ![s] = "panicked"] ELSE thread
        /\ Call(s, c, cut, IF x.value = "panic" THEN <<>> ELSE Answer(s, r, x))
  BY DEF CallHandled
<1>2. x.value # "ok" /\ x.value # "panic"
  <2> HIDE DEF r
  <2> QED BY <1>1, HandleIsFair
<1>3. last'.answer = Answer(s, r, x)
  BY <1>1, <1>2 DEF Call
<1>4. ~DecodeResponse(Answer(s, r, x)).ok
  BY <1>2, RefusalsAreRead DEF Answer
<1> QED BY <1>1, <1>2, <1>3, <1>4

LEMMA StrangersStep ==
    CredentialInv /\ StrangersGetNothing /\ [Next]_vars => StrangersGetNothing'
<1> SUFFICES ASSUME CredentialInv, StrangersGetNothing, [Next]_vars,
                    last' # Nobody, last'.server = "secure", last'.user = Nobody
             PROVE  /\ thread'["secure"] = "serving"
                    /\ last'.answer = <<>> \/ ~DecodeResponse(last'.answer).ok
  BY DEF StrangersGetNothing
<1>1. ASSUME NEW s \in Servers, NEW c, NEW cut, CallRefused(s, c, cut)
      PROVE  last'.answer = <<>> /\ thread' = thread /\ thread[s] = "serving" /\ s = "secure"
  BY <1>1 DEF CallRefused, Call
<1>2. ASSUME NEW s \in Servers, NEW c, NEW cut, CallHandled(s, c, cut)
      PROVE  /\ thread'["secure"] = "serving"
             /\ last'.answer = <<>> \/ ~DecodeResponse(last'.answer).ok
  <2>1. s = "secure" /\ conn[s] = Nobody /\ thread[s] = "serving"
    BY <1>2 DEF CallHandled, Call
  <2> QED BY <1>2, <2>1, StrangersCall
<1>3. CASE Between
  BY <1>3 DEF Between, RegisterAccount, ApiLogin, DeleteAccount, Connect, Restart
<1>4. CASE CallEnds
  BY <1>4 DEF CallEnds
<1>5. CASE UNCHANGED vars
  BY <1>5 DEF vars, StrangersGetNothing
<1> QED BY <1>1, <1>2, <1>3, <1>4, <1>5 DEF Next

\* Whatever a client that is not logged in calls on the secure server, it is given no
\* result and leaves the thread serving (login_required in every service), for every
\* method of every protocol and every frame.
THEOREM StrangersAreRefused == Spec => []StrangersGetNothing
<1>1. Init => StrangersGetNothing
  BY DEF Init, StrangersGetNothing
<1> QED BY <1>1, StrangersStep, CredentialsInvariant, PTL DEF Spec

-----------------------------------------------------------------------------
\* What the calls of every protocol have in common: a protocol number whose request and
\* answer give it back, and at most one thing among the parameters.
Callable(c) ==
    /\ c.protocol \in Nat /\ (c.protocol < 127 \/ c.protocol >= 255)
    /\ c.method \in Nat
    /\ c.params = <<>> \/ \E arg : c.params = <<arg>>
    /\ c = [protocol |-> c.protocol, call |-> c.call, method |-> c.method, params |-> c.params]

\* The numbers and methods of the protocols.
Numbered(p) ==
    /\ p.id \in Nat /\ (p.id < 127 \/ p.id >= 255)
    /\ Len(p.methods) \in Nat
    /\ DOMAIN p.methods \subseteq Nat

LEMMA GeneratedIsNumbered ==
    ASSUME NEW id \in Nat, id < 127 \/ id >= 255, NEW methods, Len(methods) \in Nat, DOMAIN methods \subseteq Nat,
           NEW bare, NEW silent, NEW served
    PROVE  Numbered(Generated(id, methods, bare, silent, served))
BY DEF Numbered, Generated

LEMMA ProtocolsAreNumbered ==
    ASSUME NEW s \in Servers, NEW i \in DOMAIN ProtocolsOf(s)
    PROVE  Numbered(ProtocolsOf(s)[i])
<1>1. Numbered(ChallengeHelper)
  BY GeneratedIsNumbered DEF ChallengeHelper, ChallengeHelperMethods
<1>2. Numbered(ClanHelper)
  BY GeneratedIsNumbered DEF ClanHelper, ClanHelperMethods
<1>3. Numbered(GameSessionEx)
  BY GeneratedIsNumbered DEF GameSessionEx, GameSessionExMethods
<1>4. Numbered(GameSession)
  <2>1. Len(GameSessionMethods) = 30 /\ DOMAIN GameSessionMethods = 1..30
    BY SMTT(60) DEF GameSessionMethods
  <2>2. Len(GameSessionMethods) \in Nat /\ DOMAIN GameSessionMethods \subseteq Nat
    BY <2>1
  <2>3. 42 \in Nat /\ 42 < 127
    OBVIOUS
  <2> QED BY <2>2, <2>3, GeneratedIsNumbered DEF GameSession
<1>5. Numbered(LadderHelper)
  BY GeneratedIsNumbered DEF LadderHelper, LadderHelperMethods
<1>6. Numbered(Localization)
  BY GeneratedIsNumbered DEF Localization, LocalizationMethods
<1>7. Numbered(NatTraversal)
  BY GeneratedIsNumbered DEF NatTraversal, NatTraversalMethods
<1>8. Numbered(PlayerStats)
  BY GeneratedIsNumbered DEF PlayerStats, PlayerStatsMethods
<1>9. Numbered(Privileges)
  BY GeneratedIsNumbered DEF Privileges, PrivilegesMethods
<1>10. Numbered(SecureConnection)
  BY GeneratedIsNumbered DEF SecureConnection, SecureConnectionMethods
<1>11. Numbered(TrackingExtension)
  BY GeneratedIsNumbered DEF TrackingExtension, TrackingExtensionMethods
<1>12. Numbered(Tracking3)
  BY GeneratedIsNumbered DEF Tracking3, Tracking3Methods
<1>13. Numbered(UbiAccountManagement)
  BY GeneratedIsNumbered DEF UbiAccountManagement, UbiAccountManagementMethods
<1>14. Numbered(UplayWin)
  BY GeneratedIsNumbered DEF UplayWin, UplayWinMethods
<1>15. Numbered(UserStorage)
  BY GeneratedIsNumbered DEF UserStorage, UserStorageMethods
<1>16. Numbered(TicketGranting)
  BY GeneratedIsNumbered DEF TicketGranting, TicketGrantingMethods
<1>17. Numbered(OverlordNews) /\ Numbered(OverlordCore) /\ Numbered(OverlordChallenge)
  BY DEF OverlordNews, OverlordCore, OverlordChallenge, Overlord, Numbered
<1>18. CASE s = "auth"
  BY <1>18, <1>16 DEF ProtocolsOf, AuthProtocols
<1>19. CASE s = "secure"
  <2>1. ProtocolsOf(s) = SecureProtocols
    BY <1>19 DEF ProtocolsOf
  <2>2. i \in 1..18
    BY <2>1 DEF SecureProtocols
  <2> QED BY <2>1, <2>2, <1>1, <1>2, <1>3, <1>4, <1>5, <1>6, <1>7, <1>8, <1>9, <1>10, <1>11, <1>12, <1>13, <1>14, <1>15, <1>16, <1>17 DEF SecureProtocols
<1> QED BY <1>18, <1>19 DEF Servers

\* Where a frame f of request c has its fields; h is where the number ends, and n the
\* number of the parameters.
LaidOut(f, c, h, n) ==
    /\ \/ h = 2 /\ c.protocol < 127 /\ f[2] = 128 + c.protocol
       \/ h = 3 /\ f[2] = 255 /\ f[3] = c.protocol
    /\ n = IF c.params = <<>> THEN 0 ELSE 1
    /\ f[1] = h + 1 + n
    /\ f[h + 1] = c.call
    /\ f[h + 2] = c.method
    /\ Len(f) = h + 2 + n
    /\ DOMAIN f = 1..(h + 2 + n)
    /\ \E S : f \in Seq(S)

LEMMA FramesAreSequences ==
    ASSUME NEW c, Callable(c)
    PROVE  \E S : EncodeRequest(c) \in Seq(S)
<1> DEFINE number == IF c.protocol < 255 THEN <<128 + (c.protocol % 128)>> ELSE <<255, c.protocol>>
           S == Int \cup {c.call} \cup {c.params[1]}
           body == number \o <<c.call, c.method>> \o c.params
<1>1. number \in Seq(S)
  <2>1. 128 + (c.protocol % 128) \in S /\ 255 \in S /\ c.protocol \in S
    BY DEF Callable
  <2> HIDE DEF S
  <2> QED BY <2>1
<1>2. <<c.call, c.method>> \in Seq(S)
  <2>1. c.call \in S /\ c.method \in S
    BY DEF Callable
  <2> HIDE DEF S
  <2> QED BY <2>1
<1>3. c.params \in Seq(S)
  <2>1. ASSUME NEW arg, c.params = <<arg>> PROVE c.params \in Seq(S)
    <3>1. arg \in S
      BY <2>1
    <3> HIDE DEF S
    <3> QED BY <2>1, <3>1
  <2>2. CASE c.params = <<>>
    <3> HIDE DEF S
    <3> QED BY <2>2
  <2> HIDE DEF S
  <2> QED BY <2>1, <2>2 DEF Callable
<1>4. body \in Seq(S)
  <2> HIDE DEF S, number
  <2> QED BY <1>1, <1>2, <1>3, ConcatProperties
<1>5. <<Len(body)>> \in Seq(S)
  <2>1. Len(body) \in Nat
    <3> HIDE DEF S, body
    <3> QED BY <1>4, LenProperties
  <2>2. Len(body) \in S
    <3> HIDE DEF body
    <3> QED BY <2>1
  <2> HIDE DEF S, body
  <2> QED BY <2>2
<1>6. <<Len(body)>> \o body \in Seq(S)
  <2> HIDE DEF S, body
  <2> QED BY <1>4, <1>5, ConcatProperties
<1> QED BY <1>6 DEF EncodeRequest, Sized

LEMMA FramesAreLaidOut ==
    ASSUME NEW c, Callable(c)
    PROVE  \E h \in {2, 3}, n \in {0, 1} : LaidOut(EncodeRequest(c), c, h, n)
<1> DEFINE f == EncodeRequest(c)
<1>0. \A arg : <<arg>> # <<>>
  OBVIOUS
<1>1. c.protocol < 127 => c.protocol % 128 = c.protocol /\ c.protocol < 255
  BY DEF Callable
<1>2. c.protocol >= 255 => ~(c.protocol < 255)
  BY DEF Callable
<1>3. \E S : f \in Seq(S)
  BY FramesAreSequences
<1>4. ASSUME c.protocol < 127 PROVE \E n \in {0, 1} : LaidOut(f, c, 2, n)
  <2>0. PICK body : body = <<128 + c.protocol>> \o <<c.call, c.method>> \o c.params
    OBVIOUS
  <2>1. f = <<Len(body)>> \o body
    BY <1>1, <1>4, <2>0 DEF EncodeRequest, Sized
  <2>2. CASE c.params = <<>>
    <3>1. /\ f[1] = 3 /\ f[2] = 128 + c.protocol /\ f[3] = c.call /\ f[4] = c.method
          /\ Len(f) = 4 /\ DOMAIN f = 1..4
      BY <2>0, <2>1, <2>2
    <3> HIDE DEF f
    <3> QED BY <1>3, <1>4, <2>2, <3>1 DEF LaidOut
  <2>3. ASSUME NEW arg, c.params = <<arg>> PROVE LaidOut(f, c, 2, 1)
    <3>1. /\ f[1] = 4 /\ f[2] = 128 + c.protocol /\ f[3] = c.call /\ f[4] = c.method
          /\ Len(f) = 5 /\ DOMAIN f = 1..5
      BY <2>0, <2>1, <2>3
    <3> HIDE DEF f
    <3> QED BY <1>0, <1>3, <1>4, <2>3, <3>1 DEF LaidOut
  <2> QED BY <2>2, <2>3 DEF Callable
<1>5. ASSUME c.protocol >= 255 PROVE \E n \in {0, 1} : LaidOut(f, c, 3, n)
  <2>0. PICK body : body = <<255, c.protocol>> \o <<c.call, c.method>> \o c.params
    OBVIOUS
  <2>1. f = <<Len(body)>> \o body
    BY <1>2, <1>5, <2>0 DEF EncodeRequest, Sized
  <2>2. CASE c.params = <<>>
    <3>1. /\ f[1] = 4 /\ f[2] = 255 /\ f[3] = c.protocol /\ f[4] = c.call /\ f[5] = c.method
          /\ Len(f) = 5 /\ DOMAIN f = 1..5
      BY <2>0, <2>1, <2>2
    <3> HIDE DEF f
    <3> QED BY <1>3, <1>5, <2>2, <3>1 DEF LaidOut
  <2>3. ASSUME NEW arg, c.params = <<arg>> PROVE LaidOut(f, c, 3, 1)
    <3>1. /\ f[1] = 5 /\ f[2] = 255 /\ f[3] = c.protocol /\ f[4] = c.call /\ f[5] = c.method
          /\ Len(f) = 6 /\ DOMAIN f = 1..6
      BY <2>0, <2>1, <2>3
    <3> HIDE DEF f
    <3> QED BY <1>0, <1>3, <1>5, <2>3, <3>1 DEF LaidOut
  <2> QED BY <2>2, <2>3 DEF Callable
<1>6. c.protocol < 127 \/ c.protocol >= 255
  BY DEF Callable
<1>7. 2 \in {2, 3} /\ 3 \in {2, 3}
  OBVIOUS
<1> HIDE DEF f
<1>8. CASE c.protocol < 127
  <2>1. PICK n \in {0, 1} : LaidOut(f, c, 2, n)
    BY <1>4, <1>8
  <2> QED BY <1>7, <2>1 DEF f
<1>9. CASE c.protocol >= 255
  <2>1. PICK n \in {0, 1} : LaidOut(f, c, 3, n)
    BY <1>5, <1>9
  <2> QED BY <1>7, <2>1 DEF f
<1> QED BY <1>6, <1>8, <1>9

LEMMA ParamsOfRequest ==
    ASSUME NEW f
    PROVE  DecodeRequest(f).params = SubSeq(f, Header(f) + 3, Len(f))
BY DEF DecodeRequest

LEMMA NumberIsRead ==
    ASSUME NEW c, Callable(c), NEW f, NEW h, NEW n, LaidOut(f, c, h, n)
    PROVE  c.protocol = IF f[2] = 255 THEN f[3] ELSE f[2] - 128
<1>1. CASE c.protocol < 127 /\ f[2] = 128 + c.protocol
  <2>1. f[2] # 255 /\ f[2] - 128 = c.protocol
    BY <1>1 DEF Callable
  <2> QED BY <2>1
<1>2. CASE f[2] = 255 /\ f[3] = c.protocol
  BY <1>2
<1> QED BY <1>1, <1>2 DEF LaidOut

\* The server reads from a request what the client wrote into it.
LEMMA RequestIsRead ==
    ASSUME NEW c, Callable(c), NEW r, r = DecodeRequest(EncodeRequest(c))
    PROVE  /\ r.protocol = c.protocol /\ r.call = c.call /\ r.method = c.method
           /\ c.params = <<>> => r.params = <<>>
<1> DEFINE f == EncodeRequest(c)
<1>1. PICK h \in {2, 3}, n \in {0, 1} : LaidOut(f, c, h, n)
  BY FramesAreLaidOut
<1> HIDE DEF f
<1>2. Header(f) = h
  BY <1>1 DEF Header, LaidOut, Callable
<1>3. r = DecodeRequest(f)
  BY DEF f
<1>4. /\ r.call = f[h + 1] /\ r.method = f[h + 2]
      /\ r.params = SubSeq(f, h + 3, Len(f))
  <2>1. r.call = f[Header(f) + 1] /\ r.method = f[Header(f) + 2]
    BY <1>3 DEF DecodeRequest
  <2>2. r.params = SubSeq(f, Header(f) + 3, Len(f))
    BY <1>3, ParamsOfRequest, Zenon
  <2> QED BY <1>2, <2>1, <2>2, Zenon
<1>5. f[h + 1] = c.call /\ f[h + 2] = c.method
  BY <1>1 DEF LaidOut
<1>6. r.protocol = IF f[2] = 255 THEN f[3] ELSE f[2] - 128
  BY <1>3 DEF DecodeRequest
<1>7. c.params = <<>> => r.params = <<>>
  <2> SUFFICES ASSUME c.params = <<>> PROVE SubSeq(f, h + 3, Len(f)) = <<>>
    BY <1>4
  <2>1. Len(f) = h + 2
    BY <1>1 DEF LaidOut
  <2>2. h + 3 \in Int /\ Len(f) \in Int /\ Len(f) < h + 3
    BY <2>1
  <2> QED BY <2>2, SubSeqEmpty
<1> QED BY <1>1, <1>4, <1>5, <1>6, <1>7, NumberIsRead

\* Of what can arrive of a call, only the whole frame and the one without the
\* parameters are requests, and both name the method that was called.
LEMMA OnlyTheParametersAreCut ==
    ASSUME NEW c, Callable(c), NEW cut \in Cuts, IsRequest(Frame(c, cut)),
           NEW r, r = DecodeRequest(Frame(c, cut))
    PROVE  /\ cut \in {"whole", "params"}
           /\ r.protocol = c.protocol /\ r.call = c.call /\ r.method = c.method
           /\ cut = "params" => r.params = <<>>
<1>1. PICK h \in {2, 3}, n \in {0, 1} : LaidOut(EncodeRequest(c), c, h, n)
  BY FramesAreLaidOut
<1> DEFINE f == EncodeRequest(c)
<1>2. Header(f) = h
  BY <1>1 DEF Header, LaidOut, Callable
<1>3. cut # "header"
  <2> SUFFICES ASSUME NEW g, g = SubSeq(f, 1, h + 1), IsRequest(g) PROVE FALSE
    BY <1>2 DEF Frame
  <2>1. PICK S : f \in Seq(S)
    BY <1>1 DEF LaidOut
  <2>2. Len(f) = h + 2 + n
    BY <1>1 DEF LaidOut
  <2>3. Len(g) = h + 1 /\ g[2] = f[2]
    <3> HIDE DEF f
    <3>1. 1 \in 1..Len(f) + 1 /\ h + 1 \in 1 - 1..Len(f)
      BY <2>2
    <3> QED BY <2>1, <2>2, <3>1, SubSeqProperties
  <2>4. Header(g) = h
    BY <1>2, <2>3 DEF Header
  <2> HIDE DEF f
  <2> QED BY <2>3, <2>4 DEF IsRequest
<1>4. cut # "size"
  <2> SUFFICES ASSUME NEW g, g = [f EXCEPT ![1] = @ - 1], IsRequest(g) PROVE FALSE
    BY DEF Frame
  <2>1. PICK S : f \in Seq(S)
    BY <1>1 DEF LaidOut
  <2>2. /\ f[1] = h + 1 + n /\ Len(f) = h + 2 + n /\ DOMAIN f = 1..(h + 2 + n)
    BY <1>1 DEF LaidOut
  <2>3. g[1] = h + n
    <3> HIDE DEF f
    <3> QED BY <2>2
  <2>4. Len(g) = h + 2 + n
    <3>1. f \in Seq(S \cup {h + n}) /\ 1 \in 1..Len(f)
      <4> HIDE DEF f
      <4> QED BY <2>1, <2>2
    <3>2. f[1] - 1 = h + n
      <4> HIDE DEF f
      <4> QED BY <2>2
    <3>3. g = [f EXCEPT ![1] = h + n]
      <4> HIDE DEF f
      <4> QED BY <3>2
    <3> HIDE DEF f
    <3> QED BY <2>2, <3>1, <3>3, ExceptSeq
  <2> QED BY <2>3, <2>4 DEF IsRequest
<1>5. cut # "answer"
  <2> SUFFICES ASSUME NEW g, NEW q, g = EncodeResponse(q), q.protocol = c.protocol, ~q.ok, IsRequest(g)
               PROVE FALSE
    BY DEF Frame
  <2>1. g[2] \in Int /\ g[2] < 128
    <3> DEFINE tail == <<0, ErrorCode[q.error], q.call>>
    <3>1. CASE c.protocol < 127
      <4>1. g = <<Len(<<c.protocol>> \o tail)>> \o (<<c.protocol>> \o tail)
        BY <3>1 DEF EncodeResponse, Sized
      <4>2. g[2] = c.protocol
        BY <4>1
      <4> QED BY <3>1, <4>2 DEF Callable
    <3>2. CASE ~(c.protocol < 127)
      <4>1. g = <<Len(<<127, c.protocol>> \o tail)>> \o (<<127, c.protocol>> \o tail)
        BY <3>2 DEF EncodeResponse, Sized
      <4>2. g[2] = 127
        BY <4>1
      <4> QED BY <4>2
    <3> QED BY <3>1, <3>2
  <2> HIDE DEF f
  <2>2. g[2] >= 128
    BY DEF IsRequest
  <2>3. ~(g[2] >= 128)
    BY <2>1
  <2> QED BY <2>2, <2>3
<1>6. CASE cut = "whole"
  BY <1>6, RequestIsRead DEF Frame
<1>7. CASE cut = "params"
  <2> DEFINE b == [c EXCEPT !.params = <<>>]
  <2>1. /\ b.protocol = c.protocol /\ b.call = c.call /\ b.method = c.method
        /\ b.params = <<>> /\ Callable(b)
    BY DEF Callable
  <2>2. r = DecodeRequest(EncodeRequest(b))
    BY <1>7 DEF Frame
  <2> HIDE DEF b
  <2> QED BY <1>7, <2>1, <2>2, RequestIsRead
<1> QED BY <1>3, <1>4, <1>5, <1>6, <1>7 DEF Cuts

LEMMA CallsAreCallable ==
    ASSUME NEW s \in Servers, NEW c \in CallsOf(s)
    PROVE  Callable(c)
<1>1. CASE c = UnknownCall
  BY <1>1 DEF UnknownCall, Callable
<1>2. ASSUME NEW p, Numbered(p), c \in CallsTo(p) PROVE Callable(c)
  <2>1. CASE c = [protocol |-> p.id, call |-> CallId, method |-> Len(p.methods) + 1, params |-> <<>>]
    BY <1>2, <2>1 DEF Callable, Numbered
  <2>2. ASSUME NEW m \in DOMAIN p.methods, NEW arg,
               c = [protocol |-> p.id, call |-> CallId, method |-> m,
                    params |-> IF p.methods[m] \in p.bare THEN <<>> ELSE <<arg>>]
        PROVE  Callable(c)
    BY <1>2, <2>2 DEF Callable, Numbered
  <2> QED BY <1>2, <2>1, <2>2 DEF CallsTo
<1>3. CASE \E i \in DOMAIN ProtocolsOf(s) : c \in CallsTo(ProtocolsOf(s)[i])
  BY <1>2, <1>3, ProtocolsAreNumbered
<1> QED BY <1>1, <1>3 DEF CallsOf

\* Where answer f to q has its fields; h is where the protocol number ends.
AnswerLaidOut(f, q, h) ==
    /\ f[2] = 127 <=> h = 3
    /\ f[h] = q.protocol
    /\ IF q.ok THEN f[h + 1] = 1 /\ f[h + 2] = q.call /\ f[h + 3] = q.method + 32768
               ELSE f[h + 1] = 0 /\ f[h + 2] = ErrorCode[q.error] /\ f[h + 3] = q.call

LEMMA AnswersAreLaidOut ==
    ASSUME NEW q, q.protocol \in Nat,
           q.ok => q.data = <<>> \/ \E x : q.data = <<x>>
    PROVE  \E h \in {2, 3} : AnswerLaidOut(EncodeResponse(q), q, h)
<1> DEFINE f == EncodeResponse(q)
<1>0. 2 \in {2, 3} /\ 3 \in {2, 3} /\ 2 # 3
  OBVIOUS
<1>1. CASE q.protocol < 127
  <2>1. q.protocol # 127
    BY <1>1
  <2>2. CASE ~q.ok
    <3>1. PICK tail : tail = <<0, ErrorCode[q.error], q.call>>
      OBVIOUS
    <3>2. f = <<Len(<<q.protocol>> \o tail)>> \o (<<q.protocol>> \o tail)
      BY <1>1, <2>2, <3>1 DEF EncodeResponse, Sized
    <3>3. f[2] = q.protocol /\ f[3] = 0 /\ f[4] = ErrorCode[q.error] /\ f[5] = q.call
      BY <3>1, <3>2
    <3> HIDE DEF f
    <3>4. AnswerLaidOut(f, q, 2)
      BY <2>1, <2>2, <3>3 DEF AnswerLaidOut
    <3> QED BY <1>0, <3>4 DEF f
  <2>3. CASE q.ok
    <3> DEFINE tail == <<1, q.call, q.method + 32768>> \o q.data
    <3>1. f = <<Len(<<q.protocol>> \o tail)>> \o (<<q.protocol>> \o tail)
      BY <1>1, <2>3 DEF EncodeResponse, Sized
    <3>2. f[2] = q.protocol /\ f[3] = 1 /\ f[4] = q.call /\ f[5] = q.method + 32768
      <4>1. CASE q.data = <<>>
        BY <3>1, <4>1
      <4>2. ASSUME NEW x, q.data = <<x>>
            PROVE  f[2] = q.protocol /\ f[3] = 1 /\ f[4] = q.call /\ f[5] = q.method + 32768
        BY <3>1, <4>2
      <4> QED BY <2>3, <4>1, <4>2
    <3> HIDE DEF f
    <3>4. AnswerLaidOut(f, q, 2)
      BY <2>1, <2>3, <3>2 DEF AnswerLaidOut
    <3> QED BY <1>0, <3>4 DEF f
  <2> QED BY <2>2, <2>3
<1>2. CASE ~(q.protocol < 127)
  <2>2. CASE ~q.ok
    <3>1. PICK tail : tail = <<0, ErrorCode[q.error], q.call>>
      OBVIOUS
    <3>2. f = <<Len(<<127, q.protocol>> \o tail)>> \o (<<127, q.protocol>> \o tail)
      BY <1>2, <2>2, <3>1 DEF EncodeResponse, Sized
    <3>3. /\ f[2] = 127 /\ f[3] = q.protocol /\ f[4] = 0 /\ f[5] = ErrorCode[q.error]
          /\ f[6] = q.call
      BY <3>1, <3>2
    <3> HIDE DEF f
    <3>4. AnswerLaidOut(f, q, 3)
      BY <2>2, <3>3 DEF AnswerLaidOut
    <3> QED BY <1>0, <3>4 DEF f
  <2>3. CASE q.ok
    <3> DEFINE tail == <<1, q.call, q.method + 32768>> \o q.data
    <3>1. f = <<Len(<<127, q.protocol>> \o tail)>> \o (<<127, q.protocol>> \o tail)
      BY <1>2, <2>3 DEF EncodeResponse, Sized
    <3>2. /\ f[2] = 127 /\ f[3] = q.protocol /\ f[4] = 1 /\ f[5] = q.call
          /\ f[6] = q.method + 32768
      <4>1. CASE q.data = <<>>
        BY <3>1, <4>1
      <4>2. ASSUME NEW x, q.data = <<x>>
            PROVE  /\ f[2] = 127 /\ f[3] = q.protocol /\ f[4] = 1 /\ f[5] = q.call
                   /\ f[6] = q.method + 32768
        BY <3>1, <4>2
      <4> QED BY <2>3, <4>1, <4>2
    <3> HIDE DEF f
    <3>4. AnswerLaidOut(f, q, 3)
      BY <2>3, <3>2 DEF AnswerLaidOut
    <3> QED BY <1>0, <3>4 DEF f
  <2> QED BY <2>2, <2>3
<1> QED BY <1>1, <1>2

\* The client reads from an answer what the server wrote into it.
LEMMA AnswersAreRead ==
    ASSUME NEW q, q.protocol \in Nat, q.ok => q.method \in Nat,
           q.ok => q.data = <<>> \/ \E x : q.data = <<x>>,
           NEW a, a = DecodeResponse(EncodeResponse(q))
    PROVE  /\ a.protocol = q.protocol /\ a.call = q.call
           /\ IF q.ok THEN a.ok /\ a.method = q.method ELSE ~a.ok /\ a.code = ErrorCode[q.error]
<1> DEFINE f == EncodeResponse(q)
<1>1. PICK h \in {2, 3} : AnswerLaidOut(f, q, h)
  BY AnswersAreLaidOut
<1> HIDE DEF f
<1>2. a = DecodeAt(f, h)
  BY <1>1 DEF DecodeResponse, AnswerLaidOut, f
<1>3. CASE q.ok
  <2>1. /\ f[h] = q.protocol /\ f[h + 1] = 1 /\ f[h + 2] = q.call
        /\ f[h + 3] = q.method + 32768
    BY <1>1, <1>3 DEF AnswerLaidOut
  <2>2. /\ a.protocol = f[h] /\ a.ok /\ a.call = f[h + 2]
        /\ a.method = f[h + 3] - 32768
    BY <1>2, <2>1 DEF DecodeAt
  <2>3. (q.method + 32768) - 32768 = q.method
    BY <1>3
  <2> QED BY <1>3, <2>1, <2>2, <2>3
<1>4. CASE ~q.ok
  <2>1. /\ f[h] = q.protocol /\ f[h + 1] = 0 /\ f[h + 2] = ErrorCode[q.error]
        /\ f[h + 3] = q.call
    BY <1>1, <1>4 DEF AnswerLaidOut
  <2>2. /\ a.protocol = f[h] /\ ~a.ok /\ a.call = f[h + 3]
        /\ a.code = f[h + 2]
    BY <1>2, <2>1, 0 # 1 DEF DecodeAt
  <2> QED BY <1>4, <2>1, <2>2
<1> QED BY <1>3, <1>4

-----------------------------------------------------------------------------
\* What the handled call leaves in last.
HandledAs(s, c, cut, r, x) ==
    /\ x \in Handle(s, conn[s], r)
    /\ conn' = [conn EXCEPT ![s] = x.user]
    /\ tickets' = tickets \cup x.made
    /\ thread' = IF x.value = "panic" THEN [thread EXCEPT ![s] = "panicked"] ELSE thread
    /\ last' = [server |-> s, user |-> conn[s], call |-> c, cut |-> cut,
                answer |-> IF x.value = "panic" THEN <<>> ELSE Answer(s, r, x)]

LEMMA HandledCall ==
    ASSUME CredentialInv, NEW s \in Servers, NEW c \in CallsOf(s), NEW cut \in Cuts,
           CallHandled(s, c, cut)
    PROVE  \E r, x :
             /\ HandledAs(s, c, cut, r, x)
             /\ x.value \in Outcomes
             /\ cut \in {"whole", "params"}
             /\ r.protocol = c.protocol /\ r.call = c.call /\ r.method = c.method
             /\ cut = "params" => r.params = <<>>
<1> DEFINE r == DecodeRequest(Frame(c, cut))
<1>1. PICK x : HandledAs(s, c, cut, r, x)
  BY DEF CallHandled, HandledAs, Call
<1>2. /\ cut \in {"whole", "params"}
      /\ r.protocol = c.protocol /\ r.call = c.call /\ r.method = c.method
      /\ cut = "params" => r.params = <<>>
  BY CallsAreCallable, OnlyTheParametersAreCut DEF CallHandled
<1> HIDE DEF r
<1>3. x.value \in Outcomes
  <2>1. conn[s] \in Credentials \cup {Nobody} /\ x \in Handle(s, conn[s], r)
    BY <1>1 DEF CredentialInv, Held, HandledAs
  <2> QED BY <2>1, HandleIsFair DEF Fair
<1> QED BY <1>1, <1>2, <1>3

\* The answer of a call, as its client reads it.
LEMMA CallsAreAnswered ==
    ASSUME CredentialInv, NEW s \in Servers, NEW c \in CallsOf(s), NEW cut \in Cuts,
           CallHandled(s, c, cut)
    PROVE  AnswersMatchTheirCalls'
<1>1. PICK r, x :
          /\ HandledAs(s, c, cut, r, x)
          /\ x.value \in Outcomes
          /\ r.protocol = c.protocol /\ r.call = c.call /\ r.method = c.method
  BY HandledCall
<1>2. last'.call = c /\ last'.answer = IF x.value = "panic" THEN <<>> ELSE Answer(s, r, x)
  BY <1>1 DEF HandledAs
<1>3. c.protocol \in Nat /\ c.method \in Nat
  BY CallsAreCallable DEF Callable
<1> SUFFICES ASSUME x.value # "panic", NEW a, a = DecodeResponse(Answer(s, r, x))
             PROVE  /\ a.protocol = c.protocol /\ a.call = c.call
                    /\ IF a.ok THEN a.method = c.method ELSE a.code \in 65537..65554
  BY <1>2 DEF AnswersMatchTheirCalls, Answered
<1>4. CASE x.value = "ok"
  <2> DEFINE q == [protocol |-> r.protocol, ok |-> TRUE, call |-> r.call, method |-> r.method,
                   data |-> IF Speaks(s, r) THEN <<"data">> ELSE <<>>]
  <2>1. a = DecodeResponse(EncodeResponse(q))
    BY <1>4 DEF Answer
  <2>2. /\ q.protocol = r.protocol /\ q.ok /\ q.call = r.call /\ q.method = r.method
        /\ q.data = <<>> \/ q.data = <<"data">>
    OBVIOUS
  <2> HIDE DEF q
  <2> QED BY <1>1, <1>3, <2>1, <2>2, AnswersAreRead
<1>5. CASE x.value # "ok"
  <2> DEFINE q == [protocol |-> r.protocol, ok |-> FALSE, call |-> r.call, error |-> x.value]
  <2>1. a = DecodeResponse(EncodeResponse(q))
    BY <1>5 DEF Answer
  <2>2. q.protocol = r.protocol /\ ~q.ok /\ q.call = r.call /\ q.error = x.value
    OBVIOUS
  <2>3. ErrorCode[x.value] \in 65537..65554
    BY <1>1, <1>5 DEF Outcomes, ErrorCode
  <2> HIDE DEF q
  <2> QED BY <1>1, <1>3, <2>1, <2>2, <2>3, AnswersAreRead
<1> QED BY <1>4, <1>5

\* The client reads its own call from every answer, for every protocol of the two
\* servers, in one byte or three, and whatever the method returns (Request::from_bytes,
\* RVSecHandler::handle and Response::to_bytes in rmc.rs).
THEOREM AnswersAreTheCallers == Spec => []AnswersMatchTheirCalls
<1>1. Init => AnswersMatchTheirCalls
  BY DEF Init, AnswersMatchTheirCalls, Answered
<1>2. CredentialInv /\ AnswersMatchTheirCalls /\ [Next]_vars => AnswersMatchTheirCalls'
  <2> SUFFICES ASSUME CredentialInv, AnswersMatchTheirCalls, [Next]_vars
               PROVE  AnswersMatchTheirCalls'
    OBVIOUS
  <2>1. ASSUME NEW s \in Servers, NEW c \in CallsOf(s), NEW cut \in Cuts, CallRefused(s, c, cut)
        PROVE  AnswersMatchTheirCalls'
    <3>1. last'.answer = <<>>
      BY <2>1 DEF CallRefused, Call
    <3> QED BY <3>1 DEF AnswersMatchTheirCalls, Answered
  <2>2. ASSUME NEW s \in Servers, NEW c \in CallsOf(s), NEW cut \in Cuts, CallHandled(s, c, cut)
        PROVE  AnswersMatchTheirCalls'
    BY <2>2, CallsAreAnswered
  <2>3. CASE last' = Nobody \/ last' = last
    BY <2>3 DEF AnswersMatchTheirCalls, Answered
  <2>4. Between \/ CallEnds \/ UNCHANGED vars => last' = Nobody \/ last' = last
    BY DEF Between, RegisterAccount, ApiLogin, DeleteAccount, Connect, Restart, CallEnds, vars
  <2> QED BY <2>1, <2>2, <2>3, <2>4 DEF Next
<1> QED BY <1>1, <1>2, CredentialsInvariant, PTL DEF Spec

\* Whether call c is of a method without parameters.
TakesNothing(s, c) ==
    \E p \in Registered(s, c.protocol) :
        c.method \in DOMAIN p.methods /\ p.methods[c.method] \in p.bare

\* Protocol::handle of a request whose parameters are missing.
LEMMA MissingParametersFail ==
    ASSUME NEW s, NEW u, NEW c, ~TakesNothing(s, c),
           NEW r, r.protocol = c.protocol, r.method = c.method, r.params = <<>>,
           NEW x \in Handle(s, u, r)
    PROVE  x.user = u /\ x.made = {} /\ x.value \notin {"ok", "panic"}
<1>1. \A e : Fails(e, u).user = u /\ Fails(e, u).made = {} /\ Fails(e, u).value = e
  BY DEF Fails, Returns
<1>2. CASE x = Fails("UnknownProtocol", u)
  BY <1>1, <1>2
<1>3. ASSUME NEW p \in Registered(s, r.protocol), x \in Dispatch(s, p, u, r)
      PROVE  x.user = u /\ x.made = {} /\ x.value \notin {"ok", "panic"}
  <2>1. r.method \in DOMAIN p.methods => ~Parses(p, p.methods[r.method], r.params)
    BY <1>3 DEF TakesNothing, Parses
  <2>2. x \in {Fails("AccessDenied", u), Fails("UnknownMethod", u), Fails("ParsingError", u)}
    BY <1>3, <2>1 DEF Dispatch
  <2> QED BY <1>1, <2>2
<1> QED BY <1>2, <1>3 DEF Handle

\* A call that is not whole, of a method with parameters.
LEMMA CutCallFails ==
    ASSUME CredentialInv, NEW s \in Servers, NEW c \in CallsOf(s), NEW cut \in Cuts,
           CallHandled(s, c, cut), cut # "whole", ~(TakesNothing(s, c) /\ cut = "params")
    PROVE  /\ UNCHANGED <<tickets, conn, thread>>
           /\ last'.answer = <<>> \/ ~DecodeResponse(last'.answer).ok
<1>1. PICK r, x :
          /\ HandledAs(s, c, cut, r, x)
          /\ cut = "params"
          /\ r.protocol = c.protocol /\ r.method = c.method /\ r.params = <<>>
  BY HandledCall
<1>2. x.user = conn[s] /\ x.made = {} /\ x.value # "ok" /\ x.value # "panic"
  BY <1>1, MissingParametersFail DEF HandledAs
<1>3. conn' = conn /\ tickets' = tickets /\ thread' = thread
  BY <1>1, <1>2 DEF HandledAs, CredentialInv, Held
<1>4. last'.answer = Answer(s, r, x)
  BY <1>1, <1>2 DEF HandledAs
<1>5. ~DecodeResponse(Answer(s, r, x)).ok
  BY <1>2, RefusalsAreRead DEF Answer
<1> QED BY <1>3, <1>4, <1>5

\* A call that did not arrive whole changes no connection, ticket or thread and gets no
\* result, but for the requests without parameters (Packet::from_bytes and the
\* from_bytes of the requests), for every protocol, method and client.
THEOREM CutCallsAreNotMade == Spec => CutCallsDoNothing
<1> DEFINE NoParameters == \E p \in Registered(last'.server, last'.call.protocol) :
                       last'.call.method \in DOMAIN p.methods /\ p.methods[last'.call.method] \in p.bare
           Harmless == /\ UNCHANGED <<tickets, conn, thread>>
                       /\ last'.answer = <<>> \/ ~DecodeResponse(last'.answer).ok
           Step == last = Nobody /\ last' # Nobody =>
                       LET bare == NoParameters
                       IN  last'.cut = "whole" \/ (bare /\ last'.cut = "params")
                               \/ /\ UNCHANGED <<tickets, conn, thread>>
                                  /\ last'.answer = <<>> \/ ~DecodeResponse(last'.answer).ok
<1>1. CredentialInv /\ [Next]_vars => [Step]_vars
  <2> SUFFICES ASSUME CredentialInv, Next PROVE Step
    OBVIOUS
  <2>1. ASSUME NEW s \in Servers, NEW c \in CallsOf(s), NEW cut \in Cuts, CallRefused(s, c, cut)
        PROVE  Step
    <3>1. Harmless
      BY <2>1 DEF CallRefused, Call, sealed
    <3> HIDE DEF NoParameters
    <3> QED BY <3>1
  <2>2. ASSUME NEW s \in Servers, NEW c \in CallsOf(s), NEW cut \in Cuts, CallHandled(s, c, cut)
        PROVE  Step
    <3>1. last'.server = s /\ last'.call = c /\ last'.cut = cut
      BY <2>2 DEF CallHandled, Call
    <3>2. TakesNothing(s, c) <=> NoParameters
      BY <3>1 DEF TakesNothing
    <3>3. cut # "whole" /\ ~(TakesNothing(s, c) /\ cut = "params") => Harmless
      BY <2>2, CutCallFails
    <3> HIDE DEF NoParameters
    <3> QED BY <3>1, <3>2, <3>3
  <2>3. Between \/ CallEnds => last' = Nobody \/ last' = last
    BY DEF Between, RegisterAccount, ApiLogin, DeleteAccount, Connect, Restart, CallEnds
  <2> QED BY <2>1, <2>2, <2>3 DEF Next
<1>2. CutCallsDoNothing <=> [][Step]_vars
  BY DEF CutCallsDoNothing
<1> QED BY <1>1, <1>2, CredentialsInvariant, PTL DEF Spec

=============================================================================
