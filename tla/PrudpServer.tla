---------------------------- MODULE PrudpServer ----------------------------
(***************************************************************************)
(* The connections of one PRUDP server, server/quazal/src/prudp.rs: SYN    *)
(* and CONNECT set a connection up, DATA and PING keep it alive,           *)
(* DISCONNECT or a minute of silence ends it, and the RMC services find a  *)
(* peer by the connection id it was given.  The server is the secure one   *)
(* of dedicated-server/src/main.rs, which sets both close handlers.        *)
(*                                                                         *)
(* One thread serves: every action of the server is one iteration of       *)
(* serve.  Packets in flight are lost, duplicated and reordered.  A player *)
(* is a game client, its address and the user its ticket names; it may     *)
(* start a connection whenever it likes, keep using an old one, or stop.   *)
(***************************************************************************)
EXTENDS Integers, FiniteSets

CONSTANTS
    Players,    \* game clients
    Nobody,     \* no user, no connection id
    MaxSyns,    \* bound: SYNs handled in a behaviour
    MaxNet      \* bound: packets in flight to the server

ASSUME NobodyAssumption == Nobody \notin Players /\ Nobody \notin Nat
ASSUME BoundsAssumption == MaxSyns \in Nat /\ MaxNet \in Nat

Sigs == 1..MaxSyns

VARIABLES
    net,         \* environment: packets in flight to the server
    told,        \* environment: signatures a SYN's answer gave to each player
    joined,      \* environment: connections whose CONNECT's answer arrived
    syns,        \* signatures drawn so far: rand::random does not repeat itself
    newClients,  \* new_clients: signature -> ClientInfo
    clients,     \* client_registry.clients
    cids,        \* client_registry.connection_id_session_ids
    nextConnId,  \* next_conn_id, counted from its first value
    closes,      \* how often the close handlers were given each connection
    registered,  \* connection ids the players were told by Register: [cid, to]
    probes,      \* InitiateProbe requests sent to peers: [cid, to]
    thread       \* "serving", or the panic that ended the server's thread

environment == <<net, told, joined>>
registry    == <<syns, newClients, clients, cids, nextConnId, closes>>
services    == <<registered, probes, thread>>
vars        == <<environment, registry, services>>

Empty == [x \in {} |-> Nobody]

Add(f, x, v) == [y \in DOMAIN f \cup {x} |-> IF y = x THEN v ELSE f[y]]
Drop(f, S)   == [y \in DOMAIN f \ S |-> f[y]]

\* ClientInfo::new: what the server knows of a client when its SYN arrives.
NewClientInfo(p) == [addr |-> p, user |-> Nobody, cid |-> Nobody, silent |-> FALSE]

Init ==
    /\ net = {}
    /\ told = [p \in Players |-> {}]
    /\ joined = [p \in Players |-> {}]
    /\ syns = 0
    /\ newClients = Empty
    /\ clients = Empty
    /\ cids = Empty
    /\ nextConnId = 0
    /\ closes = [s \in Sigs |-> 0]
    /\ registered = {}
    /\ probes = {}
    /\ thread = "serving"

-----------------------------------------------------------------------------
\* The players, the network and the clock.

\* What a CONNECT carries: no ticket, or one that is expired or cannot be opened;
\* or a valid one, whether or not the request data after it can be read.
Tickets == {"refused", "valid"}

\* The calls a DATA packet carries that concern the registry: Register or
\* RegisterEx, and RequestProbeInitiationExt with the RVCID of a peer.  To the
\* registry any other call is a PING.
Calls == {[name |-> "register", target |-> Nobody]}
             \cup [name : {"probe"}, target : {r.cid : r \in registered}]

PacketsOf(p) ==
    [type : {"syn"}, from : {p}]
        \cup [type : {"connect"}, from : {p}, sig : told[p], ticket : Tickets]
        \cup [type : {"data"}, from : {p}, sig : joined[p], call : Calls]
        \cup [type : {"ping", "disconnect"}, from : {p}, sig : joined[p]]

Send(p) ==
    /\ Cardinality(net) < MaxNet
    /\ \E k \in PacketsOf(p) \ net : net' = net \cup {k}
    /\ UNCHANGED <<told, joined, registry, services>>

Lose(k) ==
    /\ net' = net \ {k}
    /\ UNCHANGED <<told, joined, registry, services>>

\* SESSION_TIMEOUT passes since the client behind s was last seen.
Silence(s) ==
    \/ /\ s \in DOMAIN clients
       /\ ~clients[s].silent
       /\ clients' = [clients EXCEPT ![s].silent = TRUE]
       /\ UNCHANGED <<environment, syns, newClients, cids, nextConnId, closes, services>>
    \/ /\ s \in DOMAIN newClients
       /\ ~newClients[s].silent
       /\ newClients' = [newClients EXCEPT ![s].silent = TRUE]
       /\ UNCHANGED <<environment, syns, clients, cids, nextConnId, closes, services>>

-----------------------------------------------------------------------------
\* The server.

\* recv_from returns packet k; the network may hold another copy of it.
Receive(k) ==
    /\ thread = "serving"
    /\ net' \in {net, net \ {k}}

\* handle_syn. A duplicate makes a client of its own.
HandleSyn(k) ==
    /\ k.type = "syn"
    /\ Receive(k)
    /\ syns < MaxSyns
    /\ syns' = syns + 1
    /\ newClients' = Add(newClients, syns + 1, NewClientInfo(k.from))
    /\ told' \in {told, [told EXCEPT ![k.from] = @ \cup {syns + 1}]}
    /\ UNCHANGED <<joined, clients, cids, nextConnId, closes, services>>

\* Mutant: the SYN is looked up and left where it is.
TakeNewClient_Keeps(s) == s \in DOMAIN newClients /\ UNCHANGED newClients

\* new_clients.remove.
TakeNewClient(s) == s \in DOMAIN newClients /\ newClients' = Drop(newClients, {s})

\* Mutant: load for fetch_add, an id is given twice.
NextId_Load == nextConnId

NextId == nextConnId + 1

\* handle_connect. A ticket that opens names the user and brings an id, before
\* the request data is read; last_seen stays that of the SYN.
HandleConnect(k) ==
    /\ k.type = "connect"
    /\ Receive(k)
    /\ TakeNewClient(k.sig)
    /\ IF k.ticket = "valid"
       THEN /\ clients' = Add(clients, k.sig,
                   [newClients[k.sig] EXCEPT !.user = k.from, !.cid = nextConnId])
            /\ cids' = Add(cids, nextConnId, k.sig)
            /\ nextConnId' = NextId
       ELSE /\ clients' = Add(clients, k.sig, newClients[k.sig])
            /\ UNCHANGED <<cids, nextConnId>>
    /\ joined' \in {joined, [joined EXCEPT ![k.from] = @ \cup {k.sig}]}
    /\ UNCHANGED <<told, syns, closes, services>>

Seen(s) == clients' = [clients EXCEPT ![s].silent = FALSE]

HandlePing(k) ==
    /\ k.type = "ping"
    /\ Receive(k)
    /\ k.sig \in DOMAIN clients
    /\ Seen(k.sig)
    /\ UNCHANGED <<told, joined, syns, newClients, cids, nextConnId, closes, services>>

\* register and register_ex of secure.rs, behind login_required: the answer
\* names the caller's connection id, which is unwrapped.
Register(k, ci) ==
    /\ k.call.name = "register"
    /\ IF ci.user # Nobody /\ ci.cid = Nobody
       THEN thread' = "unwrap" /\ UNCHANGED registered
       ELSE /\ registered' \in IF ci.user = Nobody THEN {registered}
                ELSE {registered, registered \cup {[cid |-> ci.cid, to |-> k.from]}}
            /\ UNCHANGED thread
    /\ UNCHANGED probes

\* Mutant: the lookup takes the id itself for the signature.
ClientByConnectionId_Confused(id) ==
    IF id + 1 \in DOMAIN clients THEN {id + 1} ELSE {}

\* client_by_connection_id: through the signature the id is kept with.
ClientByConnectionId(id) ==
    IF id \in DOMAIN cids THEN {cids[id]} \cap DOMAIN clients ELSE {}

\* request_probe_initiation_ext, for one station of the list: the peer is
\* borrowed while handle_data holds the caller.
RequestProbe(k, ci) ==
    /\ k.call.name = "probe"
    /\ LET target == ClientByConnectionId(k.call.target)
       IN  IF ci.user # Nobody /\ k.sig \in target
           THEN thread' = "borrow" /\ UNCHANGED probes
           ELSE /\ probes' = probes \cup (IF ci.user = Nobody THEN {}
                    ELSE {[cid |-> k.call.target, to |-> clients[s].addr] : s \in target})
                /\ UNCHANGED thread
    /\ UNCHANGED registered

HandleData(k) ==
    /\ k.type = "data"
    /\ Receive(k)
    /\ k.sig \in DOMAIN clients
    /\ Seen(k.sig)
    /\ Register(k, clients[k.sig]) \/ RequestProbe(k, clients[k.sig])
    /\ UNCHANGED <<told, joined, syns, newClients, cids, nextConnId, closes>>

\* The clients of S leave the registry and go to the close handler.
Closed(S) ==
    /\ clients' = Drop(clients, S)
    /\ closes' = [s \in Sigs |-> closes[s] + (IF s \in S THEN 1 ELSE 0)]

\* The connection id of the client stays in connection_id_session_ids.
HandleDisconnect(k) ==
    /\ k.type = "disconnect"
    /\ Receive(k)
    /\ k.sig \in DOMAIN clients
    /\ Closed({k.sig})
    /\ UNCHANGED <<told, joined, syns, newClients, cids, nextConnId, services>>

\* A CONNECT that is repeated, and a packet of a client that is not in the
\* registry any more, are dropped without an answer.
DropUnknown(k) ==
    /\ Receive(k)
    /\ \/ k.type = "connect" /\ k.sig \notin DOMAIN newClients
       \/ k.type \in {"data", "ping", "disconnect"} /\ k.sig \notin DOMAIN clients
    /\ UNCHANGED <<told, joined, registry, services>>

\* Mutant: only clients that have logged in expire.
Expired_LoggedIn == {s \in DOMAIN clients : clients[s].silent /\ clients[s].user # Nobody}

Expired == {s \in DOMAIN clients : clients[s].silent}

\* clear_clients, when no packet has come for a second.
ReceiveTimesOut ==
    /\ thread = "serving"
    /\ Expired # {}
    /\ Closed(Expired)
    /\ cids' = Drop(cids, {clients[s].cid : s \in Expired})
    /\ UNCHANGED <<environment, syns, newClients, nextConnId, services>>

Next ==
    \/ \E p \in Players : Send(p)
    \/ \E s \in Sigs : Silence(s)
    \/ ReceiveTimesOut
    \/ \E k \in net :
           \/ Lose(k)
           \/ HandleSyn(k) \/ HandleConnect(k) \/ HandlePing(k) \/ HandleData(k)
           \/ HandleDisconnect(k) \/ DropUnknown(k)

Spec == Init /\ [][Next]_vars

\* An iteration of serve: the next packet, or a second without one.
Serves ==
    \/ ReceiveTimesOut
    \/ \E k \in net :
           \/ HandleSyn(k) \/ HandleConnect(k) \/ HandlePing(k) \/ HandleData(k)
           \/ HandleDisconnect(k) \/ DropUnknown(k)

\* The clock runs and the server's thread serves.  Nothing makes a receive time
\* out: packets that keep coming may take every iteration.
Fairness ==
    /\ \A s \in Sigs : WF_vars(Silence(s))
    /\ WF_vars(Serves)

FairSpec == Spec /\ Fairness

-----------------------------------------------------------------------------
\* Properties.

ClientInfo ==
    [addr : Players, user : Players \cup {Nobody}, cid : Nat \cup {Nobody}, silent : BOOLEAN]

PacketTypes == {"syn", "connect", "data", "ping", "disconnect"}

Reached == [cid : Nat, to : Players]

\* Type correctness of the server's tables and of its environment.
TypeOK ==
    /\ \A k \in net : k.from \in Players /\ k.type \in PacketTypes
    /\ told \in [Players -> SUBSET Sigs] /\ joined \in [Players -> SUBSET Sigs]
    /\ syns \in 0..MaxSyns
    /\ DOMAIN newClients \subseteq 1..syns /\ newClients \in [DOMAIN newClients -> ClientInfo]
    /\ DOMAIN clients \subseteq 1..syns /\ clients \in [DOMAIN clients -> ClientInfo]
    /\ DOMAIN cids \subseteq Nat /\ cids \in [DOMAIN cids -> Sigs]
    /\ nextConnId \in Nat
    /\ closes \in [Sigs -> Nat]
    /\ registered \subseteq Reached /\ probes \subseteq Reached
    /\ thread \in {"serving", "unwrap", "borrow"}

\* A client that logged in has an id, the id leads back to it and to nobody else
\* for as long as it is connected; an id that outlives its connection leads
\* nowhere.  So register's unwrap and the lookup of a peer are safe.
IdsNameTheirConnection ==
    /\ \A s \in DOMAIN clients :
           IF clients[s].user = Nobody THEN clients[s].cid = Nobody
           ELSE clients[s].cid \in DOMAIN cids /\ cids[clients[s].cid] = s
    /\ \A id \in DOMAIN cids : cids[id] \in DOMAIN clients => clients[cids[id]].cid = id
    /\ thread # "unwrap"

\* A probe that carries a connection id only reaches the player who was given
\* that id, whatever closed, expired or connected again in between.
ProbesReachTheRegistrant ==
    \A pr \in probes, r \in registered : pr.cid = r.cid => pr.to = r.to

\* Once the traffic to the server ends, every connection does, although nobody
\* tells the server: clear_clients finds them all, logged in or not, whatever was
\* lost before; unless its thread is dead.  As long as packets keep coming nobody
\* need expire, and entries of new_clients without a CONNECT never go.
IdleClientsExpire ==
    <>[](net = {}) => <>[](thread # "serving" \/ clients = Empty)

-----------------------------------------------------------------------------
\* The server implements Connections: the connections that are open are the
\* clients in the registry.

OpenConnections == [s \in DOMAIN clients |-> [user |-> clients[s].user, id |-> clients[s].cid]]

C == INSTANCE Connections WITH
        Handles <- Sigs, Users <- Players, Nobody <- Nobody,
        open <- OpenConnections, issued <- 0..nextConnId - 1, closes <- closes

\* Every step of the server is a step the handlers of main.rs and the services
\* expect: nobody is closed twice, loses its id, or appears under another's.
ConnectionsSpec == C!Spec
=============================================================================
