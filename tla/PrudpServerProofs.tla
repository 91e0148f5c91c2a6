-------------------------- MODULE PrudpServerProofs --------------------------
(***************************************************************************)
(* What TLAPS proves of PrudpServer for every set of players, and any      *)
(* number of connections: an id leads to the connection it was given to or *)
(* nowhere, a probe reaches nobody but the player who registered with the  *)
(* id, and the server implements Connections.                              *)
(*                                                                         *)
(* IdsNameTheirConnection is inductive once the tables are known to be     *)
(* disjoint (Lifecycle): a signature is in new_clients, then in clients,   *)
(* then closed, and never goes back.  Where a probe goes also depends on   *)
(* who uses a signature (Belongs): the server looks at the signature of a  *)
(* packet only, and the signature was told to one player.                  *)
(***************************************************************************)
EXTENDS PrudpServer, TLAPS

CallType == [name : {"register"}, target : {Nobody}] \cup [name : {"probe"}, target : Nat]

\* Packets in flight carry a signature that was told to their sender.
NetOK ==
    \A k \in net :
        /\ k.from \in Players
        /\ k.type \in PacketTypes
        /\ k.type # "syn" => k.sig \in told[k.from]
        /\ k.type = "data" => k.call \in CallType

Belongs ==
    \A p \in Players :
        /\ joined[p] \subseteq told[p]
        /\ \A s \in told[p] :
               /\ s \in 1..syns
               /\ s \in DOMAIN newClients => newClients[s].addr = p
               /\ s \in DOMAIN clients => clients[s].addr = p

Lifecycle ==
    /\ \A s \in Sigs : closes[s] # 0 => s \notin DOMAIN newClients /\ s \notin DOMAIN clients /\ s \in 1..syns
    /\ \A s \in DOMAIN newClients :
           /\ s \notin DOMAIN clients
           /\ newClients[s].user = Nobody /\ newClients[s].cid = Nobody
    /\ \A id \in DOMAIN cids : cids[id] \in 1..syns /\ cids[id] \notin DOMAIN newClients

Given ==
    /\ \A id \in DOMAIN cids : id < nextConnId
    /\ \A r \in registered \cup probes :
           /\ r.cid < nextConnId
           /\ \A s \in DOMAIN clients : clients[s].cid = r.cid => clients[s].addr = r.to

ServerInv ==
    /\ TypeOK
    /\ NetOK
    /\ Belongs
    /\ Lifecycle
    /\ Given
    /\ IdsNameTheirConnection
    /\ ProbesReachTheRegistrant

-----------------------------------------------------------------------------
\* The initial state.
LEMMA InitInv == Init => ServerInv
  <1> SUFFICES ASSUME Init PROVE ServerInv OBVIOUS
  <1> USE DEF Init, Empty
  <1>1. TypeOK
    BY BoundsAssumption DEF TypeOK, Sigs
  <1>2. NetOK /\ Belongs /\ Lifecycle /\ Given
    BY DEF NetOK, Belongs, Lifecycle, Given
  <1>3. IdsNameTheirConnection /\ ProbesReachTheRegistrant
    BY DEF IdsNameTheirConnection, ProbesReachTheRegistrant
  <1> QED BY <1>1, <1>2, <1>3 DEF ServerInv

-----------------------------------------------------------------------------
\* Steps of the environment.

\* A packet is sent, lost, or its sender stops: the server sees nothing of it.
LEMMA EnvironmentStep ==
    ASSUME ServerInv,
           \/ \E p \in Players : Send(p)
           \/ \E k \in net : Lose(k) \/ DropUnknown(k)
    PROVE  ServerInv'
  <1>1. UNCHANGED <<told, joined, registry, registered, probes, thread>>
    BY DEF Send, Lose, DropUnknown, registry, services
  <1>2. NetOK'
    <2> SUFFICES ASSUME NEW k \in net' PROVE
            /\ k.from \in Players
            /\ k.type \in PacketTypes
            /\ k.type # "syn" => k.sig \in told[k.from]
            /\ k.type = "data" => k.call \in CallType
      BY <1>1 DEF NetOK
    <2>1. CASE k \in net
      BY <2>1 DEF ServerInv, NetOK
    <2>2. CASE k \notin net
      <3>1. PICK p \in Players : k \in PacketsOf(p)
        BY <2>2 DEF Send, Lose, DropUnknown, Receive
      <3>2. joined[p] \subseteq told[p] /\ {r.cid : r \in registered} \subseteq Nat
        BY DEF ServerInv, Belongs, TypeOK, Reached
      <3>3. Calls \subseteq CallType
        BY <3>2 DEF Calls, CallType
      <3> QED BY <3>1, <3>2, <3>3 DEF PacketsOf, PacketTypes
    <2> QED BY <2>1, <2>2
  <1>4. TypeOK'
    <2>1. \A k \in net' : k.from \in Players /\ k.type \in PacketTypes
      BY <1>2 DEF NetOK
    <2> QED BY <1>1, <2>1 DEF TypeOK, ServerInv, registry
  <1>5. Belongs' /\ Lifecycle' /\ Given' /\ IdsNameTheirConnection' /\ ProbesReachTheRegistrant'
    BY <1>1 DEF ServerInv, registry, Belongs, Lifecycle, Given, IdsNameTheirConnection, ProbesReachTheRegistrant, Sigs
  <1> QED BY <1>2, <1>4, <1>5 DEF ServerInv

-----------------------------------------------------------------------------
\* Functions with one entry more, or some fewer.

LEMMA AddFact ==
    ASSUME NEW f, NEW x, NEW v
    PROVE  /\ DOMAIN Add(f, x, v) = DOMAIN f \cup {x}
           /\ Add(f, x, v)[x] = v
           /\ \A y \in DOMAIN f : y # x => Add(f, x, v)[y] = f[y]
           /\ Add(f, x, v) = [y \in DOMAIN Add(f, x, v) |-> Add(f, x, v)[y]]
  BY DEF Add

LEMMA DropFact ==
    ASSUME NEW f, NEW S
    PROVE  /\ DOMAIN Drop(f, S) = DOMAIN f \ S
           /\ \A y \in DOMAIN f \ S : Drop(f, S)[y] = f[y]
           /\ Drop(f, S) = [y \in DOMAIN Drop(f, S) |-> Drop(f, S)[y]]
  BY DEF Drop

\* A function with values in R stays one.
LEMMA AddType ==
    ASSUME NEW f, NEW R, f \in [DOMAIN f -> R], NEW x, NEW v \in R
    PROVE  Add(f, x, v) \in [DOMAIN Add(f, x, v) -> R]
  BY DEF Add

LEMMA DropType ==
    ASSUME NEW f, NEW R, f \in [DOMAIN f -> R], NEW S
    PROVE  Drop(f, S) \in [DOMAIN Drop(f, S) -> R]
  BY DEF Drop

-----------------------------------------------------------------------------
\* Steps of the server.

\* What a receive leaves of the network.
LEMMA ReceiveFact ==
    ASSUME NEW k, Receive(k)
    PROVE  net' \subseteq net
  BY DEF Receive

\* The clock: only how long a client has been silent changes.
LEMMA SilenceStep ==
    ASSUME ServerInv, NEW s \in Sigs, Silence(s)
    PROVE  ServerInv'
  <1> USE DEF ServerInv, Silence, environment, services
  <1>1. CASE s \in DOMAIN clients /\ clients' = [clients EXCEPT ![s].silent = TRUE] /\ UNCHANGED <<environment, syns, newClients, cids, nextConnId, closes, services>>
    <2>1. /\ DOMAIN clients' = DOMAIN clients
          /\ \A t \in DOMAIN clients : /\ clients'[t].user = clients[t].user
                                        /\ clients'[t].cid = clients[t].cid
                                        /\ clients'[t].addr = clients[t].addr
          /\ clients' \in [DOMAIN clients' -> ClientInfo]
      BY <1>1 DEF TypeOK, ClientInfo
    <2>2. TypeOK'
      BY <1>1, <2>1 DEF TypeOK
    <2>3. NetOK' /\ Belongs' /\ Lifecycle' /\ Given' /\ IdsNameTheirConnection' /\ ProbesReachTheRegistrant'
      BY <1>1, <2>1 DEF NetOK, Belongs, Lifecycle, Given, IdsNameTheirConnection, ProbesReachTheRegistrant, TypeOK
    <2> QED BY <2>2, <2>3
  <1>2. CASE s \in DOMAIN newClients /\ newClients' = [newClients EXCEPT ![s].silent = TRUE] /\ UNCHANGED <<environment, syns, clients, cids, nextConnId, closes, services>>
    <2>1. /\ DOMAIN newClients' = DOMAIN newClients
          /\ \A t \in DOMAIN newClients : /\ newClients'[t].user = newClients[t].user
                                           /\ newClients'[t].cid = newClients[t].cid
                                           /\ newClients'[t].addr = newClients[t].addr
          /\ newClients' \in [DOMAIN newClients' -> ClientInfo]
      BY <1>2 DEF TypeOK, ClientInfo
    <2>2. TypeOK'
      BY <1>2, <2>1 DEF TypeOK
    <2>3. NetOK' /\ Belongs' /\ Lifecycle' /\ Given' /\ IdsNameTheirConnection' /\ ProbesReachTheRegistrant'
      BY <1>2, <2>1 DEF NetOK, Belongs, Lifecycle, Given, IdsNameTheirConnection, ProbesReachTheRegistrant, TypeOK
    <2> QED BY <2>2, <2>3
  <1> QED BY <1>1, <1>2

\* A SYN adds a client that nobody was told of before.
LEMMA SynStep ==
    ASSUME ServerInv, NEW k \in net, HandleSyn(k)
    PROVE  ServerInv'
  <1> DEFINE n == syns + 1
  <1> USE DEF ServerInv
  <1>1. /\ net' \subseteq net
        /\ syns \in Nat /\ n \in Sigs /\ syns' = n /\ n \notin 1..syns
        /\ newClients' = Add(newClients, n, NewClientInfo(k.from))
        /\ told' \in {told, [told EXCEPT ![k.from] = @ \cup {n}]}
        /\ UNCHANGED <<joined, clients, cids, nextConnId, closes, registered, probes, thread>>
    BY ReceiveFact, BoundsAssumption DEF HandleSyn, TypeOK, Sigs, services
  <1>2. n \notin DOMAIN newClients /\ n \notin DOMAIN clients /\ DOMAIN newClients' = DOMAIN newClients \cup {n}
    BY <1>1, AddFact DEF TypeOK
  <1>3. /\ newClients'[n] = NewClientInfo(k.from)
        /\ \A t \in DOMAIN newClients : newClients'[t] = newClients[t]
    BY <1>1, <1>2 DEF Add
  <1>4. k.from \in Players /\ NewClientInfo(k.from) \in ClientInfo
    BY DEF TypeOK, NewClientInfo, ClientInfo
  <1>5. \A p \in Players : told'[p] \in SUBSET (told[p] \cup {n}) /\ told[p] \subseteq told'[p]
                           /\ (n \in told'[p] /\ n \notin told[p] => p = k.from)
    BY <1>1 DEF TypeOK
  <1>6. \A p \in Players : n \notin told[p]
    BY <1>1 DEF Belongs
  <1>7. TypeOK'
    <2>1. newClients' \in [DOMAIN newClients' -> ClientInfo]
      BY <1>1, <1>4, AddType DEF TypeOK
    <2>2. DOMAIN newClients' \subseteq 1..syns' /\ DOMAIN clients' \subseteq 1..syns' /\ syns' \in 0..MaxSyns
      BY <1>1, <1>2, BoundsAssumption DEF TypeOK, Sigs
    <2>3. told' \in [Players -> SUBSET Sigs]
      BY <1>1, <1>4 DEF TypeOK
    <2> QED BY <1>1, <2>1, <2>2, <2>3 DEF TypeOK
  <1>8. NetOK'
    BY <1>1, <1>5 DEF NetOK
  <1>9. Belongs'
    <2> SUFFICES ASSUME NEW p \in Players
                 PROVE  /\ joined'[p] \subseteq told'[p]
                        /\ \A s \in told'[p] :
                               /\ s \in 1..syns'
                               /\ s \in DOMAIN newClients' => newClients'[s].addr = p
                               /\ s \in DOMAIN clients' => clients'[s].addr = p
      BY DEF Belongs
    <2>1. joined'[p] \subseteq told'[p]
      BY <1>1, <1>5 DEF Belongs
    <2>2. ASSUME NEW s \in told'[p], s # n
          PROVE  /\ s \in 1..syns'
                 /\ s \in DOMAIN newClients' => newClients'[s].addr = p
                 /\ s \in DOMAIN clients' => clients'[s].addr = p
      <3>1. s \in told[p]
        BY <1>5, <2>2
      <3> QED BY <3>1, <1>1, <1>2, <1>3, <2>2 DEF Belongs
    <2>3. ASSUME n \in told'[p]
          PROVE  /\ n \in 1..syns'
                 /\ newClients'[n].addr = p
                 /\ n \notin DOMAIN clients'
      BY <1>1, <1>2, <1>3, <1>5, <1>6, <2>3 DEF NewClientInfo
    <2> QED BY <2>1, <2>2, <2>3
  <1>10. Lifecycle'
    <2>1. \A s \in Sigs : closes'[s] # 0 => s \notin DOMAIN newClients' /\ s \notin DOMAIN clients' /\ s \in 1..syns'
      BY <1>1, <1>2 DEF Lifecycle
    <2>2. \A s \in DOMAIN newClients' :
           /\ s \notin DOMAIN clients'
           /\ newClients'[s].user = Nobody /\ newClients'[s].cid = Nobody
      <3>1. NewClientInfo(k.from).user = Nobody /\ NewClientInfo(k.from).cid = Nobody
        BY DEF NewClientInfo
      <3>2. \A s \in DOMAIN newClients :
                s \notin DOMAIN clients /\ newClients[s].user = Nobody /\ newClients[s].cid = Nobody
        BY DEF Lifecycle
      <3> QED BY <1>1, <1>2, <1>3, <3>1, <3>2
    <2>3. \A id \in DOMAIN cids' : cids'[id] \in 1..syns' /\ cids'[id] \notin DOMAIN newClients'
      <3> SUFFICES ASSUME NEW id \in DOMAIN cids PROVE cids[id] \in 1..n /\ cids[id] \notin DOMAIN newClients'
        BY <1>1
      <3>1. cids[id] \in 1..syns /\ cids[id] \notin DOMAIN newClients
        BY DEF Lifecycle
      <3> QED BY <3>1, <1>1, <1>2
    <2> QED BY <2>1, <2>2, <2>3 DEF Lifecycle
  <1>11. Given' /\ IdsNameTheirConnection' /\ ProbesReachTheRegistrant'
    BY <1>1 DEF Given, IdsNameTheirConnection, ProbesReachTheRegistrant
  <1> QED BY <1>7, <1>8, <1>9, <1>10, <1>11

\* A CONNECT moves the client, and a valid ticket gives it the next id.
LEMMA ConnectStep ==
    ASSUME ServerInv, NEW k \in net, HandleConnect(k)
    PROVE  ServerInv'
  <1> DEFINE s == k.sig
             logged == k.ticket = "valid"
             ci == IF logged THEN [newClients[s] EXCEPT !.user = k.from, !.cid = nextConnId] ELSE newClients[s]
  <1> USE DEF ServerInv
  <1>1. /\ net' \subseteq net
        /\ s \in DOMAIN newClients /\ newClients' = Drop(newClients, {s})
        /\ clients' = Add(clients, s, ci)
        /\ cids' = IF logged THEN Add(cids, nextConnId, s) ELSE cids
        /\ nextConnId' = IF logged THEN nextConnId + 1 ELSE nextConnId
        /\ joined' \in {joined, [joined EXCEPT ![k.from] = @ \cup {s}]}
        /\ UNCHANGED <<told, syns, closes, registered, probes, thread>>
    BY ReceiveFact DEF HandleConnect, TakeNewClient, NextId, services
  <1>2. /\ k.from \in Players /\ s \in told[k.from] /\ s \in 1..syns /\ s \in Sigs
        /\ s \notin DOMAIN clients
        /\ newClients[s] \in ClientInfo /\ newClients[s].addr = k.from
        /\ newClients[s].user = Nobody /\ newClients[s].cid = Nobody
        /\ nextConnId \in Nat /\ nextConnId \notin DOMAIN cids
    <2>1. k.from \in Players /\ s \in told[k.from]
      BY DEF NetOK, HandleConnect
    <2>2. s \in 1..syns /\ s \in Sigs /\ newClients[s].addr = k.from
      BY <1>1, <2>1, BoundsAssumption DEF Belongs, TypeOK, Sigs
    <2>3. nextConnId \in Nat /\ nextConnId \notin DOMAIN cids
      BY DEF Given, TypeOK
    <2>4. newClients[s] \in ClientInfo
      BY <1>1 DEF TypeOK
    <2> QED BY <1>1, <2>1, <2>2, <2>3, <2>4 DEF Lifecycle
  <1>3. /\ ci \in ClientInfo /\ ci.addr = k.from
        /\ ci.user = (IF logged THEN k.from ELSE Nobody)
        /\ ci.cid = (IF logged THEN nextConnId ELSE Nobody)
    BY <1>2 DEF ClientInfo
  <1> HIDE DEF ci
  <1>4. /\ DOMAIN clients' = DOMAIN clients \cup {s} /\ clients'[s] = ci
        /\ \A t \in DOMAIN clients : clients'[t] = clients[t]
    BY <1>1, <1>2 DEF Add
  <1>5. DOMAIN newClients' = DOMAIN newClients \ {s} /\ \A t \in DOMAIN newClients' : newClients'[t] = newClients[t]
    BY <1>1 DEF Drop
  <1>6. logged => /\ DOMAIN cids' = DOMAIN cids \cup {nextConnId} /\ cids'[nextConnId] = s
                  /\ \A id \in DOMAIN cids : cids'[id] = cids[id]
    BY <1>1, <1>2 DEF Add
  <1>7. \A p \in Players : joined'[p] \subseteq told[p] /\ joined'[p] \subseteq Sigs
    BY <1>1, <1>2 DEF Belongs, TypeOK
  <1>8. TypeOK'
    <2>1. newClients' \in [DOMAIN newClients' -> ClientInfo] /\ clients' \in [DOMAIN clients' -> ClientInfo]
      BY <1>1, <1>3, AddType, DropType DEF TypeOK
    <2>2. cids' \in [DOMAIN cids' -> Sigs] /\ DOMAIN cids' \subseteq Nat
      BY <1>1, <1>2, <1>6, AddType DEF TypeOK
    <2>3. joined' \in [Players -> SUBSET Sigs]
      BY <1>1, <1>2, <1>7 DEF TypeOK
    <2>4. nextConnId' \in Nat
      BY <1>1, <1>2
    <2>5. DOMAIN newClients' \subseteq 1..syns /\ DOMAIN clients' \subseteq 1..syns
      BY <1>2, <1>4, <1>5 DEF TypeOK
    <2>6. \A q \in net' : q.from \in Players /\ q.type \in PacketTypes
      BY <1>1 DEF TypeOK
    <2> QED BY <1>1, <2>1, <2>2, <2>3, <2>4, <2>5, <2>6 DEF TypeOK
  <1>9. NetOK'
    BY <1>1 DEF NetOK
  <1>10. Belongs'
    <2> SUFFICES ASSUME NEW p \in Players, NEW t \in told[p]
                 PROVE  /\ t \in 1..syns
                        /\ t \in DOMAIN newClients' => newClients'[t].addr = p
                        /\ t \in DOMAIN clients' => clients'[t].addr = p
      BY <1>1, <1>7 DEF Belongs
    <2>1. CASE t = s
      BY <2>1, <1>1, <1>2, <1>3, <1>4, <1>5 DEF Belongs
    <2>2. CASE t # s
      BY <2>2, <1>4, <1>5 DEF Belongs
    <2> QED BY <2>1, <2>2
  <1>11. Lifecycle'
    <2>1. \A t \in Sigs : closes'[t] # 0 => t \notin DOMAIN newClients' /\ t \notin DOMAIN clients' /\ t \in 1..syns'
      BY <1>1, <1>2, <1>4, <1>5 DEF Lifecycle
    <2>2. \A t \in DOMAIN newClients' :
           /\ t \notin DOMAIN clients'
           /\ newClients'[t].user = Nobody /\ newClients'[t].cid = Nobody
      BY <1>4, <1>5 DEF Lifecycle
    <2>3. \A id \in DOMAIN cids' : cids'[id] \in 1..syns' /\ cids'[id] \notin DOMAIN newClients'
      <3> SUFFICES ASSUME NEW id \in DOMAIN cids' PROVE cids'[id] \in 1..syns /\ cids'[id] \notin DOMAIN newClients'
        BY <1>1
      <3>1. CASE logged /\ id = nextConnId
        BY <3>1, <1>2, <1>5, <1>6
      <3>2. CASE ~(logged /\ id = nextConnId)
        <4>1. id \in DOMAIN cids /\ cids'[id] = cids[id]
          BY <3>2, <1>1, <1>6
        <4> QED BY <4>1, <1>5 DEF Lifecycle
      <3> QED BY <3>1, <3>2
    <2> QED BY <2>1, <2>2, <2>3 DEF Lifecycle
  <1>12. Given'
    <2>1. \A id \in DOMAIN cids' : id < nextConnId'
      BY <1>1, <1>2, <1>6 DEF Given, TypeOK
    <2> SUFFICES ASSUME NEW r \in registered \cup probes
                 PROVE  /\ r.cid < nextConnId'
                        /\ \A t \in DOMAIN clients' : clients'[t].cid = r.cid => clients'[t].addr = r.to
      BY <1>1, <2>1 DEF Given
    <2>2. r.cid \in Nat /\ r.cid < nextConnId
      BY DEF Given, TypeOK, Reached
    <2>3. r.cid # ci.cid
      BY <1>2, <1>3, <2>2, NobodyAssumption
    <2> QED BY <1>1, <1>2, <1>4, <2>2, <2>3 DEF Given
  <1>13. IdsNameTheirConnection'
    <2>1. \A t \in DOMAIN clients' :
              IF clients'[t].user = Nobody THEN clients'[t].cid = Nobody
              ELSE clients'[t].cid \in DOMAIN cids' /\ cids'[clients'[t].cid] = t
      <3>1. IF ci.user = Nobody THEN ci.cid = Nobody ELSE ci.cid \in DOMAIN cids' /\ cids'[ci.cid] = s
        BY <1>2, <1>3, <1>6, NobodyAssumption
      <3>2. \A t \in DOMAIN clients :
              IF clients[t].user = Nobody THEN clients[t].cid = Nobody
              ELSE clients[t].cid \in DOMAIN cids' /\ cids'[clients[t].cid] = t
        BY <1>1, <1>6 DEF IdsNameTheirConnection
      <3> QED BY <1>4, <3>1, <3>2
    <2>2. \A id \in DOMAIN cids' : cids'[id] \in DOMAIN clients' => clients'[cids'[id]].cid = id
      <3> SUFFICES ASSUME NEW id \in DOMAIN cids', cids'[id] \in DOMAIN clients'
                   PROVE  clients'[cids'[id]].cid = id
        OBVIOUS
      <3>1. CASE logged /\ id = nextConnId
        BY <3>1, <1>3, <1>4, <1>6
      <3>2. CASE ~(logged /\ id = nextConnId)
        <4>1. id \in DOMAIN cids /\ cids'[id] = cids[id]
          BY <3>2, <1>1, <1>6
        <4>2. cids[id] # s
          BY <4>1, <1>1, <1>2 DEF Lifecycle
        <4> QED BY <4>1, <4>2, <1>4 DEF IdsNameTheirConnection
      <3> QED BY <3>1, <3>2
    <2> QED BY <1>1, <2>1, <2>2 DEF IdsNameTheirConnection
  <1>14. ProbesReachTheRegistrant'
    BY <1>1 DEF ProbesReachTheRegistrant
  <1> QED BY <1>8, <1>9, <1>10, <1>11, <1>12, <1>13, <1>14

\* A client is heard: nothing but its last_seen changes.
LEMMA SeenFact ==
    ASSUME ServerInv, NEW s \in DOMAIN clients, Seen(s)
    PROVE  /\ DOMAIN clients' = DOMAIN clients
           /\ clients' \in [DOMAIN clients' -> ClientInfo]
           /\ \A t \in DOMAIN clients : /\ clients'[t].user = clients[t].user
                                         /\ clients'[t].cid = clients[t].cid
                                         /\ clients'[t].addr = clients[t].addr
  BY DEF ServerInv, Seen, TypeOK, ClientInfo

\* What stays true when the tables keep who is connected and under which id.
LEMMA SameConnections ==
    ASSUME ServerInv, net' \subseteq net,
           DOMAIN clients' = DOMAIN clients,
           clients' \in [DOMAIN clients' -> ClientInfo],
           \A t \in DOMAIN clients : /\ clients'[t].user = clients[t].user
                                     /\ clients'[t].cid = clients[t].cid
                                     /\ clients'[t].addr = clients[t].addr,
           UNCHANGED <<told, joined, syns, newClients, cids, nextConnId, closes>>,
           registered' \subseteq Reached, probes' \subseteq Reached,
           thread' \in {"serving", "borrow"}
    PROVE  /\ TypeOK' /\ NetOK' /\ Belongs' /\ Lifecycle' /\ IdsNameTheirConnection'
  <1> USE DEF ServerInv
  <1>1. TypeOK'
    BY DEF TypeOK
  <1>2. NetOK' /\ Belongs' /\ Lifecycle'
    BY DEF NetOK, Belongs, Lifecycle
  <1>3. IdsNameTheirConnection'
    BY DEF IdsNameTheirConnection
  <1> QED BY <1>1, <1>2, <1>3

LEMMA PingStep ==
    ASSUME ServerInv, NEW k \in net, HandlePing(k)
    PROVE  ServerInv'
  <1>1. /\ net' \subseteq net /\ k.sig \in DOMAIN clients /\ Seen(k.sig)
        /\ UNCHANGED <<told, joined, syns, newClients, cids, nextConnId, closes, registered, probes, thread>>
    BY ReceiveFact DEF HandlePing, services
  <1>2. registered' \subseteq Reached /\ probes' \subseteq Reached /\ thread' \in {"serving", "borrow"}
    BY <1>1 DEF ServerInv, TypeOK, IdsNameTheirConnection
  <1>3. TypeOK' /\ NetOK' /\ Belongs' /\ Lifecycle' /\ IdsNameTheirConnection'
    BY <1>1, <1>2, SeenFact, SameConnections
  <1>4. Given' /\ ProbesReachTheRegistrant'
    BY <1>1, SeenFact DEF ServerInv, Given, ProbesReachTheRegistrant
  <1> QED BY <1>3, <1>4 DEF ServerInv

\* What a service call adds: pairs of an id and the player it belongs to.
BelongsTo(r) ==
    \E s \in DOMAIN clients : /\ r = [cid |-> clients[s].cid, to |-> clients[s].addr]
                              /\ clients[s].user # Nobody

LEMMA DataStep ==
    ASSUME ServerInv, NEW k \in net, HandleData(k)
    PROVE  ServerInv'
  <1> DEFINE s == k.sig
  <1> USE DEF ServerInv
  <1>1. /\ net' \subseteq net /\ s \in DOMAIN clients /\ Seen(s)
        /\ k.from \in Players /\ s \in told[k.from] /\ k.call \in CallType
        /\ Register(k, clients[s]) \/ RequestProbe(k, clients[s])
        /\ thread = "serving"
        /\ UNCHANGED <<told, joined, syns, newClients, cids, nextConnId, closes>>
    BY ReceiveFact DEF HandleData, Receive, NetOK
  <1>2. clients[s].addr = k.from
    BY <1>1 DEF Belongs
  <1>3. \A t \in DOMAIN clients : clients[t].user # Nobody =>
              /\ clients[t].cid \in DOMAIN cids /\ cids[clients[t].cid] = t
              /\ clients[t].cid \in Nat /\ clients[t].cid < nextConnId /\ clients[t].addr \in Players
    BY DEF IdsNameTheirConnection, Given, TypeOK, ClientInfo
  <1>4. thread' \in {"serving", "borrow"}
    BY <1>1, <1>3, NobodyAssumption DEF Register, RequestProbe
  <1>5. /\ \A r \in registered' : r \in registered \/ BelongsTo(r)
        /\ \A r \in probes' : r \in probes \/ BelongsTo(r)
        /\ registered \subseteq registered' /\ probes \subseteq probes'
        /\ registered' = registered \/ probes' = probes
    <2>1. CASE Register(k, clients[s])
      BY <2>1, <1>1, <1>2 DEF Register, BelongsTo
    <2>2. CASE RequestProbe(k, clients[s])
      <3> DEFINE id == k.call.target
      <3>1. registered' = registered /\ probes \subseteq probes'
        BY <2>2 DEF RequestProbe
      <3>2. ASSUME NEW r \in probes', r \notin probes
            PROVE  BelongsTo(r)
        <4>1. PICK t \in ClientByConnectionId(id) : r = [cid |-> id, to |-> clients[t].addr]
          BY <2>2, <3>2 DEF RequestProbe
        <4>2. id \in DOMAIN cids /\ t = cids[id] /\ t \in DOMAIN clients
          BY <4>1 DEF ClientByConnectionId
        <4>3. clients[t].cid = id
          BY <4>2 DEF IdsNameTheirConnection
        <4>4. clients[t].user # Nobody
          BY <4>2, <4>3, NobodyAssumption DEF IdsNameTheirConnection, TypeOK
        <4> QED BY <4>1, <4>2, <4>3, <4>4 DEF BelongsTo
      <3> QED BY <3>1, <3>2
    <2> QED BY <1>1, <2>1, <2>2
  <1>6. \A r : BelongsTo(r) =>
            /\ r \in Reached /\ r.cid < nextConnId
            /\ \A t \in DOMAIN clients : clients[t].cid = r.cid => clients[t].addr = r.to
    <2> SUFFICES ASSUME NEW r, NEW t \in DOMAIN clients, clients[t].user # Nobody,
                        r = [cid |-> clients[t].cid, to |-> clients[t].addr]
                 PROVE  /\ r \in Reached /\ r.cid < nextConnId
                        /\ \A u \in DOMAIN clients : clients[u].cid = r.cid => clients[u].addr = r.to
      BY DEF BelongsTo
    <2>1. r \in Reached /\ r.cid < nextConnId
      BY <1>3 DEF Reached
    <2>2. ASSUME NEW u \in DOMAIN clients, clients[u].cid = r.cid PROVE u = t
      <3>1. clients[u].user # Nobody
        BY <1>3, <2>2, NobodyAssumption DEF IdsNameTheirConnection
      <3> QED BY <1>3, <2>2, <3>1
    <2> QED BY <2>1, <2>2
  <1>7. registered' \subseteq Reached /\ probes' \subseteq Reached
    BY <1>5, <1>6 DEF TypeOK
  <1>8. TypeOK' /\ NetOK' /\ Belongs' /\ Lifecycle' /\ IdsNameTheirConnection'
    BY <1>1, <1>4, <1>7, SeenFact, SameConnections
  <1>9. \A r \in registered' \cup probes' :
           /\ r.cid < nextConnId
           /\ \A t \in DOMAIN clients : clients[t].cid = r.cid => clients[t].addr = r.to
    BY <1>5, <1>6 DEF Given
  <1>10. Given'
    BY <1>1, <1>9, SeenFact DEF Given
  <1>11. ProbesReachTheRegistrant'
    <2> SUFFICES ASSUME NEW pr \in probes', NEW r \in registered', pr.cid = r.cid
                 PROVE  pr.to = r.to
      BY DEF ProbesReachTheRegistrant
    <2>1. CASE BelongsTo(pr)
      BY <2>1, <1>9 DEF BelongsTo
    <2>2. CASE BelongsTo(r)
      BY <2>2, <1>9 DEF BelongsTo
    <2>3. CASE pr \in probes /\ r \in registered
      BY <2>3 DEF ProbesReachTheRegistrant
    <2> QED BY <1>5, <2>1, <2>2, <2>3
  <1> QED BY <1>8, <1>10, <1>11

\* Clients leave, with or without the entry of their connection id.
LEMMA CloseStep ==
    ASSUME ServerInv, NEW S \in SUBSET DOMAIN clients, Closed(S), net' \subseteq net,
           \/ cids' = cids
           \/ cids' = Drop(cids, {clients[s].cid : s \in S}),
           UNCHANGED <<told, joined, syns, newClients, nextConnId, services>>
    PROVE  ServerInv'
  <1> USE DEF ServerInv
  <1>1. /\ DOMAIN clients' = DOMAIN clients \ S
        /\ \A t \in DOMAIN clients' : clients'[t] = clients[t]
        /\ clients' \in [DOMAIN clients' -> ClientInfo]
    BY DEF Closed, Drop, TypeOK
  <1>2. /\ DOMAIN cids' \subseteq DOMAIN cids
        /\ \A id \in DOMAIN cids' : cids'[id] = cids[id]
        /\ cids' \in [DOMAIN cids' -> Sigs]
    BY DEF Drop, TypeOK
  <1>3. \A t \in DOMAIN clients' : clients[t].cid \in DOMAIN cids => clients[t].cid \in DOMAIN cids'
    <2> SUFFICES ASSUME NEW t \in DOMAIN clients', clients[t].cid \in DOMAIN cids,
                        NEW s \in S, clients[s].cid = clients[t].cid
                 PROVE  FALSE
      BY DEF Drop
    <2>1. clients[t].cid \in Nat /\ t \in DOMAIN clients /\ t # s
      BY <1>1 DEF TypeOK
    <2>2. clients[t].user # Nobody /\ clients[s].user # Nobody
      BY <2>1, NobodyAssumption DEF IdsNameTheirConnection
    <2> QED BY <2>1, <2>2 DEF IdsNameTheirConnection
  <1>4. closes' \in [Sigs -> Nat]
    BY DEF Closed, TypeOK
  <1>5. TypeOK'
    BY <1>1, <1>2, <1>4 DEF TypeOK, services
  <1>6. NetOK' /\ Belongs'
    BY <1>1 DEF NetOK, Belongs
  <1>7. Lifecycle'
    <2>1. \A t \in Sigs : closes'[t] # 0 => t \notin DOMAIN newClients /\ t \notin DOMAIN clients' /\ t \in 1..syns
      <3> SUFFICES ASSUME NEW t \in Sigs, closes'[t] # 0
                   PROVE  t \notin DOMAIN newClients /\ t \notin DOMAIN clients' /\ t \in 1..syns
        OBVIOUS
      <3>1. CASE t \in S
        BY <3>1, <1>1 DEF Lifecycle, TypeOK
      <3>2. CASE t \notin S
        <4>1. closes[t] # 0
          BY <3>2 DEF Closed, TypeOK
        <4> QED BY <4>1, <1>1 DEF Lifecycle
      <3> QED BY <3>1, <3>2
    <2> QED BY <1>1, <1>2, <2>1 DEF Lifecycle
  <1>8. Given'
    BY <1>1, <1>2 DEF Given, services
  <1>9. IdsNameTheirConnection'
    BY <1>1, <1>2, <1>3 DEF IdsNameTheirConnection, services
  <1>10. ProbesReachTheRegistrant'
    BY DEF ProbesReachTheRegistrant, services
  <1> QED BY <1>5, <1>6, <1>7, <1>8, <1>9, <1>10

LEMMA StepInv == ServerInv /\ [Next]_vars => ServerInv'
  <1> SUFFICES ASSUME ServerInv, [Next]_vars PROVE ServerInv' OBVIOUS
  <1>1. ASSUME NEW p \in Players, Send(p) PROVE ServerInv'
    BY <1>1, EnvironmentStep
  <1>2. ASSUME NEW s \in Sigs, Silence(s) PROVE ServerInv'
    BY <1>2, SilenceStep
  <1>3. CASE ReceiveTimesOut
    BY <1>3, CloseStep DEF ReceiveTimesOut, Expired, environment
  <1>4. ASSUME NEW k \in net, Lose(k) \/ DropUnknown(k) PROVE ServerInv'
    BY <1>4, EnvironmentStep
  <1>5. ASSUME NEW k \in net, HandleSyn(k) PROVE ServerInv'
    BY <1>5, SynStep
  <1>6. ASSUME NEW k \in net, HandleConnect(k) PROVE ServerInv'
    BY <1>6, ConnectStep
  <1>7. ASSUME NEW k \in net, HandlePing(k) PROVE ServerInv'
    BY <1>7, PingStep
  <1>8. ASSUME NEW k \in net, HandleData(k) PROVE ServerInv'
    BY <1>8, DataStep
  <1>9. ASSUME NEW k \in net, HandleDisconnect(k) PROVE ServerInv'
    <2>1. net' \subseteq net /\ {k.sig} \in SUBSET DOMAIN clients /\ Closed({k.sig})
      BY <1>9, ReceiveFact DEF HandleDisconnect
    <2> QED BY <1>9, <2>1, CloseStep DEF HandleDisconnect
  <1>10. CASE UNCHANGED vars
    BY <1>10 DEF vars, environment, registry, services, ServerInv, TypeOK, NetOK, Belongs,
                 Lifecycle, Given, IdsNameTheirConnection, ProbesReachTheRegistrant, Sigs
  <1> QED BY <1>1, <1>2, <1>3, <1>4, <1>5, <1>6, <1>7, <1>8, <1>9, <1>10 DEF Next

LEMMA SpecInv == Spec => []ServerInv
  BY InitInv, StepInv, PTL DEF Spec

-----------------------------------------------------------------------------
\* The theorems.

\* The server's tables keep their types.
THEOREM TablesAreTyped == Spec => []TypeOK
  <1>1. ServerInv => TypeOK
    BY DEF ServerInv
  <1> QED BY SpecInv, <1>1, PTL

\* A client that logged in has a connection id, which leads to that client and
\* to nobody else; register never unwraps an id that is not there.
THEOREM IdsLeadToTheirConnection == Spec => []IdsNameTheirConnection
  <1>1. ServerInv => IdsNameTheirConnection
    BY DEF ServerInv
  <1> QED BY SpecInv, <1>1, PTL

\* A probe never reaches another player than the one who was given the id.
THEOREM ProbesReachNobodyElse == Spec => []ProbesReachTheRegistrant
  <1>1. ServerInv => ProbesReachTheRegistrant
    BY DEF ServerInv
  <1> QED BY SpecInv, <1>1, PTL

-----------------------------------------------------------------------------
\* The server implements Connections.

LEMMA InitRefines == Init => C!Init
  BY DEF Init, C!Init, OpenConnections, Empty

LEMMA OpenDomain == DOMAIN OpenConnections = DOMAIN clients
  BY DEF OpenConnections

\* Steps that keep who is connected, and under which id, are stutters.
LEMMA SameRefines ==
    ASSUME DOMAIN clients' = DOMAIN clients,
           \A t \in DOMAIN clients : clients'[t].user = clients[t].user /\ clients'[t].cid = clients[t].cid,
           UNCHANGED <<nextConnId, closes>>
    PROVE  UNCHANGED C!vars
  BY DEF C!vars, OpenConnections

LEMMA ConnectRefines ==
    ASSUME ServerInv, NEW k \in net, HandleConnect(k)
    PROVE  C!Next
  <1> DEFINE s == k.sig
             open == OpenConnections
  <1>1. /\ s \in DOMAIN newClients /\ s \in Sigs /\ s \notin DOMAIN clients /\ closes[s] = 0
        /\ newClients[s].user = Nobody /\ newClients[s].cid = Nobody
        /\ k.from \in Players /\ nextConnId \in Nat
    <2>1. s \in DOMAIN newClients /\ k.from \in Players /\ nextConnId \in Nat
      BY DEF HandleConnect, TakeNewClient, ServerInv, NetOK, TypeOK
    <2>2. s \in Sigs
      BY <2>1, BoundsAssumption DEF ServerInv, TypeOK, Sigs
    <2> QED BY <2>1, <2>2 DEF ServerInv, Lifecycle
  <1>2. /\ DOMAIN clients' = DOMAIN clients \cup {s}
        /\ \A t \in DOMAIN clients : clients'[t] = clients[t]
        /\ UNCHANGED closes
    BY <1>1 DEF HandleConnect, Add
  <1>3. C!Opens(s)
    BY <1>1, <1>2 DEF C!Opens, OpenConnections
  <1>4. CASE k.ticket # "valid"
    <2>1. clients'[s] = newClients[s] /\ UNCHANGED nextConnId
      BY <1>4 DEF HandleConnect, Add
    <2>2. open'[s] = [user |-> Nobody, id |-> Nobody]
      BY <1>1, <1>2, <2>1 DEF OpenConnections
    <2> QED BY <1>1, <1>3, <2>1, <2>2 DEF C!OpenAnonymous, C!Next
  <1>5. CASE k.ticket = "valid"
    <2>1. /\ clients'[s] = [newClients[s] EXCEPT !.user = k.from, !.cid = nextConnId]
          /\ nextConnId' = nextConnId + 1
          /\ newClients[s] \in ClientInfo
      BY <1>1, <1>5 DEF HandleConnect, Add, NextId, ServerInv, TypeOK
    <2>2. open'[s] = [user |-> k.from, id |-> nextConnId]
      BY <1>2, <2>1 DEF OpenConnections, ClientInfo
    <2>3. 0..nextConnId' - 1 = (0..nextConnId - 1) \cup {nextConnId} /\ nextConnId \notin 0..nextConnId - 1
      BY <1>1, <2>1
    <2> QED BY <1>1, <1>3, <2>2, <2>3 DEF C!OpenFor, C!Next
  <1> QED BY <1>4, <1>5

LEMMA CloseRefines ==
    ASSUME ServerInv, NEW S \in SUBSET DOMAIN clients, Closed(S), UNCHANGED nextConnId
    PROVE  C!Next
  <1>1. S \subseteq Sigs
    BY BoundsAssumption DEF ServerInv, TypeOK, Sigs
  <1>2. C!Close(S)
    BY DEF C!Close, Closed, Drop, OpenConnections
  <1> QED BY <1>1, <1>2 DEF C!Next

LEMMA StepRefines == ServerInv /\ [Next]_vars => [C!Next]_(C!vars)
  <1> SUFFICES ASSUME ServerInv, [Next]_vars PROVE C!Next \/ UNCHANGED C!vars OBVIOUS
  <1>1. ASSUME UNCHANGED <<clients, nextConnId, closes>> PROVE UNCHANGED C!vars
    BY <1>1, SameRefines
  <1>2. ASSUME NEW p \in Players, Send(p) PROVE UNCHANGED C!vars
    BY <1>1, <1>2 DEF Send, registry
  <1>3. ASSUME NEW s \in Sigs, Silence(s) PROVE UNCHANGED C!vars
    <2>1. /\ DOMAIN clients' = DOMAIN clients
          /\ \A t \in DOMAIN clients : clients'[t].user = clients[t].user /\ clients'[t].cid = clients[t].cid
          /\ UNCHANGED <<nextConnId, closes>>
      BY <1>3 DEF Silence, ServerInv, TypeOK, ClientInfo
    <2> QED BY <2>1, SameRefines
  <1>4. CASE ReceiveTimesOut
    BY <1>4, CloseRefines DEF ReceiveTimesOut, Expired
  <1>5. ASSUME NEW k \in net, Lose(k) \/ DropUnknown(k) \/ HandleSyn(k) PROVE UNCHANGED C!vars
    BY <1>1, <1>5 DEF Lose, DropUnknown, HandleSyn, registry
  <1>6. ASSUME NEW k \in net, HandleConnect(k) PROVE C!Next
    BY <1>6, ConnectRefines
  <1>7. ASSUME NEW k \in net, HandlePing(k) \/ HandleData(k) PROVE UNCHANGED C!vars
    <2>1. k.sig \in DOMAIN clients /\ Seen(k.sig) /\ UNCHANGED <<nextConnId, closes>>
      BY <1>7 DEF HandlePing, HandleData
    <2> QED BY <2>1, SeenFact, SameRefines
  <1>8. ASSUME NEW k \in net, HandleDisconnect(k) PROVE C!Next
    <2>1. {k.sig} \in SUBSET DOMAIN clients /\ Closed({k.sig}) /\ UNCHANGED nextConnId
      BY <1>8 DEF HandleDisconnect
    <2> QED BY <2>1, CloseRefines
  <1>9. CASE UNCHANGED vars
    BY <1>1, <1>9 DEF vars, registry
  <1> QED BY <1>2, <1>3, <1>4, <1>5, <1>6, <1>7, <1>8, <1>9 DEF Next

\* The server is an implementation of Connections: a connection opens once,
\* under an id of its own, and is reported closed exactly once.
THEOREM ServerImplementsConnections == Spec => ConnectionsSpec
  BY InitRefines, StepRefines, SpecInv, PTL DEF Spec, ConnectionsSpec, C!Spec
=============================================================================
