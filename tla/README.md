# SCBL in TLA+

Models, model-checking configurations and machine-checked proofs for SCBL, the
community server and client stack of *Splinter Cell: Blacklist* (paths below are
relative to the repository root, the `src/` of `PROJECT.json`).

* [Inventory](#inventory)
* [Modules and how they correspond to the code](#modules)
* [Runs: what is checked](#runs)
* [Where the code and its documentation disagree](#findings)
* [Proofs](#proofs)
* [Limits](#limits)
* [Plan](#plan)

<a name="inventory"></a>
## 1. Inventory

### 1.1 The parts and how they interact

```
 game process --hooks DLL--+--PRUDP/UDP--> dedicated-server (Rust)
      |                    +--gRPC-------> dedicated-server API --- SQLite
      | overlay: polls Misc.Event every second                        |
 launcher (C#) --gRPC login--------------> dedicated-server API       | reads
      |        --heartbeats/peers--------> scbl_control_plane.py -----+
      |        --manifest/packages-------> scbl_update_server.py <-- scblctl (publish, deploy)
      +-- tunnel (EasyTier), route guard (Go), updater (C#)
```

| Part | State it keeps | Operations | Hard behaviour |
|---|---|---|---|
| PRUDP server (`server/quazal/src/prudp.rs`, `lib.rs`) | new and connected clients, connection ids, per client: sequence counters, the fragments of one inbound message, last packet seen | SYN, CONNECT, DATA, PING, DISCONNECT; expiry after 60 s when a receive has timed out for 1 s | UDP: loss, duplication, reordering; timeouts between fragments; 16-bit sequence numbers; acknowledgement before handling |
| Game sessions (`server/dedicated-server/src/storage/mod.rs`, `game_session.rs`, migrations) | sessions, participants, station URLs | create, update, join, leave, abandon, split, migrate, delete, add and remove participants | host leaves at any moment; several handlers and triggers touch the same tables; calls repeat |
| Parties and invitations (`storage/mod.rs`, `api.rs`) | parties, members, invitations with kind, status, lifetime, delivery | invite, poll, accept, follow the leader, restore to the lobby, clean-up | API threads beside the secure server's thread; invitations that outlive what they name |
| Presence (`main.rs`, `ticket.rs`, `api.rs`) | online marks, secure connections, overlay heartbeats (15 s) | log in, connect, disconnect, expire, heartbeat, sweep, start-up reset | three signals of presence that stop in any order |
| PRUDP packets and RMC streams (`server/quazal/src/prudp/packet.rs`, `rmc/basic.rs`, `rmc/types.rs`, `kerberos.rs`) | none; bytes | write and read packets, values, tickets | lengths that wrap, compression, a checksum that is a sum, fields whose presence depends on others |
| Remote method calls (`rmc.rs`, the generated dispatch of the protocols that `main.rs` registers, the services) | none of their own; what the services keep | decode, dispatch, answer | calls cut short, unknown or unimplemented, panics of the serving thread |
| Accounts and tickets (`ticket.rs`, `ubi_acc_mgmt.rs`, `api.rs`, `login_required.rs`) | users; sealed tickets and API tokens, connections' user ids | log in, ticket, connect, register, delete | credentials that outlive the account; user ids that are given again |
| NAT traversal, secure registration | none of their own; the registry of clients | probe, register | a probe borrows another client's state while the caller's is borrowed |
| Control plane (`server/scbl_control_plane.py`) | peers by virtual address, with heartbeats; a two-second snapshot of the sessions | register, list, session by address | changed addresses, stale snapshot |
| Update server and publisher (`server/scbl_update_server.py`, `server/manager/scblctl/client_publish.py`) | release directory, manifest | publish, serve | archive and manifest are two files |
| Manager (`server/manager/scblctl`) | deployments, backups, configuration | install, upgrade, roll back, DDNS | steps of a deployment that fail |
| Transactional installer (`client/ScblPublicLauncher/Services/TransactionalComponentInstaller.cs`) | target, backup and temporary file of each file of a component | install a group of files, roll back, recover | operations that throw, deletions that fail, the process killed between two file operations |
| Component updates of the launcher (`ClientComponentUpdateService.cs`, `StagedComponentBootstrapService.cs`, ...) | staged versions, single files with a backup | download, stage, activate | crash between two moves |
| Updater (`client/SCBL.Updater`) | snapshot of the client, receipts | replace the whole client, restore, restart the launcher | crash while copying; restart races |
| Network orchestrator (`NetworkOrchestrator.cs`, `PublicTunnelService.cs`) | assigned address, phase, locks, watchdog | ensure, verify, recover, shut down | asynchronous callers around one tunnel |
| Route guard (`client/scbl-process-router/main.go`, `ProcessRouterService.cs`) | NAT mappings, launcher heartbeat file | translate, refresh, expire | goroutines; a heartbeat file that is read while it is written |
| Hooks and overlay (`client/hooks`) | local invitation ids, the list on show, the match target, one replayed event, the bridge of a join, the party shown to the game | poll, log in again, show, accept, send events, replay, choose the controller, complete a join | three threads (updates, render loop, game); ids of the server that are reused; answers that are lost after the server has acted; detours that read a target and act later |
| Launcher UI, scripts, generated protocols | - | - | presentation and I/O |

### 1.2 What makes the modelled parts correct

* **Reassembly**: the handler of a connection is given payloads whose chunks
  belong together, in order; the retained bytes are counted exactly, so that
  the 256 KiB limit is the real one; a timeout or a rejected fragment leaves no
  partial state behind.
* **Connections**: a connection id, once given, leads to the connection it was
  given to and to nobody else; a probe reaches the player who registered with
  that id; a connection is closed exactly once, and no connection outlives the
  traffic to the server.
* **Calls**: every answer is the answer to its call; a client that is not logged
  in gets nothing out of any method; tickets, tokens and connections lead to the
  account they were made out to; a call cut short changes nothing.
* **Wire**: packets, answers and tickets are read as they were written; a packet
  damaged in flight is refused.
* **Sessions**: a live session is hosted by somebody who is in it; nobody
  outside ever becomes the host; a player who is present by either of the two
  signals, overlay or online mark, keeps its places whatever others do; a sweep
  leaves nobody in a session who has neither, and no end of a connection does.
* **Parties and invitations**: the leader is a member; members belong to a
  party that exists; a leader who enters a room calls the whole party; a player
  has one open invitation a lane; a join answers the invitations to its
  session; an invitation that became invalid goes away; a search finds the
  sessions that live, and the one whose invitation was accepted.
* **Overlay**: a local id leads back to the row it was made for; the game hears
  of an invitation only after the server has accepted it, or a later one that was
  given its row; a follow is accepted by itself; the hooks log in
  again when the server has forgotten them.
* **Game**: an acceptance is given at most twice; its target is not lost to an
  older one; the game joins by the right controller; no join that was
  seen on its way to the server is completed for it, and no armed one waits for
  ever.
* **Installer**: no file of an installed component is ever lost; a call that
  returns has installed everything; a call that fails leaves one version.

The hazards, each at its line, with the properties aimed at it or the reason
that none is yet, are in `PROJECT.json`.

<a name="modules"></a>
## 2. Modules and how they correspond to the code

| Module | Models | Lines it stands for |
|---|---|---|
| `PrudpReassembly` | one connection's fragment cache, the network and the client's fragmentation | `prudp.rs` 39-119, 282-324 |
| `Connections` | abstract: connections that open once, keep their user and id, and close once | what `main.rs` and the services rely on |
| `PrudpServer` | SYN, CONNECT, DATA, PING, DISCONNECT, expiry, the registry of connection ids, registration and probes | `prudp.rs`, `secure.rs`, `nat_traversal.rs` |
| `RmcProtocols` | the nineteen protocols that `main.rs` registers: numbers, methods, and what their dispatch decides by | the generated protocols under `sc_bl_protocols` |
| `RmcServer` | a call decoded, dispatched and answered; accounts, tickets, tokens and connections between calls | `rmc.rs`, `lib.rs`, the services of `dedicated-server/src`, `storage/mod.rs` (users) |
| `PrudpPacket` | a packet as bytes: flags, signatures, compression, cipher, checksum | `prudp/packet.rs` |
| `RmcBasics` | numbers, byte buffers and texts as bytes | `rmc/basic.rs` |
| `RmcStreams` | values as bytes: lists, maps, URLs, results, any-values | `rmc/basic.rs`, `rmc/types.rs` |
| `KerberosTickets` | tickets as bytes, from the login to the CONNECT that shows them | `kerberos.rs`, `prudp.rs` (handle_connect) |
| `WireCodecs` | composes `PrudpPacket` and `KerberosTickets`, and by its instance `RmcStreams`: what one side sends, the other reads | `prudp.rs` (send, fragmentation) |
| `GameStore` | the database: each method of `Storage` on sessions, parties, invitations and presence is an operator from a database to a database | `storage/mod.rs`, triggers in `migrations/` |
| `GameSessions` | the handlers: who may call what, in which transactions, with connections, heartbeats and the overlay's popup | `game_session.rs`, `api.rs`, `main.rs`, `ticket.rs` |
| `SessionSearch` | what is answered of sessions and users: searches, lists, friends | `game_session_ex.rs`, `game_session.rs`, `api.rs` |
| `InviteOverlay` | the way of an invitation from the server's rows to the game: polls, local ids, the list, acceptance, events | `client/hooks` (`uplay_r1_loader.rs`, `api.rs`, `overlay.rs`) and the rows' handlers in `api.rs` |
| `UplayGame` | what the hooks do inside the game with an accepted invitation | `uplay_r1_loader.rs`, `party.rs`, `hooks.rs` |
| `ComponentInstaller` | a call of `Install`, one action per change of the file system | `TransactionalComponentInstaller.cs` |
| `*Proofs` (eight) | theorems about `PrudpReassembly`, `PrudpServer`, `RmcServer`, `WireCodecs` with `PrudpPacket`, `GameSessions` with `SessionSearch`, `InviteOverlay`, `UplayGame`, `ComponentInstaller` | |
| `MC*` | instances for TLC | |

How they hang together: `PrudpServer` implements `Connections`, whose close is
what `GameSessions` takes as `CloseConnection`. `PrudpReassembly` is the DATA
packets of one of `PrudpServer`'s connections; what it hands over is a call of
`RmcServer`; a call of `RmcServer` on sessions is an action of `GameSessions`.
`WireCodecs` says that the packets and values of all of them survive the trip.
`SessionSearch` extends `GameSessions`, which is built of `GameStore`.
`InviteOverlay` starts from the rows that `GameStore` keeps of one receiver, and
its events are `UplayGame`'s acceptances.

### 2.1 PrudpReassembly

`frags`, `fragBytes`, `finalSeq` and `started` are the four fragment fields of
`ClientInfo`. A chunk of payload is named by the message it belongs to and its
fragment id; its size is the constant `Bytes`. Time is abstracted to whether the
group is older than the assembly timeout (`started = "expired"`): the code looks
at the clock only when a fragment arrives, and so does the model
(`LiveFrags`). `HandleData` is `handle_data` from the acknowledgement to the
call of the handler. The network is a set of packets: any may be lost
(`Lose`), kept in the network after delivery (duplication) and delivered in any
order; the client retransmits what it has no acknowledgement for. The client is
external; that a message of *n* chunks is sent with descending fragment ids and
ascending sequence numbers is what `cache_fragment` computes with and what its
tests call the real sender's order. A client does not reuse a sequence number
while packets that carry it may be in flight.

### 2.2 Connections and PrudpServer

One iteration of `serve` is one action: a packet received and handled to the
end, or `ReceiveTimesOut`, the only place where `clear_clients` runs. A
connection is named by the signature its SYN drew, which does not repeat.
`newClients`, `clients` and `cids` are `new_clients`,
`client_registry.clients` and `connection_id_session_ids`; `nextConnId` is the
counter of ids. Two of its habits matter and are kept: a CONNECT takes its
entry out of `new_clients` for good, and a DISCONNECT leaves the id's entry in
`cids`, where it names a signature that is no longer a client's. Silence of
sixty seconds is the flag `silent`. A player may have any number of
connections, use an old one, or stop; its packets are lost, repeated and
reordered. `thread` ends when a panic ends the server's only thread, as the
probe of one's own station does.

`Connections` promises the code above: one opening per signature, an id nobody
had before when a user is known, no change while open, one close. The mapping
is `open` = the entries of `clients` with their user and id, `issued` = the
ids drawn, `closes` = how often the close handlers were called.

### 2.3 RmcProtocols and RmcServer

The dispatch functions are generated and have one shape, so a protocol is a
record of five sets: its methods in the order of their numbers, those without
parameters, those whose answer is empty, those the server overrides, and
whether the login is looked at first (two protocols written by hand).
`RmcServer` decodes a frame of fields, finds protocol and method, and answers;
`EncodeRequest`, `DecodeRequest`, `EncodeResponse` and `DecodeResponse` are the
codec. A call may be cut after each of its parts (`Cuts`).

An account is its row's id together with a history variable that tells it from
a later one under the same id: a row's id is given again after the newest row
was deleted, and tickets and tokens carry ids only. `CredentialsLeadHome` says
what this amounts to. A panic takes the thread of its server
(`thread`), which serves nobody after it.

### 2.4 PrudpPacket, RmcBasics, RmcStreams, KerberosTickets and WireCodecs

These model conversions by what they do, byte by byte: little-endian fields, a
size field that is there only with its flag, the key-stream cipher and the
checksum over words; texts with their sixteen-bit length and closing zero,
station URLs as texts that are taken apart again, any-values with the name of
their class. Compression, the authenticated box of a ticket and the key
derivation are libraries' and stand for what they keep (a tag; a function of the key; the compressor and the key streams are constants
of `PrudpPacket` and `KerberosTickets`, and TLC's are a run-length code behind a
header byte, the game's own stream, and a function that tells keys apart).
`WireCodecs` sends a packet to the server, which acknowledges and answers in
chunks of `MaxPayloadSize`, and lets the game read them: `joined` is what it has
of an answer. `Connect` is the opening of `handle_connect`. How a value is written
and read (`WriteValue`, `ReadValue`) is a parameter, which `MCWireCodecs` gives
`Write` and `Read` of `RmcStreams`: these follow the kind of a value recursively,
while everything `WireCodecs` itself needs of numbers and buffers is in
`RmcBasics`, which has no recursive operator. Sequence numbers wrap at 2^16
(`Wrapped`) as in a release build.

### 2.5 GameStore, GameSessions and SessionSearch

The database is one record. A session's id is its place in the sequence
`sessions`; `parts` is `game_session_participants`; `party[u]` the party that u
leads and `member[u]` the one it belongs to (the primary key of
`party_members`); `invites` holds rows with their rowid. A class (`lobby`,
`room`, `other`) stands for the attributes that `is_game_room_attributes` and
`session_invite_kind` look at; `SessionSearch` adds the attributes its queries
compare. An expiry time is the flag `expired`, set by `InviteExpires` at any
moment; redelivery delays are abstracted to a choice between delivering and
not.

SQLite has one writer and every handler's transaction is atomic, so each is one
action; `Friends.invite` is two (`InviteLookup`, `InviteStore`). Triggers run
inside: `DeleteParticipant` includes `scbl_party_member_leave_lobby`.
`ListUsers` is the sweep of `list_users_async`, a transaction of its own that has
committed when the SELECT runs which is answered: that one reads the database and
the time it finds then (`ShownOnline`), so the list may well show somebody as
offline whom the sweep before it has not touched, and no property says otherwise.
`AUTOINCREMENT`-less rowids are given again after the newest row is deleted
(`NextRowId`). `Restart` is the start-up reset, `invalidate_sessions`.

`conns[u]` counts the registered secure connections of a user: nothing stops a
ticket from being used twice. `seen` is the set of users whose last API call is
at most 15 s old. Which client calls which handler when is left open, except
that a set of users is allowed each kind of call (`Hosts`, `Managers`, ...), to
keep instances small. Searches change nothing and are operators over the
database.

### 2.6 InviteOverlay

Three parties: the server's rows of one receiver, the updates-thread and the
overlay's render loop. A step is what one of them does between two points where
the others can be seen: a poll's answer is mapped to a local id only when it
has arrived (`PollReturns`, then `PollArrives`), and an acceptance is a call
(`call`) whose answer may be lost after the server has acted. `ids` is
`InviteIdState`, `news` the channel, `list` the invitations on show,
`schedule` the one slot of the follow to accept. Every `Relogin`-th failed poll
(every tenth in the program) logs in again. An
invitation's serial number is a name that no part of the program has. `accepted`
is a history of what the server has accepted, which outlives the rows.

### 2.7 UplayGame

The game thread and the render loop. The overlay sets the target and sends the
event in two steps (`arming`); `Enter`'s detour reads the target when it is
entered and acts later (`entering`); everything else the game thread does is
one step. `target`, `replay`, `bridge`, `heart` and `party` are the hooks'
globals. The game itself is external: it looks for the session of the event it
was given last, puts what it found in a slot and enters a `StateJoin`. Its
detour looks at the flag of the Storm session, if it finds one, to tell a join
that is going to call the server from one that waits without a call (`Storms`,
`JoinEnters`); where it finds none it cannot tell, and arms the bridge. `spent` is
a history variable, and so is what `join` keeps of that flag.

### 2.8 ComponentInstaller

`target[f]` and `backup[f]` hold the version a file was installed from, or
`Missing`. `call` is the running call of `Install`: where it is, the version it
installs and the list of prepared files. A single action changes the file
system at most once, so that `Crash` may come between any two changes. `Throw`
enters the catch block from any operation that may throw; `TryDelete` may fail
silently as in the code. The temporary copies are left out: a call never reads
one it did not write and verify itself.

<a name="runs"></a>
## 3. Runs: what is checked

Passing runs (the properties are stated and explained in the modules):

| Run | Instance | Properties |
|---|---|---|
| `reassembly_safety` | a three-chunk and a two-chunk message whose sequence numbers wrap at 2^16, 127 000 states | `FragmentAccounting`, `OneMessagePerGroup`, `DispatchedTails` |
| `prudp_connections` | two players, two SYNs, two packets in flight, 307 000 states | `IdsNameTheirConnection`, `ProbesReachTheRegistrant`, `IdleClientsExpire`, `ConnectionsSpec` (refinement) |
| `rmc_calls` | two names, two accounts, every method of nineteen protocols, whole and cut, 673 000 states | `AnswersMatchTheirCalls`, `StrangersGetNothing`, `CredentialsLeadHome`, `CutCallsDoNothing` |
| `wire_exchanges` | packets of every type, payloads that shrink, grow or stay when compressed, answers of each kind in one to fifteen chunks, every single wrong bit, 575 states | `PacketsArriveAsSent`, `AnswersArrive`, `TicketHoldersConnect`, `WrongBitsAreRefused` |
| `sessions_handover` | three users, one lobby that becomes something else, up to two connections of each user, connections lost and restarts, 224 000 states | `TypeOK`, `HostPresent`, `LiveSessionsAreFound`, `AbsentAreSwept`, `HostComesFromInside`, `PresenceKeepsRooms` |
| `sessions_rooms` | two users, two sessions, two parties, one invitation, 594 000 states | `PartyConsistent`, `PartyIsCalled` |
| `sessions_invites` | three users, two invitations, one session, fair polling, 148 000 states | `OneInvitePerLane`, `AcceptedIsFound`, `JoinAnswersInvites`, `InvalidInviteGoes` |
| `overlay_invites` | two follows, or one invitation of another kind; one lost answer, 142 000 states | `IdsLeadBack`, `EventsWereAccepted`, `FollowIsAccepted`, `LoginRecovers` |
| `uplay_game` | two acceptances of private rooms or follows, two sessions, one party call, 1 014 000 states | `GivenTwiceAtMost`, `TargetSurvives`, `RightController`, `SubmittedJoinsAreLeftAlone`, `EventsArrive`, `ArmedJoinsEnd` |
| `installer_faults` | three files, three versions, crashes, throwing operations, failing deletions, 31 000 states | `NothingLost`, `InstalledIsComplete` |
| `installer_rollback` | three files, fresh installation, throwing operations | `OneVersion` |

**Bounds and why they are enough.** Two messages are what it takes to mix
groups, three chunks to have one in the middle, and a byte limit of three
rejects the second chunk of the larger message. Two players and two
connections are what an id can be confused among: the two may be of one player
or of two, and the packets of a closed one may follow the other's opening; two
packets in flight reorder. Two accounts collide in a reused id. Calls change
nothing but accounts, credentials and connections, so one call at a time meets
every state of them. The byte-level run has few states because
every packet and answer is a value of its own; the limit of twelve payload
bytes (a thousand in the code) cuts answers into several chunks, and sizes at
the wrap of sixteen bits are compared with it through `TextLengths`. Handing a
session over takes a host, a lowest-numbered heir and a third user, who must
not be chosen; two connections of a user are what makes its one online mark wrong,
and let a close meet a connection that stays. A party needs a leader and a follower; a second party and a
second session are what a follower can be in instead. Invitations collide in
pairs, at the server, in the overlay and in the game. The bridge acts with the
second heartbeat instead of the 120th, and logins follow every second failed
poll instead of every tenth: what matters is one step before and one at the
limit. Three files give a transaction a first, a middle and a last one, and
three versions an older leftover, an interrupted attempt and a different retry.
All bounds are named constants; the handlers are disabled, not altered, when
one is reached. `CHECK_DEADLOCK FALSE` is there because players, launchers and
the game may stop. The runs about rooms and invitations begin in `ReadyInit`, a
state the program reaches by logging everybody in.

**Fairness.**

* `sessions_invites`: the overlays of the players who stay go on polling
  (`WF_vars(PollEvent(u))`): the overlay calls `Misc.Event` every second
  (`storage/mod.rs` 181-183, the hooks' updates-thread). Each poll runs the
  clean-up first, whoever's invitation it is. Nothing is assumed of a user who
  is `Flaky`, or of expiry.
* `prudp_connections`: the clock runs (`Silence`) and the server's thread serves:
  it takes the next packet or, when none comes for a second, looks for clients
  that have expired (`Serves`). Nothing is assumed of a receive's timing out: as
  long as packets keep arriving within a second of each other the server expires
  nobody (`prudp.rs` 204), so `IdleClientsExpire` says what follows when the
  traffic ends, and nothing before.
* `overlay_invites`: the updates-thread polls, and an answer under way arrives
  or fails (weak fairness of `PollArrives`, `PollFails`); a frame of the render
  loop does all of its parts, so neither keys nor other invitations keep it from
  receiving and from the follow that is due (strong fairness of `Receive`,
  `FollowIsDue`), and its call ends (`ServerAnswers`, `EndAccept`). A poll
  returns the newest invitation not returned for three seconds, at one poll a
  second and at most three lanes, so each invitation is returned again and
  again (strong fairness for each serial number). Nothing is assumed of the
  server's being up; `FollowIsAccepted` and `LoginRecovers` say what follows
  when it is.
* `uplay_game`: the render loop goes on (`SendEvent`), the game asks for events
  and updates its states with every frame (`GetNextEvent`, `JoinUpdates`), and a
  detour that was entered returns (`EnterEnds`). Nothing is assumed of the
  joins' being answered.

<a name="findings"></a>
## 4. Where the code and its documentation disagree

`reassembly_whole` is a run of one property that the code violates: with no
fragment cached, a final fragment is a whole message to
`finish_fragmented_payload`; if the fragments before it were lost or dropped by
a reset, the handler is given the tail of a message. The tests state that a
message with a missing fragment is refused (quoted in `PROJECT.json`).

Met while modelling, kept as the code has them in the models, without a run:

*Sessions and invitations*

* `is_online` is one mark for all connections of a user: the close of any of them
  clears it, and only a login sets it (`storage/mod.rs` 359). A user who has
  reconnected is marked offline by the close before or by the expiry of the former
  connection after; the sweep then takes the endpoint registered since and the
  places in sessions, although the comment at 401-403 says that active secure users
  "have `is_online=1` and are never selected". `sessions_handover` has these steps
  (two connections of a user): `PresenceKeepsRooms` is about who is heard or marked,
  not about who is connected.
* A launcher log-in sets `is_online` without a secure connection; the preserved
  membership of a user who then leaves is never cleaned.
* An accepted lobby invitation may name a party that is dissolved before the
  join: the insertion into `party_members` breaks its foreign key, and the join
  of a live session fails.
* The rowid of a deleted invitation is given to a new one; an overlay that shows
  the old one accepts the new one by its id, and the game is given the event of
  the old one.
* The list of friends is a statement after the sweep, with a time of its own: it
  may show somebody as offline who is still in a session, until the next sweep.
* `SplitSession` by the creator revives a session that was deleted rather than
  abandoned, with the participants it had.
* The search for the accepted invitation's session takes the newest one, not the
  one accepted last; a lobby without attribute 103 is never found by attributes.
* `PromoteToLeader` of an account that is not in the party leaves the game's party
  without a leader.

*Connections and calls*

* A packet is acknowledged before it is cached or handled, and never sent again;
  a retransmitted DATA packet is handled again; answers are never retransmitted
  (`prudp.rs` 240, 293).
* As long as packets of anybody keep arriving within a second of each other, no
  client expires (204).
* An entry of `new_clients` whose CONNECT never comes is never removed; a CONNECT
  whose answer was lost cannot be repeated; a CONNECT does not refresh
  `last_seen` (354, 377, 381).
* A probe of one's own station borrows a client that is borrowed already
  (`nat_traversal.rs` 88), the statistics of an empty list unwrap nothing
  (`player_stats.rs` 46), an any-value of an unregistered class panics
  (`types.rs` 174), the packet types Route and Raw are `todo!()` (`prudp.rs`
  276): each ends the server's only thread. `handle_connect` adds one to the
  challenge and `send` to the sequence number with an overflow check in debug
  builds.
* A request that cannot be parsed is never answered; an answer without a payload
  sends nothing; a ticket that opens connects even if the request data after it
  does not.
* A ticket names an account by its id, which a later account may get; a deleted
  account's ticket then leads to it.

*Bytes*

* A datagram that ends right after the fixed fields, without a size field, makes
  `l - p - 1` underflow (`packet.rs` 277); a packet that cannot be parsed takes
  the rest of its datagram with it, one with a wrong checksum only itself.
* `KerberosTicket::from_bytes` (`kerberos.rs` 97) reads the sealed part with its
  length and cannot open what `as_bytes` wrote; nothing calls it. The ticket's
  Hmac is never checked and its `valid_until` is always the largest number.
* Texts of 65535 bytes and more wrap their length; a zero inside a text is
  written and cannot be read; the code 0x10001 reads back as success; the ratio
  byte of a compressed payload wraps at 255 and the fragment id at 256 chunks; an
  uncompressed payload outside RVSec gets a byte that the reader does not strip.

*Hooks*

* When the answer to an acceptance of a follow is lost and the invitation is
  delivered again, it may be accepted twice.
* The failures after which the hooks log in again need not be consecutive: only
  an invitation that was delivered resets their count.
* Accepted invitations that led nowhere stay in the list; `F5` takes the last;
  `accept_invite` never answers that it was not accepted, so that the branch
  removing such an entry is dead; the single slot of the scheduled follow is
  overwritten by the next one.
* A host's Uplay session that the server lost with a restart is missing until
  the host publishes again; an acceptance of a private invitation without it
  loses its event.
* A join whose Storm session the detour does not find is taken for one that calls
  nobody (`hooks.rs` 486: anything but a clear flag), so that the bridge may
  complete it although the game has called the server.
* `ASM_JOIN_WAIT_HEARTBEATS` is never reset (`hooks.rs` 420), so that a later
  join of the same object is bridged sooner than the 120 heartbeats that are
  logged.

*Installer*

* A crash after the first file is put, a retry that finds this file as wanted and
  deletes its backup, then a failure: the rollback restores the other files
  only, and two versions are mixed.

<a name="proofs"></a>
## 5. Proofs

All theorems are for every value of the constants, under the modules' named
assumptions only (numbers are numbers, sets of versions or messages have the
type their comment says, the model value for nobody is none of the others).
Every invariant and action property of every passing run is proved. The four of
`WireCodecs` are proved of libraries and values that keep their promises: their
theorems have three hypotheses, which are explained below. The types of most modules are proved and
checked by no run; those of `GameSessions` are both.

* `PrudpReassemblyProofs`: `TypeCorrect`, `GroupsAreNotMixed`
  (`OneMessagePerGroup`), `HandledInOrder` (`DispatchedTails`) and
  `BytesAreCounted` (`FragmentAccounting`), from one
  inductive invariant, `ReassemblyInv`: every packet in flight was sent; every
  cached chunk is the chunk of a sent packet whose sequence number and fragment
  id add up to `finalSeq`; what was handled is a tail. The central lemma is
  that two sent packets with the same final sequence number are of one
  message, since the numbers of different messages differ and those of one
  message are consecutive modulo 2^16. `OneMessagePerGroup` alone is not
  inductive: it says nothing of the group's `finalSeq`, by which the next
  fragment is judged. The count of bytes stands on it: chunks of one message
  have one size, so the sum is their number times that size, and a new chunk
  adds one to the number because its fragment id is not in the group.

* `PrudpServerProofs`: `TablesAreTyped`, `IdsLeadToTheirConnection`
  (`IdsNameTheirConnection`), `ProbesReachNobodyElse`
  (`ProbesReachTheRegistrant`) and `ServerImplementsConnections`
  (`Spec => C!Spec`). The inductive `ServerInv` adds four things to the types:
  packets carry signatures that were told to their sender (`NetOK`); a
  signature was told to one player, whose address the server keeps with it
  (`Belongs`); it is in `new_clients`, then in `clients`, then closed, and never
  goes back (`Lifecycle`); ids are drawn below `nextConnId`, and one that was
  told or probed leads to nobody else (`Given`). The last two are what makes a close happen once and an id lead
  to one connection although `cids` keeps entries of the dead. For the
  refinement each action is shown to be a step of `Connections` or a stutter
  under `ServerInv`; the packets' and players' actions stutter.

* `WireCodecsProofs`, of packets: `PacketsAreReadAsWritten` - from_bytes reads every packet
  that the format can carry, and its end, in what to_bytes wrote - and
  `WrongBitsAreSeen` - it refuses the packet when any single bit is wrong that is
  not in the fields saying where it ends. `WellFormed` says what the format can
  carry: fields of their width, a payload only where the reader expects the byte
  in front of it, a key stream as long as the payload, and of the compressor
  that it gives back what it was given. The first theorem lays out the bytes field by
  field; flags, ports and numbers come apart again by division, and the cipher
  is its own inverse because `Xor` is, weight by weight. For the second, a wrong
  bit changes one column of the word sums by its weight, and the carries
  (`WordSum`) pass on a change of a column that is a multiple of 256; the sum of
  the four columns of the result then changes by something that 256 does not
  divide. One bit is special: that of the destination's stream takes the key in
  or out of the checksum, which `AccessKeyAssumption` excludes from cancelling
  it, as it does for the game's key. Sums over sequences are recursive functions;
  what is needed of them is proved by well-founded induction on the position.

  Of the exchanges: `ExchangesAreSound` (`Spec => []WireInv`), and from it
  `PacketsAlwaysArrive` (`PacketsArriveAsSent`), `WrongBitsAlwaysRefused`
  (`WrongBitsAreRefused`), `AnswersAlwaysArrive` (`AnswersArrive`) and
  `TicketHoldersAlwaysConnect` (`TicketHoldersConnect`). None of the last two is
  inductive: they speak of the end of an exchange. The invariant `WireInv` says
  where it stands. Every datagram was written from a well-formed packet. A packet
  on its way to the server is alone, and nothing is joined yet. Otherwise, of an
  answer of *n* chunks the last *m* are in flight (behind an acknowledgement, at
  first): packet *j* of the *m* is chunk *n - m + j*, with fragment id *m - j*, and the
  game has joined the chunks before them - so that it has the bytes of the answer
  when the fragment id is 0, and it is 0 for no chunk before the last, because there
  are 256 at most. A CONNECT on its way shows exactly the tickets of `shown`.

  The lemmas on the way there: a number of four bytes is its quotients' remainders
  (`NumberFact`, for which the quotients are taken by well-founded induction); a
  buffer is read from where it was written and leaves the rest (`BufferFact`); a
  box opens to what was sealed in it (`SealFact`); so the game takes its session
  key and the sealed part out of the ticket, for whichever password, and the server
  takes the user and the challenge out of what the CONNECT makes of them
  (`TicketFact`, `ConnectFact`). The ends of the chunks are those of a division
  (`CutFact`), and joined in order they are the answer (`ChunksFact`).

  The hypotheses of these five theorems are about what is outside of them.
  `CipherIsBytes`: the key stream of a ticket consists of bytes.
  `CompressorIsFaithful`: the library gives back every payload that fits a packet,
  and does not blow it up beyond the key stream. `ValuesReadBack`: each value
  that a service returns is read back from the bytes it was written as. That is
  about `Write` and `Read` of `RmcStreams`, recursive operators that the prover
  cannot see; TLC evaluates it through `AnswersArrive` for every answer of
  `wire_exchanges`, and it is the only part of that property left to TLC. The
  other three properties need it too: the game makes its CONNECT from the
  value it has read. The module's own assumptions are about the instance: the game
  sends well-formed packets (`GameAssumption`) and cannot seal a ticket
  (`NoForgedTickets`), a login returns the ticket made for it
  (`LoginsAssumption`), a ticket is of an allowed size (`ConnectAssumption`), an
  answer has one to 256 chunks (`AnswersAssumption`: a fragment id is a byte, and
  an answer of no bytes is not sent).

* `RmcServerProofs`: `TablesAreTyped`, `CredentialsAreKept`
  (`CredentialsLeadHome`), `StrangersAreRefused` (`StrangersGetNothing`),
  `AnswersAreTheCallers` (`AnswersMatchTheirCalls`) and `CutCallsAreNotMade`
  (`CutCallsDoNothing`).
  `CredentialInv` relates the table, the accounts born so far and every
  credential; it is preserved because every service's effect, whatever the
  method, satisfies a short contract that the lemmas prove bottom-up along the
  call (`TicketsAreHonest`, `ServeIsFair`, `DispatchIsFair`, `HandleIsFair`).
  The third theorem goes through every protocol's dispatch: without a login
  each method fails, is unknown, unparsed or unimplemented, and the reader of
  the answer sees that error. The fourth lays out the frames
  (`FramesAreLaidOut`, `RequestIsRead`, `AnswersAreRead`): where a field lies
  depends on whether the protocol's number takes one byte or three, and the
  reader finds the call in the answer because every registered number is below
  127 or from 255 on (`ProtocolsAreNumbered`). The fifth adds that a cut frame
  that is still a request misses nothing but parameters
  (`OnlyTheParametersAreCut`), and that the dispatch of each protocol fails a
  method that has parameters without them (`MissingParametersFail`).

* `GameSessionsProofs`: `HostIsPresent` (`HostPresent`) and
  `PartiesAreConsistent` (`PartyConsistent`). `StepIsTransaction` reduces a step
  of the server to one transaction of `GameStore` on its database
  (`Transaction` lists them), so both are proved of databases, not of states.
  `HostInv` adds the types of the two tables to `HostPresent`; `HostInvBut`
  says it of all sessions but one, which is what a deleted participant leaves
  behind and `ReconcileHost` repairs. `PartyInv` is `PartyConsistent` with its
  types: that no id above `lastParty` is in use is what makes the party of a
  new leader a fresh one, and that no two users lead one party what keeps a
  leader a member of its own when others leave theirs. A transaction that leaves
  the tables alone is covered by a frame lemma. The join uses its guard
  `~JoinViolatesForeignKey`: without the foreign key the second theorem would
  be false.

  Its second part goes on from `HostInv` and `PartyInv`. `TypesInv` adds
  the other tables and what the handlers hold between two transactions, and
  `InvitesOK` for the invitations: unique ids with a largest one, and one open
  invitation a lane. What a transaction does to the invitations is one of
  three things - rows go (`FewerRows`), their status changes and none is opened
  again (`ChangedRows`), rows are added to a lane that was cleared
  (`MoreRows`) - so each statement of `GameStore` needs one of three lemmas. From
  it `TypesAreCorrect` (`TypeOK`) and `OneInviteInEachLane`
  (`OneInvitePerLane`). Under it the action properties:
  `PresentKeepTheirRooms` (`PresenceKeepsRooms`) and `TheAbsentAreSwept`
  (`AbsentAreSwept`), both by `StepPresence`, which says of every step who comes
  into a session and who goes, and `SweepPresence`, what the end of a connection
  and the sweep leave; `JoinsAnswerInvites` (`JoinAnswersInvites`),
  `PartiesAreCalled` (`PartyIsCalled`), and `HostsComeFromInside`
  (`HostComesFromInside`), for which `PassedOn` says of each statement that a
  session that stays live passes only to somebody who was in it, from somebody
  who no longer is. Of the searches: `LiveIsFound` (`LiveSessionsAreFound`), to
  which `HostInv` gives the participant whom the query joins with, and
  `WhatIsAcceptedIsFound` (`AcceptedIsFound`).

* `InviteOverlayProofs`: `LocalIdsLeadBack` (`IdsLeadBack`) and
  `OnlyAcceptedEvents` (`EventsWereAccepted`) from `OverlayInv`. No part of the
  program compares an invitation on its way with the server's rows, which go
  and whose ids are given again; what stays true of it is `Named`: the row
  under its id, if there is one, has its serial number or a later one, and a
  row with its serial number has its id. It holds of the answer of a poll, of
  everything in the channel and the list, and of the running call; `IdsInv` adds
  that new local ids are below all others, so that a mapping, once made, is
  not overwritten. `Moved` and `Grown` are all that the other parts need to know
  of a step of the rows and of the ids. The server accepts
  what is in the row that the call names, which by `Named` is the invitation of the
  call or a later one (`CallInv`), and the history of its acceptances only grows
  (`AcceptedKept`), so that an event stays justified when its row has gone.

* `UplayGameProofs`: `NoThirdEvent` (`GivenTwiceAtMost`),
  `LatestTargetSurvives` (`TargetSurvives`), `EnterChoosesRight`
  (`RightController`) and `BridgeLeavesSubmittedJoins`
  (`SubmittedJoinsAreLeftAlone`) from `GameInv`. The serial numbers carry the first: an acceptance on its way
  was not given yet and is on its way once (`Queued`), one in the replay slot
  was given once. The target carries the next two: `TargetSurvives` says nothing
  of the copy that Enter has read, and `TargetInv` says that this copy is the
  latest acceptance's target as long as the game acts on that acceptance. A
  newer acceptance has a larger serial number than the one the game acts on.
  For the last, a bridge that exists was armed for the join that was entered last,
  whose flag was not clear (`BridgeInv`).

* `ComponentInstallerProofs`: `TypeCorrect`; `ReturnedIsInstalled`
  (`InstalledIsComplete`) from `CompleteInv`, which says for each phase of a call
  which files are done: those before `call.at`, and those left out of the
  transaction; `NoFileIsLost` (`NothingLost`)
  from `PlaceInv`, which says for each phase of a call and each file on which
  side of `call.at` it lies whether target or backup must exist;
  `RollbackKeepsOneVersion` (`OneVersion`) when operations may throw and moves
  of the catch block may fail, but the launcher is not killed and deletions
  succeed, from `VersionInv`: there is one version *v*, and what each file or
  its backup holds is *v*, the wanted version or nothing, as a function of the
  phase (`VersionOf`, `LeavesBehind`). `OneVersion` speaks of calls that have
  ended only, so nothing of it is inductive by itself. Existence of a smallest
  or largest prepared file is `SmallestExists` and its mirror image, from the
  well-foundedness of `<` on the naturals (`WellFoundedInduction`).

<a name="limits"></a>
## 6. Limits

* **Only model-checked**: liveness everywhere (`InvalidInviteGoes`,
  `IdleClientsExpire`, `FollowIsAccepted`, `LoginRecovers`,
  `EventsArrive`, `ArmedJoinsEnd`), which is out of the prover's reach; and that
  each kind of value is read back from its bytes (`ValuesReadBack`): the codecs of
  `RmcStreams` are recursive operators, which the prover cannot see. TLC checks it
  of the answers of `wire_exchanges`, one or more of each kind.
* **Abstracted**: payload contents in all modules but the codecs, attributes
  beyond the class and the mode of a session, several session types, names,
  times (only the order in which deadlines pass), passwords (right or wrong),
  the temporary copies of the installer, hashes (a hash identifies a version),
  libraries' compression and cryptography.
* **Not modelled in the modelled parts**: deletion of a user who is in sessions
  (`RmcServer` deletes accounts, `GameSessions` has none), the `user_sessions`
  table, which nothing reads for a decision; publication of a session's
  attributes by `set_game_session`; floating-point values; client sides of
  generated protocols and protocols that nothing registers; how the hooks find
  and patch the game's code, their window, saves and settings. The hooks'
  spawned tasks that publish or withdraw a session may overtake each other;
  `InviteOverlay` has only whether the server holds one.
* **Not modelled at all**: see the components with status `not_modelled` in
  `PROJECT.json`. User interface, build scripts and read-only servers will stay
  out: they have no state of their own or are I/O.

<a name="plan"></a>
## 7. Plan

Done: the modules above. In order:

1. **`PeerRegistry`** - the control plane: registration, changed addresses,
   expiry, the session snapshot.
2. **`FullUpdate`** and **`FileReplace`** - the updater's whole-client
   replacement with crash, restore and restart; the single-file replacement,
   compared with `ComponentInstaller`. Abstract specification `AtomicInstall`
   (one step from version to version), which `ComponentInstaller` implements
   without crashes.
3. **`ClientPublish`** - archive and manifest under concurrent readers and
   crashes.
4. **`Orchestrator`** - ensure, watchdog, recovery, shutdown of the tunnel.
5. **`RouteGuard`** - heartbeat file, session guard, NAT table.
6. **`Deployment`** - the manager's upgrade and rollback; **`SaveGames`** - the
   hooks' save files and their metadata, which are removed and written apart.

Theorems planned: lemmas about single steps on the way to the liveness
properties (what a step of the helpful action achieves, and that no other step
undoes it), that `ComponentInstaller` implements `AtomicInstall` where nothing
crashes, and the invariants of the new modules. The number of runs is kept small:
a new module takes one passing run, and related questions about one instance
share a run.
