# Verification of the IOCP chat server

TLA+ models, TLC configurations and TLAPS proofs for the chat server under
`src/Chat/Server` and its two clients under `src/Chat/Client`. `PROJECT.json` lists every run, mutant, finding,
hazard and theorem and maps each definition to the lines it models.

## 1. The system

A Windows chat server. One process, three kinds of threads and `main`:

| thread | code | does |
|---|---|---|
| `main` | `Server.cpp:289` | accepts, registers the socket in `liveSocket`, posts the first receive |
| RecvThread (one per CPU) | `Server.cpp:158` | takes completions, cuts bytes into packets, pushes jobs; runs `ClientExit` for closed connections; frees the blocks of finished sends |
| WorkThread (two per CPU) | `Server.cpp:101` | takes the job queue, runs the handler of each packet |
| SendThread (5/3 per CPU) | `Server.cpp:65` | sends queued replies |

| component | state | operations | interacts with |
|---|---|---|---|
| Sessions and rooms (`BusinessService`) | `idSet` (ids logged in), `userMap` (socket → session), `roomMap` (room → member list with its own lock), `liveSocket` | `UserEnter`, `InitUser`, `LOG_OUT`, `RoomMake`, `RoomEnter`, `FriendGo`, `\out`, `BanUser`, `ClientExit`, queries and talk | called by WorkThreads (packets) and RecvThreads (`ClientExit`); queues replies |
| Packet framing (`PacketReading`, `DataCopy`) | `PER_IO_DATA` of the receive: mode, buffer, `recvByte`, `bodySize`, `recvBuffer` | `PacketReading`, `DataCopy`, `Recv`, `RecvMore` | RecvThread's loop |
| Job pipeline (`Server.cpp`) | `jobQueue`, `packetCnt`, local queues | push, notify, swap, handle, `CALLCOUNT` | framing → handlers |
| Send path | two queues named `sendQueue`: a member of `BusinessService` and a global of `Server.cpp`; `sendStop` | `InsertSendQueue`, `Sendwork`, `StopSendWorker`; `EnqueueSend`, `SendThread` | handlers → `IocpService` |
| Block pools (`MPool`, `CharPool`, `ConcurrentQueue`) | queue of free blocks | `Malloc`, `Free` | everybody |
| Accounts and friends (`Dao`, handlers) | tables `cso_id`, `cso_relation`, `cso_login` | `UserMake`, `UserEnter`, `InitUser`'s statements, `FriendAdd`, `FriendDelete`, `FriendInfo` | database (external) |
| File transfer (`FileService`, client's `FileSend`, `RecvFileThread`) | one UDP socket, the `Downloads` folder | `RecvFile`, `SendToRoomFile` | a WorkThread, `Sendwork`, clients |
| `IocpService` and the completions | operations the kernel has, the block and buffer of each, open handles | `Recv`, `RecvMore`, `SendToOneMsg`, `SendToRoomMsg`; the completion branches of RecvThread; accept | everybody who sends; pools; `ClientExit` |
| Console client (`Client.cpp`) | `clientStatus`, one per process, no lock | `SendMsgThread` (keyboard), `RecvMsgThread` | the server, by packets and their statuses |
| Bot client (`BClient.cpp`) | `makeQueue`, `sendQueue`, `clientMap` under `userCs` | `MakeMsgThread`, `SendMsgThread`, `RecvMsgThread` | the server |
| Client pools | queue of free blocks | `Malloc`, `Free` | the clients |
| Value objects (`Vo.h`) | strings of fixed sizes | setters that copy 10 or 20 bytes | handlers → `Dao` |
| `Chat/MemoryPool`, `Redis`, `Socket` | – | – | see section 8 |

What is hard here. The tables have one lock each and handlers take them one
after the other, so every handler is a sequence of critical sections that
others interleave with. Some reads take no lock. Nothing keeps two packets of
one connection from being handled by two WorkThreads at once, or a packet from
being handled while a RecvThread tears its connection down. Socket handles are
reused by the operating system. TCP cuts the stream anywhere. Condition
variables and swaps carry jobs and replies between threads. UDP loses in both
directions, one UDP socket serves all transfers, and the thread that reads it
waits without a timeout. Names are cut on their way between packets, sessions
and the database, not everywhere at the same length.

What makes each part correct:

* sessions: one connection per login text, none locked out, sessions only of
  connected users, every connected socket is live;
* rooms: member lists and sessions agree, empty rooms are deleted and only
  these, lookups find the room, locks belong to the room they protect;
* framing: what is delivered is what was sent, whole and in order;
* jobs and replies: none lost, none repeated, all handled in the end;
* pools: a block has one owner, `top()` finds a block;
* completions: a block belongs to one operation, a connection has one receive,
  clients that are gone are closed and no others;
* accounts: a stored account stays as it is and is what one client asked for,
  users have the friends they were told of, the login log agrees with the account;
* clients: what a client takes for its status becomes the server's;
* files: the file stored is the file sent, and the members get it.

## 2. Modules

| module | models | extends |
|---|---|---|
| `BusinessService` | sessions, rooms, connections | – |
| `BusinessServiceProofs` | theorems about all safety properties of `BusinessService` and its refinement | `BusinessService`, TLAPS |
| `LoginService` | what the login handlers promise (abstract) | – ; instantiated in `BusinessService` |
| `PacketReading` | framing of one connection | – |
| `PacketReadingProofs` | theorem: safe splits keep the framing | `PacketReading`, TLAPS |
| `JobPipeline` | RecvThreads, job queue, WorkThreads | – |
| `JobPipelineProofs` | theorems: jobs move once, in order, and are counted; replies move once; accounts, friends, logins | `JobPipeline`, `SendPath`, `Accounts`, TLAPS |
| `SendPath` | both send queues and their threads | – |
| `Allocator` | what a pool promises (abstract) | – ; instantiated in `MemPool` |
| `MemPool` | `MPool` and `CharPool`, of server and clients | – |
| `MemPoolProofs` | theorems: types, one owner, refinement | `MemPool`, TLAPS |
| `IocpLifecycle` | connections and overlapped operations | – |
| `IocpLifecycleProofs` | theorems: blocks, receives, closing | `IocpLifecycle`, TLAPS |
| `ConsoleClient` | the console client with the server its connection sees | – |
| `ConsoleClientProofs` | theorem: the client is told the session's status | `ConsoleClient`, TLAPS |
| `BotClient` | the load generator | – |
| `BotClientProofs` | theorems: one entry per bot, no status lost, types | `BotClient`, TLAPS |
| `Accounts` | account, friend and login statements | – |
| `FileTransfer` | `\send` from client to members | – |
| `FileTransferProofs` | theorems: the file stored, the members' downloads | `FileTransfer`, TLAPS |
| `MC…` | constants and symmetry of the runs | the module it is named after |

### BusinessService

State: `live`, `idSet`, `userMap` are the tables of the class; `roomMap` is
split into the set `rooms` of names and `userList`, the members of each; `open`
and `accepting` are the operating system's view of the handles; `pc` and `loc`
are the next step and the local variables of every thread's handler.

A step is one critical section, or one read without a lock. `ClientExit`, for
instance, is `ClientExit` (closesocket), `ExitLive` (liveSocket), `ExitFind`,
`ReadId`, `EraseId` (idCs), `ReadStatus`, then for a member of a room
`ReadRoom`, `LeaveList` (listCs), `ResetSession` (userCs), `EraseRoom` (roomCs),
and at last `Drop` (userCs). `BanUser` and `\out` share the steps that are the
same code. Packets carry what handlers tell apart: a direction and a room name,
nickname or login text. A member list is kept as a set: `list::remove` removes
every copy, and apart from sending only emptiness is looked at. The database's
answers in `UserEnter` and `FriendGo` are a free choice.

Undefined behaviour. `BadDeref` is the dereference of an `end()`; `DataRace` is
an access to a container that another thread is changing under no common lock.
`Fault` takes the server to `"crashed"`; in a race the ordinary step is possible
too. Properties are about everything up to that point.

Names. The text a client logs in with plays two parts. `selectUser` is given its
first 10 bytes (`Vo.h:33`), and so decides on the account (`Account`); `idSet` is
asked for, and given, the whole of it (`BusinessService.cpp:649`, `:660`). The
session keeps it by a `strncpy` of `NAME_SIZE` bytes, as it keeps the name of a
room: of a text that long (`LongNames`) no terminator is left, and what is read
back is `Garbled`.

Overlap. Nothing keeps handlers of one connection apart. WorkThreads swap out the
whole queue (`Server.cpp:116`), so two of them may have packets of one connection;
RecvThreads run `ClientExit` at any time; a ban comes from another connection; and
accept may return a handle as soon as `closesocket` has been called, before
`ClientExit` is done with it. The clients of the repository do not wait either: the
console client sends whenever a line is typed (`Client.cpp:342`) and a bot is queued
again right after `WSASend` (`BClient.cpp:287-289`). All of this is in the model,
without a guard. Two history variables record it, which no action reads:
`overlapped`, the handles that two handlers have had in hand at one time, and
`spoiled`, the login texts that handlers of such handles have used. The properties
about one connection are stated for connections that are not in `overlapped`, and
those about login texts for texts that are neither `spoiled` nor too long (`Sound`).
They say what the locking achieves: a connection whose handlers do not overlap is
sound whatever the other connections do, overlapping or not. What overlapping
connections lose is in section 3.

### The other modules

* `LoginService` is the login text each connection is logged in with, and the set
  of texts that are forsaken, about which nothing is promised any more.
  `IsLoginService` maps `BusinessService` to it: a connection is logged in from
  the insertion into `idSet`, before `InitUser` stores the session, to the erase
  from `idSet`, before the session goes.
* `Allocator` is the blocks each user has. `IsAllocator` maps the pool to it:
  `top()` is `Malloc`, the push of `Free` is `Release`, a hand-over between
  threads is `Pass`, everything else is a stutter.
* `IocpLifecycle`: `pending` are the operations the kernel has, each with its
  handle, block and buffer; `conn` says which connection an open handle stands
  for, so that an operation meant for an earlier one is recognised. `Post` and
  `Refuse` are the two outcomes of every `WSARecv` and `WSASend`, whose results
  nobody tests. `lost`, `deaf` and `recycled` are history: blocks nobody will give
  back, connections whose receive was refused, connections that got a handle
  while somebody still worked on its previous use. The pools are single steps,
  which `IsAllocator` justifies.
* `ConsoleClient`: `SendMsgThread` tests `clientStatus` three times, a step each;
  `RecvMsgThread` stores the status of a packet. The server's part is composed
  in: a handler is the sequence of its effects on the connection (`Set`, `Join`,
  `Leave`, queued replies), other members broadcast directly or through the
  queue, and bans happen. Several WorkThreads take the packets in any order, and
  handlers of the connection, bans included, may run at once; `overlapped` records
  that they did. At most one thread runs `Sendwork`, which is what the comments
  intend; `main` starts none (`send_wiring`), so nothing is assumed of its progress,
  and without it the client hears broadcasts only.
* `BotClient`: the queues hold sockets; `CopyMap` and `SetClientMap` are the two
  halves of a critical section of `userCs`. The constants `MakeShare`, `MaxMakers`,
  `SendShare`, `MaxSenders` are the literals of `main`. A pop from an empty queue leaves an
  uninitialised `INFO_CLIENT`, which may look like a job (`Garbage`).
* `PacketReading`: bytes are stream positions, so a wrong, missing or repeated
  byte is seen. `Completion` returns any number of bytes; `PacketReading` is one
  round of RecvThread's loop. Each branch of the C++ function is one operator
  (`FirstPart`, `HalfHeader`, `RestOfHeader`, `RestOfBody`). Once two bytes are
  taken for a length no packet starts with, the model stops (`"lost"`). The
  clients contain copies of the same function.
* `JobPipeline`: one action per critical section of RecvThread and WorkThread.
  A receive that ends inside a packet is continued (`RecvMore`) before the batch
  is pushed, as in the code. `FileSends` are the jobs whose handler is in `RecvFile`
  until an empty datagram comes: such a handler need not return.
* `SendPath`: one set of operators for both queues; constants say which threads
  call what. `main` starts SendThreads only. `wait` with a predicate is two steps
  (`PredicateFalse`, `Block`), because `sendStop` is stored without the lock.
* `MemPool`: `Malloc` is `empty()`, pushes, `top()`, each locked separately; the
  clients' pools use a concurrent queue in the same way.
* `Accounts`: one action per SQL statement; the table's primary key refuses a
  second row (external, from `chatTable.sql`). The setters and the bound columns cut
  texts: `setUserId` and `setPassword` leave 10 bytes (`Cut10`; `Vo.h:33`, `:68`), and
  what is read into a `char[10]` is 9 bytes (`Cut9`; `Dao.cpp:78`, `:79`, `:237`). So an
  id of 11 bytes makes the account of its first 10, a password of 10 bytes lets in
  with its first 9, and a friend with an id of 10 bytes is stored as another id.
  `InsertUser` has no result and may fail for any reason: a password of 10 bytes has
  no terminator in `UserVo`. `InsertRelation` and `DeleteRelation` may fail and report
  it. A login updates `lastlogdate` and inserts into `cso_login`, two statements with
  two dates; the clock `now` counts to `MaxDate`, so that two logins may share a date
  or not.
* `FileTransfer`: the client's datagrams, `RecvFile` in WorkThreads, `Sendwork`'s
  `SEND_FILE` and the members' `RecvFileThread`. Datagrams in either direction may
  be lost or overtake each other (at most `MaxFaults` times), transfers may overlap,
  members may leave, and a member whose address cannot be connected to is passed
  over. Two history variables: `disturbed` records that transfers to the server
  overlapped, a sender left or a datagram to the server was lost or early; `missed`
  are the members that did not get their datagrams in order. Nothing in the code
  repairs either, so what is promised is promised up to then. One room; the room's
  `listCs` admits one sender at a time, so one `Sendwork` suffices.

## 3. Runs

Passing runs:

| run | bounds | shows |
|---|---|---|
| `sessions` | 2 connections, 2 login texts of one account, one of them too long for a session, 2 rooms, one named like the account and one too long, 2 WorkThreads, 1 RecvThread; a connection overlaps once, the other not (983,036 states) | types; `NoDuplicateLogin`, `NoOrphanId`, `RoomsMatchSessions`, `SessionsOfConnectedUsers`, `ConnectedSocketsAreLive`, `LookupsFind`, `RoomChangeViaLobby` but for what has overlapped; `NoEmptyRoomLingers`; `IsLoginService` (refinement) |
| `framing` | packets of 4, 6, 3, 5, 4 bytes, receives of up to 13 | `SafeSplitsKeepFraming`, `AllDelivered` |
| `jobs` | 2 connections with a file and another packet each, one of which splits packets; 2 threads of each kind, fairness but for `RecvFile` | `EveryJobOnce`, `QueuesInOrder`, `PacketsCounted`; `EveryJobHandled`, `ReceivesGoOn` |
| `sends` | both queues with a thread that drains each, and a stop | `EveryReplyOnce`, `ReplySent` |
| `pool` | 2 threads, 2 blocks growing by 2 | `BlockHasOneOwner`; `IsAllocator` (refinement) |
| `iocp` | 1 handle used for 2 connections, 2 RecvThreads, 1 sender, 2 receives with data, a reply and the greetings | `BlocksAccounted`, `OneReceive`, `NobodyIsCutOff`, `GoneIsClosed` |
| `console` | 4 packets of the user, 2 once handlers have overlapped; 2 WorkThreads; 1 ban or broadcast | `InStep`, `CatchesUp` |
| `bots` | 2 bots, 2 threads that make messages, 1 that sends, 2 that receive; a reply under way to each bot | `EveryBotOnce`, `LastStatusKept`, `EveryBotServed` |
| `accounts` | 2 threads, ids of 9, 10 and 11 bytes that begin alike, passwords of 9 and 10 that do and another, 2 nicknames, 2 dates; 2 accounts told of, 1 login and 1 friend at a time (1,569,812 states) | `AccountsStay`, `StoredWasCreated`, `FriendsAsTold`, `LastLoginIsLogged` |
| `files` | 2 members, each with a file of the same name, of 2 chunks and of 1; 1 datagram lost or early in either direction, 2 on their way to members (5,319,479 states) | `StoredAsSent`, `RecvFileIsFed` while nothing is `disturbed`; `ClientsInStep` for members not in `missed` |

Two runs are violations, disagreements of the code with comments or messages of the
repository (quoted under `findings`):

* `file_delivery`: `SendToRoomFile` reports that everything is delivered and the
  queued entry is called a broadcast, but the file is not rewound between members
  (`FileService.cpp:76`): without any fault, every member but the first that is
  served gets an empty file, and `EveryMemberHasFile` fails.
* `send_wiring`: as `main` starts the threads, nobody drains the queue that
  handlers fill, and `ReplySent` fails.

Further behaviours the models contain, for which no run is kept:

* a connection whose handlers overlap loses what the properties promise the others.
  Each of them has a behaviour of this kind, which the exemption of `overlapped` or
  `spoiled` leaves out:
  * `SessionsOfConnectedUsers`: `ClientExit` runs between the insertion into `idSet`
    and `InitUser`, and a session without a connection stays (`BusinessService.cpp:183`),
    until the handle is used again. For this reason it is not claimed that closing a
    connection always cleans up;
  * `NoDuplicateLogin`, `NoOrphanId`, `IsLoginService`: a late `LOG_OUT` erases the
    text of a newer login (`:320`); two logins of one connection with different texts
    leave the first in `idSet` without a session (`:660`), and it is locked out;
  * `ConnectedSocketsAreLive`: the handle is reused between `closesocket` and the
    erase from `liveSocket` (`:210`), and packets of the new connection are dropped;
  * `RoomChangeViaLobby`, `RoomsMatchSessions`: two `ROOM_ENTER`s that both read
    `STATUS_WAITING` put the connection into two rooms, of which it leaves one;
  * `LookupsFind`: two `\out`s, or a `\out` and `ClientExit`, and the second finds
    neither room nor session;
  * `InStep` and `CatchesUp` of the console client: a `ROOM_ENTER` and a `LOG_OUT` or a
    ban queue their replies in another order than they change the session;
* an account whose id has 10 bytes is logged in several times at once, under texts
  that begin with it (`:649`); a text or room name of `NAME_SIZE` bytes is not found
  again when it is to be erased or left (`:707`). `NoDuplicateLogin` and
  `IsLoginService` are therefore about texts, not accounts;
* a password of 10 bytes does not let its owner in, its first 9 bytes do
  (`Dao.cpp:79`); a friend with an id of 10 bytes is reported as added and never shown
  (`Dao.cpp:237`); `FriendsAsTold` is about ids that are read back whole (`ReadsBack`);
* `RoomEnter` and `FriendGo` look the room up a second time, when it may have
  been deleted (`:757`), without any overlap; `LookupsFind` exempts these two lookups
  and the room whose name was too long, and no other;
* most splits of a packet over two receives are resumed wrongly (`:536`, `:546`);
  those that are not are `SafeRest`, and `SafeSplitsKeepFraming` is about these;
* a completion of an earlier connection closes the connection that got its
  handle, or posts a second receive for it (`recycled`, `Server.cpp:209`); after a
  refused `WSARecv` nobody watches the connection (`deaf`); blocks of refused calls
  and buffers of failed operations are not given back (`lost`);
* with fewer than 10 bots no MakeMsgThread is started, and the bots stay silent
  (`BClient.cpp:581`);
* `FriendGo` takes the lock of the room named like the friend, not of the room it
  inserts into (`:1055`);
* a stop that falls between `Sendwork`'s test and its wait is not noticed
  (`:1207`);
* two `Malloc`s that both see the last block reach `top()` of an empty queue
  (`MPool.cpp:38`);
* clients may be told of an account that another has, or that is not stored at all
  (`:597`), and a deletion that deleted no row is reported as done (`:1094`);
* datagrams of two transfers end up in one file (`FileService.cpp:119`); after a
  lost datagram a `RecvFile` waits for ever, with the jobs its thread has taken, and
  a member's `RecvFileThread` takes the next name for a chunk (`Client.cpp:448-485`).

Why the bounds are enough. Conflicts are between two handlers, or between two
handlers and `ClientExit`; two WorkThreads, one RecvThread and main contain all
of these. Two sockets make a duplicate login possible and let one connection overlap
while the other does not, which is the one the properties speak of. After an overlap
the two handlers go on to their end, in any order, and no third is started for that
connection (`OverlapsOnce`): the properties are about what reaches the other. One
room is made, left, deleted and made again; the second, with the long name, is
needed to see a session go from one to another and is kept apart from the long
login text and from overlaps (`LongNamesApart`). Accounts are their own
nicknames and a room may have such a name, which is what `FriendGo`'s lookup
needs. In `framing` the packets include the shortest, an odd and an even length,
and a receive may hold the rest of a packet and more than its whole length,
which every branch needs. Two threads suffice for the queues, as steps are
atomic sections of one lock, and two packets in one connection for their order;
the pool is used up and grows. In `iocp` one handle is enough, because handles
meet only by being reused. In `console` four packets are a login, a room, and two
more that may be handled in another order, with one event of somebody else at any
point; after an overlap both properties are silent, and two packets show that it
happens. In `jobs` the files make it possible that one WorkThread is kept for ever,
or both. In `files` two datagrams on their way to members, of one or of both, are
enough for one to overtake or to be missed by the other (`FewOut`); in `accounts`
two makers of one id, a login and a friend are what the statements interleave with. In `bots` two receivers compete for `clientMap` and two bots for the
threads; the shares are scaled to 1 and 2, so that two makers are started, one of
which may find its queue empty at the start. Replies that arrive together are cut
apart as `framing` shows; here each comes with a completion of its own.
Deadlock checking is off where the work is bounded and then over: `files` (every
client sends one file, also in `file_delivery`), `sends` (the replies are sent and the threads have
stopped or wait), `iocp` (connections and replies), `console` and `bots` (the
process ends). Symmetry is used for sockets,
threads and values only in runs without liveness.

Fairness. The modules with liveness assume weak fairness
of threads that are inside a handler or a loop: they are operating-system
threads of equal priority, and locks are held for single steps. The exception is
`RecvFile`, which waits for datagrams without a timeout: in `JobPipeline` a
WorkThread that runs it, and in `ConsoleClient` the effect that stands for it, have
no fairness, and `EveryJobHandled` says which jobs it may hold up (`HeldUp`). In
`ConsoleClient` nothing is assumed of `Sendwork` either, which `main` does not start:
`CatchesUp` is about replies that do not stay in the queue. Nothing is
assumed about users and clients, and spurious wake-ups are possible but not
relied on. In `PacketReading` the bytes the client has sent arrive, in
`ConsoleClient` the packets do, and in `IocpLifecycle` the kernel reports
operations that have failed. `BotClient` assumes strong fairness of a maker that
wants `userCs`, which RecvMsgThreads take again and again: a critical section
that is always left is entered in the end.

Every module has a `TypeOK` (`SendTypeOK`, `AccountsTypeOK`), the ranges of its
variables. It is part of the runs
`sessions` and `pool`; in the others it holds on the same
instances (add it to the cfg's invariants to see) and the runs are kept for the
properties that say more.

Every property of a passing run has a mutant: a definition changed as a bug
would change it, with which TLC finds the property violated.

## 4. What is proved

Every invariant, action property and refinement of the runs is a theorem, for every
value of the constants; section 5 names what is left. Sets of threads, sockets,
clients, accounts and packets need not be finite (bots are), and files, queues and
pools have any length. Each theorem rests on an inductive invariant that TLC checked on the run's instance
before it was proved (the state counts below are of these checks).

A theorem about a component rests on the named assumption of its module, which TLC
evaluates in every run of the module. `JobPipelineProofs` is about what WorkThreads
do: the jobs they take, the database they ask and the replies they queue. It extends
all three modules, so the names of their specifications differ (`Spec`, `SendSpec`,
`AccountsSpec`, and so on).

**Sessions and rooms** (`BusinessServiceProofs`; 983,036 states), from
`ConstantsAssumption`: threads of two kinds are different and the markers are no
names. None assumes anything of clients: handlers overlap as in the model.

* `TypeCorrect` (`TypeOK`). Invariant `TypeOK /\ LocalsOK`: `LocalsOK` says which
  locals a handler's label promises (a room name while it makes or enters a room, an
  id while it logs in); without it `EraseSession` or `RoomMake` could store anything.
* `EmptyRoomsAreDeleted` (`NoEmptyRoomLingers`), for all connections and rooms. Only `LeaveList`
  makes a room empty and the same handler still has `reset` and `erase` before it;
  only `EraseRoom` ends that, and it deletes the room if the list is still empty.
* `LoginsAreUnique` (`NoDuplicateLogin`). `idSet` alone says nothing about
  sessions; `LoginInv` adds that a connection that is not overlapped has one handler
  (`OneHandler`), that sessions and handlers of overlapped ones hold only spoiled or
  garbled texts (`Spoilt`), so that a late erase hits no other, that texts of sessions
  which nobody tears down and of logins under way are in `idSet` (`IdsHeld`,
  `LoginsHeld`) and different (`IdsDistinct`), and that `ClientExit` removes the text
  of the session it then drops (`IdRead`).
* `NoAccountLockedOut` (`NoOrphanId`), `ImplementsLoginService` (the refinement
  `IsLoginService`) and `RoomsChangeViaLobby` (an action property), from
  `SessionInv`, which adds the status a session has at each step of a handler
  (`StatusOK`): the handler read it, and nobody else changes it.
* `SessionsAreConnected` and `OpenSocketsAreLive` (`SessionsOfConnectedUsers`,
  `ConnectedSocketsAreLive`), from `ConnInv`, which adds who may be closing a
  connection and which sockets are live (`Connections`).
* `RoomsMatch` and `LookupsSucceed` (`RoomsMatchSessions`, `LookupsFind`), from
  `RoomInv`, which adds what a handler knows of the room while the room's list and
  the session disagree: between the two critical sections of making, entering and
  leaving (`Makers`, `Leavers`), and that long names are in no session
  (`ShortNames`). A room in which a sound connection is a member stays, also when
  overlapping connections are in it.

**Block pools** (`MemPoolProofs`), from `PoolAssumption` (sizes are natural numbers).

* `PoolTypes` (`TypeOK`); `OneOwnerPerBlock` (`BlockHasOneOwner`): a block is in the
  queue once or with one thread, and none is missing. `Free` appends a block its
  thread has and `top()` takes the head, so the queue stays free of repetitions; the
  step that needs more is the growing of the pool, where new blocks are neither
  queued nor held: the invariant adds `FreshWhileGrowing`, that only a thread inside
  that loop has such blocks.
* `PoolImplementsAllocator` (the refinement `IsAllocator`). The mapping drops the
  queue and keeps what the threads hold; that the block `top()` returns is nobody's
  is `BlockHasOneOwner`.

**Job pipeline** (`JobPipelineProofs`; 208,782 states).

* `JobsMoveOnce` (`EveryJobOnce`). Invariant `Once`: a received job is in a batch,
  in `jobQueue`, in a local queue, running or done (`Somewhere`), in one of them only
  (`NowhereElse`) and once (`NoRepeats`), and a WorkThread swaps queues only when its
  own is empty (`TakenIsRun`), so that the swap loses nothing.
* `JobsStayInOrder` (`QueuesInOrder`). A batch is pushed behind what its connection
  already has in the queue: `Order` adds that a connection whose packets are whole
  has one receive at a time (`OneReceiver`) and that what is queued precedes the
  batch (`BatchesInOrder`).
* `CountsAddUp` (`PacketsCounted`): `packetCnt` and what `CALLCOUNT` reported add up
  to the jobs pushed, which are finitely many.

**Send path** (`JobPipelineProofs`; 85,840 states), from `SendAssumption`: a thread
belongs to one queue. `RepliesMoveOnce` (`EveryReplyOnce`), with parts as for jobs:
`ReplySomewhere`, `ReplyNowhereElse`, `QueuesNoRepeats`, `TakenIsSent`. It holds for
any wiring of threads to the two queues, the one of `main` included: a reply nobody
sends stays in its queue. `SendTypes` is its `SendTypeOK`.

**Completions** (`IocpLifecycleProofs`; 163,197 states).

* `BlocksHaveOwners` (`BlocksAccounted`) and `LifecycleTypes`. Invariant `BlockInv`:
  for each kind of block, what is taken from the pool is with one operation, with
  one thread or lost, and nothing is in two places. `HandOver` is the one lemma about
  a step that gives up a block and hands another one on; every action is an instance
  of it, once per kind.
* `NobodyIsClosedEarly` (`NobodyIsCutOff`, an action property). `CloseInv` says that
  an operation's handle stands for the operation's connection, for none, or for a
  recycled one (`HandlesKnown`), and that only the end of a connection leads to
  `ClientExit` (`ExitsForReason`).
* `ReceivesOneAtATime` (`OneReceive`). `Receives`: a connection that is neither
  recycled nor deaf has one receive, with the kernel or in one thread's hands.

**Accounts** (`JobPipelineProofs`; 1,569,812 states), from `AccountsAssumption`: a cut
text is a text, `None` is no account and no date. `AccountsAreKept`,
`AccountIsOneOfThose`, `FriendsAgree`, `LoginsAreLogged` and the types
(`AccountTypes`), for any cuts. A handler's statements are no transaction; what the
second may rely on is that an account is never changed or removed (`AccountsStay`,
`FriendsExist`), that rows are what users were told as far as ids are read back
(`RowsAsTold`, `StoredWasCreated`) and that `getdate()` does not go back (`DatesPast`).

**File transfer** (`FileTransferProofs`; 5,319,479 states), from `FileAssumption`: a
file has at least one chunk and `None` is no client.

* `DownloadsInStep` (`ClientsInStep`), whatever happens to the datagrams on their way
  to the server and to other members. `InStep`: what is on its way to a member
  continues what it has got, a name comes first or after an end and nowhere else, and
  all of it is complete just when the server is not sending to that member (`Follows`).
* `TransfersOneByOne`: until the first disturbance the system is in one of seven
  phases (`Phase`), from the announcement over the parts of one client's file, in the
  order they were sent (`Coming`), to the members. The action lemmas show which phase
  each step leads to, and that the datagram `recvfrom` returns is the next part.
  From it `FilesStoredAsSent` (`StoredAsSent`) and `RecvFileNeverStarves`
  (`RecvFileIsFed`).

**Packet framing** (`PacketReadingProofs`; 3,913 states), from `SizeAssumption`: a
packet has a body and fits into a buffer. `FramingKept` (`SafeSplitsKeepFraming`) is
for any packets and any way the stream is cut into receives. Invariant `FramingInv`:
until a split is unsafe, just the first packets have been handed on (`HandedOn`) and
what the receive keeps is what has arrived of the next one (`Stage`): nothing, the
first byte of its header (`HasHalf`), or more but not all (`HasPart`), while waiting
or with bytes still to be read behind it (`Reads`, `ReadsHalf`, `ReadsPart`). Each
branch of `PacketReading` leads from one stage to another, and the cut `SafeRest`
allows is what makes the copied bytes follow on. That positions belong to one packet
rests on the recursive `End` increasing; an induction over the packets is replaced by
the least counterexample (`LeastNat`, from the well-foundedness of `<`).

**Console client** (`ConsoleClientProofs`; 1,191,262 states). `ClientInStep` (`InStep`).
Invariant `ToldInv`: until handlers of the connection overlap one runs at a time
(`Alone`), and what is left of it (`Between`, `Entering`,
`Leaving`) says whether the connection is a member of a room, and whether the last
status under way is the session's. `Told` looks for that status first in `sendQueue`,
then in the batch `Sendwork` has taken, among packets on their way, and in
`clientStatus` itself, and counts a queued reply to the room only while the connection
is a member. Joining and leaving may therefore change it: the invariant claims nothing
about it between such a step and the handler's own reply.

**Bot client** (`BotClientProofs`; 309,968 states), from `BotAssumption`: finitely many
bots, shares that are not 0, and values for an unset socket and for nobody that are
no bot.

* `BotsKeepOneEntry` (`EveryBotOnce`). The property counts places; the invariant
  `QueuesInv` says where the one entry is: once in one queue and nowhere else, or
  with one thread (`OnePlace`), while the process runs. An entry of garbage, from a
  pop of an empty queue, may be queued too and disturbs none.
* `NoStatusLost` (`LastStatusKept`). Every receiver copies the whole of `clientMap`
  and stores it back; `ReceivesInv` says why nothing is lost: a bot has one reader
  (`OneReader`), a copy is held inside `userCs` and is still the map
  (`CopyIsCurrent`), and the last status sent is the last that arrives, that is being
  read, or the one in the map (`LastUnderWay`).
* `BotTypes` (`TypeOK`).

## 5. What is only model-checked

* Liveness (`EveryJobHandled`, `ReceivesGoOn`, `ReplySent`,
  `AllDelivered`, `GoneIsClosed`, `CatchesUp`, `EveryBotServed`): fairness is out of the
  prover's reach.

All other properties of the runs are theorems. `TypeOK` of `ConsoleClient`,
`PacketReading`, `JobPipeline` and `FileTransfer` is checked on the instances only; the
proofs there carry the ranges they need.

## 6. Running

In this directory: `tlc -config <run>.cfg <module>` with module and cfg of
`PROJECT.json`, and `tlapm <module>.tla` for each module named `...Proofs`. With two
workers a run takes up to three minutes, a proof module up to a few minutes.

## 7. Plan

Done: the modules and proofs above. Left, in this order:

1. an abstract channel with workers that `JobPipeline` and `SendPath` implement;
2. the contents of `CharPool` blocks: the copy beyond the packet and what `Free`
   clears.

## 8. Not modelled

* `Chat/MemoryPool`: a stand-alone comparison of pools that nothing else uses;
  single-threaded variants of a list, a queue and a stack, without a protocol.
* `Redis`: single commands, without a caller. `Socket`: a straight sequence of
  Winsock calls at start-up. Build files.
* Value objects, but for their setters' cuts of ids and passwords (`Accounts`,
  `BusinessService`). Nicknames are modelled as what `setNickName` leaves of them: it
  cuts the name that is stored and the name that is looked up alike.
* failures of the database other than of the inserts of accounts and relations, the
  deletion of a relation and the key of the login log: a `selectUser` or
  `findUserId` that fails leaves its buffers unset.
* the tables `cso_direction`, `cso_chatting` and `cso_filerecv`, which the program
  writes and never reads.
* the contents of blocks: what `DataCopy` reads beyond a packet, and what is in a
  block after a receive of no bytes.

Texts, colours and logging are left out everywhere. What the server does after
it has lost the packet framing depends on the text of messages and is not
followed. Each member has a UDP port of its own; two clients on one machine, which
would share it, are left out. The
reference to a local variable that `ConcurrentQueue::top` returns is taken to
yield the value, as it does in practice.
