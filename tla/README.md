# p2p-chess-app in TLA+

The program lets two people play chess over a direct TCP connection. A *central
server* introduces them: the **host** creates a game and is given an id, tells the
id to a friend, the **guest** joins with it, and the server sends the host the
guest's address so that the two can connect to each other.

This directory holds TLA+ modules of that program, TLC configurations that check
them on small instances, and TLAPS proofs of what matters most for every value of
the constants. `PROJECT.json` is the index: components, runs, the source lines each
definition stands for, one mutant per property, hazards, findings, theorems.

    tlc -config RobustSyncRead.cfg RobustSyncRead.tla     # a run
    tlapm RobustSyncRead_proofs.tla                       # the proofs of a module

## 1. The system

The repository is at an early stage: the libraries are complete and tested, the
client's state machine is written up to the moment the host waits for its guest,
and the server accepts one client and ends. Several files do not compile as they
stand (section 7).

| component | source | state it keeps | operations |
|---|---|---|---|
| robust read / write | `utils/robust_read_write` | bytes done, time left, what `poll()` reported | `RobustSyncRead`, `RobustSyncWrite` |
| timer | `utils/timer` | start time | `GetElapsedTime`, `CalcRemainingTime` |
| messages | `api`, `utils/integer_serialization.hpp`, `utils/span_utils.hpp` | none | `Serialize`, `Deserialize` of five messages |
| addresses | `networking` | none | constructing and comparing socket addresses |
| game database | `game_db`, `primitives/game_id` | `Storage_`, the static generator of ids | `CreateNewGame`, `AddPlayerToGame` |
| tcp client | `client/tcp_client` | one descriptor, -1 when moved from | `CreateNew`, `Connect`, `Disconnect`, `Send`, `Receive`, move, destructor |
| tcp acceptor | `client/tcp_acceptor` | one descriptor | `FromTcpClient`, `AcceptExpectedPeer` |
| client state machine | `client/main.cpp`, `client/state*` | the current `NState::State` | one handler per state, `LogErrorAndExit` |
| user client | `client/user_client` | none | `ActOn` of three states: prompts, tells, asks |
| tcp server | `server` | the listening descriptor | `CreateNew`, `Listen`, `Accept`; `main` |

**How they interact.** `main()` of the client runs handlers one after the other;
each takes the state and returns the next. A handler serializes a message, hands the
bytes to `TcpClient::Send` (a `RobustSyncWrite` with a deadline), waits with
`TcpClient::Receive` (a `RobustSyncRead` of exactly the expected size, with a
deadline) and deserializes. The server would answer from the game database. All
components are single-threaded, but several *processes* run at once, and a
`RobustSyncRead` may be cancelled by another thread through a descriptor.

**What is hard here.**

- *Interleaving*: between the snapshot `poll()` reports and the call it leads to,
  the peer may write, close, reset or give up; several clients race for one seat.
- *Time*: each wait recomputes what is left of a deadline from a clock truncated to
  milliseconds, after any number of interruptions; an answer may come just after
  its reader gave up.
- *Failure*: short reads and writes, `EINTR`, `EAGAIN`, resets, lost connections, a
  server that is restarted and forgets its games but draws the same ids again.
- *Order*: both ends read fixed sizes that depend on what they expect; the address
  of the guest may be on the stream before the host has read its own answer.
- *Limits*: a full database, a full kernel buffer, a generator that repeats itself.
- *Ownership*: a descriptor moves from object to object and is closed by destructors.

The full list, each at the line where it bites, is in `PROJECT.json` under
`hazards`, with the properties that would catch it going wrong.

**What makes each component correct.** A transfer delivers an exact prefix and fails
only for a reason, never early, and always ends. The database never gives a seat
twice, never outgrows its capacity and always finds an id. The acceptor lets in the
expected peer only and leaks nothing. What a message says survives the wire and a
reader who expected something else notices. What a client believes about its game is
what the server keeps, and nobody waits for ever.

## 2. Modules

Each component has a module; each variable is named after the code's where it has
one. `X_proofs` holds the theorems about `X`.

| module | models | built on |
|---|---|---|
| `Timer` | milliseconds from a clock of `TicksPerMs` ticks; `CalcRemainingTime` | |
| `Transfer` | **abstract**: a one-shot call that moves bytes, in order, and ends once | |
| `RobustSyncRead` | the read loop with peer, canceller, clock, kernel | `Timer`, implements `Transfer` |
| `RobustSyncWrite` | the write loop with peer, clock, kernel, `SIGPIPE` | `Timer`, implements `Transfer` |
| `GameRegistry` | **abstract**: two seats per game, taken one at a time | |
| `GameDB`, `MCGameDB` | the database, its generator, restarts, invitations | implements `GameRegistry` |
| `TcpAcceptor` | `FromTcpClient`, `AcceptExpectedPeer`, `~TcpClient` | `Timer` |
| `TcpClient` | the client's one socket: owners, port, connection, from `CreateNew` to the acceptor | |
| `TcpServer` | `server/main.cpp` and `TcpServer`: one listening socket, one accepted connection | |
| `MessageChannel` | **abstract**: what the two ends of a connection learn of one message | |
| `Stream` | one message: a write at one end, a read at the other | `Transfer` twice, implements `MessageChannel` |
| `Link` | a client process, the server process and a stranger | `TcpClient`, `TcpServer`, `Stream` twice |
| `Bytes`, `SockAddr`, `Wire` | integers, addresses and messages on a byte stream | one on the other |
| `ClientFlow` | **abstract**: the states and the successors `all.hpp` declares | |
| `Session` | several clients, their connections and a server | `GameRegistry`, implements `ClientFlow` |
| `ConsoleClient` | the prompt of the console, the spelling of a game id | |

### The transfers: `RobustSyncRead`, `RobustSyncWrite`, `Timer`, `Transfer`

One action per turn of the loop's code: `LoopTest` is the condition of the `for`,
`Poll...` the outcomes of `poll()`, and one action per branch after it, in the order
the branches have in the code. `pc` says which call the thread is in, so the other
actors (peer, canceller, clock) may act between any two of them. `revents` is the
snapshot `poll()` took and is *not* updated when the world changes: that is the
race the loop must survive. Bytes are named by their position in the stream. The kind
of descriptor (pipe, socket, one that is closed, the -1 of a moved-from client)
is chosen in `Init`; what `poll()` reports of each is `FdEvents`. `EINTR`, spurious
readiness and failing calls are faults that may strike anywhere, `MaxFaults` times.
Time is a count of ticks, `TicksPerMs` to the millisecond, so that truncation is
visible.

`Transfer` says what a caller is promised: bytes move in order, an ended call stays
as it is, success means all of them. Both loops implement it, with a refinement mapping
that reads `nBytesRead` (`nBytesWritten`) and the alternative of the result.

### The database: `GameDB`, `GameRegistry`

`Storage_` is two functions of the game id, `NoPlayer` where there is none. A
creation is two actions, because the loop that draws ids has no bound: `CreateNewGame`
checks the capacity, `TryEmplace` is one round. The server is one thread, so nothing
else is served in between (`creator`). `Rng` is the sequence of ids the generator
gives, the same after each restart, as the constant seed 57 makes it. `invites` and
`meetings` record what hosts told their friends and whom those then met; they exist
for one property.

### The acceptor: `TcpAcceptor`

`FromTcpClient` moves the descriptor, `DestroyClient` is the destructor of the
client it came from and may run at any later moment. Peers connect and give up at any
time, also between `poll()` and `accept4()`. `open` is the set of open descriptors.
`DescriptorsAccounted` says of it, whatever happened, that it holds the listening
socket, which nothing closes before the process ends, and the connection that was
returned, and nothing else.

### The two processes: `TcpClient`, `TcpServer`, `Link`, `Stream`, `MessageChannel`

`TcpClient` is the life of the client's socket: `CreateNew` in two steps, as the second
may fail when the descriptor exists already; `Connect`; what the handlers make of the
results of `Send` and `Receive`; the two halves of `TcpAcceptor::FromTcpClient`;
`LogErrorAndExit`. `held` are the C++ objects that own the descriptor, moved as the
code moves them and destroyed where their scopes end. `creation` tells which
`CreateNew` the process used: the one without an endpoint, the one with an endpoint as
written (it connects) and as its parameter says (it binds); all three are checked.
The kernel keeps a port that was bound and releases one that `connect()` chose when the
socket is disconnected.

`TcpServer` is the server as it is in the repository: it accepts one connection,
whoever it is from, leaves the loop and ends, and the kernel resets the rest of the
backlog. Any error of `accept4()` but `EAGAIN` ends it, too. There is no destructor for
the accepted descriptor. It is translated as its text reads: the file names types that
`sock_addr.hpp` no longer has.

`Link` runs both side by side with strangers that may connect first, and gives them
a request and an answer, each a `Stream`. A `Stream` takes the two transfers by their
contract, which `RobustSyncWrite` and `RobustSyncRead` were shown to keep, and a kernel
that delivers in order, in pieces, late or never. What comes out is `MessageChannel`:
a message may be lost, but nobody receives one whose sender was told that it was not
sent. It is why `Session` may send a request in one step: it is received whole, or a sender
that gave up cannot be served.
`Serve`, which reads the request and answers, is not in the repository and is
marked external.

### The protocol: `Bytes`, `SockAddr`, `Wire`

The layout of each message is translated as it is: type byte, codes, variant index,
memory order of integers, padding. Integers of two, four and eight bytes are all
scaled to two bytes, a byte to `Base` values, an IPv6 address to `V6Len` bytes: a swap of bytes,
a shift by one and a mixed-up field still show. The reader takes exactly as many bytes
as the message it expects and stops at its first failure. `SendForeign` writes frames
of another version of the program: one byte that this version would not put there.

### The session: `ClientFlow`, `Session`

`state` is `NState::State` of each client; `step` says whether it is before the loop
of `main()`, at a handler, or inside the handler's `Receive`. A handler that sends and
receives is two actions, as the world moves between them. `ReceiveFails` is enabled
for as long as the client waits, also when the answer is already there: a deadline may
pass first. `Lose` breaks a connection with all that is under way on it,
`Restart` ends the server, its games and its connections.

The loop that serves requests is **not in the repository**. `ServeCreate` and
`ServeJoin` stand for it and are marked external: they answer from the game database
as `game_db.cpp` does, and send the host the guest's address as the handler of
`CreatedNewGame` expects it. Creation draws any free id; that one is always found is `CreationEnds`.

Two mistakes in the client (findings below) would hide everything behind them, so
they are named and switched by the constant `Repaired`:

- `"bind"`: `TcpClient::CreateNew(clientEndpoint)` connects its socket to the
  *client's* endpoint instead of binding it, so that the later `Connect` to the
  server is made on a connected socket.
- `"dispatch"`: the lambda for `CreateNewGameResponse&&` cannot bind what
  `std::visit` passes, and the join handler visits the wrong variant, so an answer
  that was read is handled by the lambda for errors.

`Repaired = {}` is the code as written. The runs say which of the two they assume;
all other behaviour is the code's. Two theorems say what the code as written does:
without `"bind"` nobody gets past the first handler (`NobodyConnects`), and without
`"dispatch"` nobody ever hosts or joins a game (`NobodyPlays`).

A client is `Remembered` while it is connected and, as long as the server was never restarted,
also after its connection was lost: the server must then still have the seat the client believes to
hold. Who is cut off by a restart believes what nobody knows any more, and the properties say
nothing of it: in `session` the restart is there to show that it disturbs nobody who connects
afterwards, and what it does to invitations is the question of `gamedb_restart`.

`ClientFlow` is the state machine as `state_handlers/all.hpp` declares it in the
return types of the handlers, those without a body included. `HandlersAsDeclared` is that
`Session` implements it, client by client.

### The console: `ConsoleClient`

One turn of the loop extracts one word, or none at the end of the input, when the loop
interprets the last word again, for ever. As one word is never a command of two, the loop
returns nothing (`NobodyIsUnderstood`, in `Session_proofs`: `ActOnConnected` of `Session` stands for a
prompt that is understood). A game id has two spellings: `operator<<`
shows it to the host as `GameId{57}`, `from_chars()` reads `57`.

## 3. Runs

| run | question | bounds |
|---|---|---|
| `read` | exact prefix; end of file only after the last byte; no early timeout; cancellation ends a silent wait; the call ends | 3 bytes of 4, timeout 2 ms, 2 ticks per ms, 2 faults |
| `write` | which bytes the kernel gets, when the call fails, that it ends | 3 bytes into a buffer of 2, otherwise the same |
| `gamedb` | capacity, seats, answers, creation ends, implements the registry | 3 ids, room for 2, generator of period 5 that repeats, 1 restart |
| `gamedb_restart` | **violated**: who joins with a friend's id meets the friend | the same |
| `acceptor` | who is let in, which descriptors stay open, no early timeout, the wait ends | 2 connections, 2 faults, timeout 2 ms |
| `wire` | framing, delivery, failures, canonical form, byte order | 2 frames of any kind, 1 foreign byte each |
| `wire_loopback` | **violated**: the loopback address is in network order | 1 frame |
| `session` | beliefs are seats, the host waits for its guest, answers in order, handlers as declared | 3 clients, 2 games, 1 lost connection, 1 restart |
| `session_live` | nobody waits for ever, whatever the server does | 2 clients, 2 ids, room for 1 game, 1 loss, 1 restart |
| `session_join` | **violated**: who reads Success has joined | 2 clients, 1 game |
| `link` | who owns each descriptor, whether the announced port is where the host listens, what both ends learn of a message, both processes end | 1 client, 1 stranger, backlog of 2, request and answer of 2 bytes, 2 ports to choose from |
| `console` | **violated**: the prompt's command is understood | 1 id |

**Why these bounds suffice.** *Transfers*: three bytes and a stream of four allow
a first, a middle and a last partial transfer and a byte that must not be taken; a
write buffer of two forces a short write. Two ticks per millisecond show both sides of
the truncation; a timeout of two milliseconds shows a remainder that is neither the
whole nor zero. Two faults allow a retry of a retry. `MaxNow` bounds the ticks outside of `poll()`;
a pending `poll()` may always run to its end. *Database*: capacity two of three ids
has an empty, a partly filled and a full state, and a generator that draws a taken id
right away and a stored one after wrapping round. *Acceptor*: the stranger may come
before or after the peer, and either may give up. *Wire*: two frames are needed for
one message to be read as part of another; the three foreign bytes are a valid code, an
invalid one and zero. *Session*: a host, a guest and a rival for the same seat; two
games so that an answer about one could be taken for the other; one loss and one restart
each strike at every step of every client. *Link*: one stranger is enough to be accepted
instead of the client; with two bytes a message can be torn; of two ports the kernel can
choose another one the second time. No run needs symmetry.

Actions whose branches the bounds must reach are covered: between them the passing
runs fire every disjunct of every next-state relation, and each property has a mutant,
a plausible bug in one definition, that the run of that property detects.

`CHECK_DEADLOCK FALSE` appears only where a call, a process or a bounded input comes to
its end. The database never does, and its runs check for deadlock.

**What some properties leave out.** `Returns` of the write counts a process killed by `SIGPIPE` as
ended; `ResultHasItsReason` says when that can happen. `DeliversWhatWasSent` compares addresses up
to the scope of an IPv6 address, which no message carries, so it does not say that the
acceptor's bytewise comparison will recognise the peer. `SeenWhereItIs` and `BothReturn` accept a
client that fails and exits, for whatever reason: that the code as written always fails so is the
theorem `NobodyConnects`. These hazards are listed in `PROJECT.json` without a property.

## 4. Fairness

- `RobustSyncRead`, `RobustSyncWrite`, `TcpAcceptor`: the thread that runs the
  loop is scheduled. `Returns` and `WaitEnds` add that the clock ticks, as a premise of the
  formula; `CancelUnblocks` does without. Nothing is assumed of peers, and faults are never forced.
- `Link`: the client's process is scheduled (`WF_vars(ClientStep)`); a `Send` or `Receive` under way
  ends, which `Returns` shows. That the server is scheduled is a premise of the second half of `BothReturn`;
  its first half, the client's end, does without. What the host does later is up to its user.
- `GameDB`: the loop of a creation goes on. Nothing is assumed of players.
- `Session`: each client process is scheduled and its user answers the prompt. Nothing
  is assumed of the server, the network or time: a wait may end by its deadline
  because `Returns` holds of the read beneath it (a wait is one step of `Session`,
  `ReceiveAnswer` or `ReceiveFails`).

## 5. Proofs

All for every value of the constants that the named assumptions of the modules
allow (natural-number bounds, `NoPlayer` is no player, for capacity a finite set of ids,
and, for the three timed loops, a timeout of at most `MaxInt` milliseconds, about 24 days:
`poll()` takes an `int`, and the loops narrow the 64-bit remainder to it; the callers pass 10 and
60 seconds, and the remainder never grows beyond the timeout).

- `Timer_proofs`: the remainder lies between zero and the timeout and, rounded as it
  is, a `poll()` that waits it out ends no earlier than the deadline
  (`RemainingCoversTimeout`): truncating the *elapsed* time rounds the *remaining* time up.
- `RobustSyncRead_proofs`: type correctness; `ExactPrefix`; `DrainedBeforeEnd`;
  `NoEarlyTimeout`; and that the loop implements `Transfer`. The invariants are not
  inductive alone. `DrainedBeforeEnd` needs to know how old a snapshot may be: a reported hang-up is
  still true, and a snapshot without input on a descriptor whose writer is gone means
  that nothing was left. `NoEarlyTimeout` needs that a pending `poll()` wakes no
  earlier than the deadline, which is `RemainingCoversTimeout` at the moment the
  remainder was computed and holds ever after, as the clock only grows.
  `ResultHasItsReason`: each alternative of the result has its cause, so there is no cancellation
  nobody asked for and no hang-up of a peer that is there (what a snapshot reports stays true,
  `ReportInv`).
- `RobustSyncWrite_proofs`: type correctness, `WireExact`, `NoEarlyTimeout`, `Transfer`,
  `ResultHasItsReason`, along the same lines.
- `GameDB_proofs`: type correctness; `WithinCapacity`, from the fact that a creation is
  admitted below the capacity and nothing is stored before it ends; `SeatsKept`;
  `RepliesHonoured`, with `SeatsKept` for the step; and the refinement of `GameRegistry`. From
  the answers follows that no id has two hosts and no game two guests (`NobodyToldTwice`), and
  `GuestsHaveHosts`. `InvitationsHoldUntilRestart` turns the finding of `gamedb_restart` round: while the
  server is not restarted, every invitation leads to the host who sent it. `FreeIdIsAhead` is why
  a creation can succeed at all: below the capacity, some id of the generator's period is free.
- `TcpAcceptor_proofs`: type correctness; `OnlyExpectedPeer`, which
  needs that before the end nobody was let in and nothing but the listening socket is
  open (`NobodyYet`); `DescriptorsAccounted`, from that and from the listening socket having
  one owner at a time (`OneOwner`); `NoEarlyTimeout`, by the argument of the read, where a timeout
  is seen one turn of the loop later (`OnCourse`); `ResultHasItsReason`: a mismatch means that a
  stranger did connect, a system error that a call failed.
- `Wire_proofs`: for bytes of any number of values (above the largest code in use),
  IPv6 addresses of any length and any number of frames. The lemmas give the layout of
  each message; from them `RoundTrip` (what is written is read back, up to the scope of
  an IPv6 address), `EveryFrameArrives` (any bytes lead to a message of the expected type
  or to a failure) and `AcceptedReadsTheSame`. `StreamInv` is inductive: as long as the
  reader has not failed there are offsets at which the stream divides into the frames that
  were written, and what was read last satisfies `DeliversWhatWasSent` and
  `FailureIsReal`. Every safety property of the run `wire` follows from it.

- `Link_proofs`: type correctness; `DescriptorsOwned` and `SeenWhereItIs`, from an invariant
  that says for each call of either process who holds the descriptor, and that a
  connection in the backlog carries the port its client was bound to, if it was; and that the request and
  the answer implement `MessageChannel`: the only bytes a reader can have are those that
  the writer put there, so a message received whole was written whole, and a `Send` that
  wrote everything does not fail. `AnsweredCorrect` joins the three: a client that has its answer (of at
  least one byte) sent its request whole to a server that accepted *it*, and a host with a bound
  endpoint goes on at the port that server saw. It needs the order of the conversation
  (`ConversationInOrder`): the server answers what it read, and reads from whom it accepted.
- `Session_proofs`: type correctness, `BeliefIsSeat`, `HostAwaitsItsGuest`, `AnswersInOrder`, for
  any number of clients, games, losses and restarts and every value of `Repaired`.
  The invariant `IInv` is that of a conversation: `Talk(c)` lists, for each state of a client,
  what may be under way between it and the server and which seat it then holds there
  (a client that asked to create a game has its request pending, or one answer, or that
  answer and behind it a guest's address, and then both seats are taken as these say);
  `Roles` adds what holds of the seats among themselves: nobody hosts two games or is both host
  and guest, no game has a guest without a host, and who still waits to be served has no seat.
  One lemma per action shows that it keeps what its client is told and that it disturbs no
  other conversation. A client that has failed is promised nothing, which
  is what makes the invariant hold when an answer is late. `HandlersAsDeclared`
  is the refinement of `ClientFlow` (`MovesAsDeclared`). A client is promised its seat until the
  server forgets it, also when its own connection is lost, because a connection that broke without a
  restart leaves nothing to read (`NothingLeft`). From the same invariant: no two clients are rivals for a
  seat (`SeatsAreExclusive`), host and guest mean the same game (`HostAndGuestAgree`), and the
  server's side of the session implements `GameRegistry` (`ServerKeepsRegistry`), as `GameDB` does.
- *The code as written*: `NobodyConnects`, `NobodyPlays` and, for the console, `NobodyIsUnderstood`: no
  text leads out of the prompt. In the other direction, `RepairedDispatchJoins` proves
  what `session_join` refutes for every session with the repair `"dispatch"`: nothing else is in
  the way of who reads Success.

**Composition.** `Stream` takes a read and a write by the contract of `Transfer` with a single
failure. `ReadKeepsContract` and `WriteKeepsContract` are that step: the loops implement `Transfer`
with all their failures mapped to that one. With `PromiseCorrect` the chain from the loops
to `MessageChannel` is proved link by link.

**What the liveness properties rest on.** Each liveness property has a part that is safety, and
that part is proved: a measure that every step of the process lowers and that nothing anybody
else does raises.

| theorem | measure | for |
|---|---|---|
| `ReadNeverSpins`, `WriteNeverSpins` | at most `4*Size + 8*MaxFaults + 3` steps: four for a missing byte, eight for a fault | `Returns`, `CancelUnblocks` |
| `WaitNeverSpins` | at most `8*MaxConns + 8*MaxFaults + 4` steps | `WaitEnds` |
| `CreationDrawsAreBounded` | draws to a free id, at most the generator's period | `CreationEnds` |
| `ClientsNeverLoop` | at most nine steps of each client | `NobodyWaitsForEver` |
| `ProcessesNeverLoop` | `RequestSize + AnswerSize + 9` steps of the client, five of the server | `BothReturn` |

So no call, wait or process loops without getting anywhere: it can only fail to end by standing
still. That it does not stand still is fairness and `ENABLED`, and stays with TLC. The
delicate place is a turn of the read after a snapshot that led nowhere (`poll()` reports what is
no longer there): it costs extra steps, and `StepsOfTurn` counts them in advance (`Misled`).

Only model-checked: liveness (`Returns`, `CancelUnblocks`, `CreationEnds`, `WaitEnds`,
`NobodyWaitsForEver`, `BothReturn`), beyond the measures above, and whatever depends on `ENABLED`, which
the prover does not reach, nor does it reach induction over data: that is why `StreamInv` speaks of
offsets where one would define the concatenation of all frames by recursion, and why each measure
is proved to fall with every step, but the number of steps it allows is not a theorem. The
violations themselves are counterexamples of runs, not theorems.

## 6. Findings

- **Ids repeat after a restart** (`gamedb_restart`). The generator's constant seed hands
  out the ids of forgotten games again; a friend who was told such an id is seated with
  a stranger.
- **The loopback address is in host order** (`wire_loopback`). `ConstructIpAddrStorage`
  stores `INADDR_LOOPBACK` unconverted; the unit test uses `htonl(INADDR_LOOPBACK)`.
- **A join that succeeded fails** (`session_join`). The handler visits the result of
  `Receive`, never the message.
- **The console never understands its own commands** (`console`). `operator>>` reads a
  word, the commands have two.

Without the repair named `"bind"` no client reaches the server (`NobodyConnects`; for the socket
itself, `SeenWhereItIs`). On a real kernel the second `connect()` fails even with it: the socket is
non-blocking, `connect()` reports `EINPROGRESS`, and both callers take that for a
failure. `Connect` allows both outcomes, so that what lies behind can be checked.

## 7. What is not modelled

- *What the server does with a connection.* `server/main.cpp` accepts one connection and
  ends (`TcpServer`); there is no dispatch of requests. `Serve` of `Link`, `ServeCreate` and
  `ServeJoin` of `Session` stand for it.
- *Handlers without a body*: accepting and making the peer connection, the game itself.
  They are transitions of `ClientFlow` only.
- *Files that do not compile as they stand*: `need_to_create_new_game.cpp`,
  `need_to_join_game.cpp`, `created_new_game.cpp`, `client/main.cpp`, `api/create_new_game.cpp`
  (includes a header that is not there), `game_db` (likewise), `server/*`,
  `console_client.cpp`. They are modelled by what they evidently do; where that decides
  the outcome the text above and the comments say so.
- *Text*: prompts and error messages. `ConsoleClient` keeps words and the forms of an id.
- *`SIGPIPE` above one transfer*: `RobustSyncWrite` and `Link` have it (`Killed`); in `Session` a client that
  is killed is one that fails to send.
- *Players as descriptors*: `PlayerId` is a descriptor number on a server that keeps
  several connections; the server in the repository keeps none.
- *The kernel*, beyond what the code can observe of it: `poll()`, `read()`, `write()`,
  `accept4()`, `connect()` are nondeterministic choices over their documented outcomes.
- *`failed_to_connect_to_central_server.cpp`* only prints and is not called. Of the unit
  tests, the threads of `RunBasicTest` are the actors around `RobustSyncRead` and the addresses
  of the serialization test are messages of `Wire`; the assertions were read as a
  statement of what the code promises.
- *Timeouts beyond an `int`* of milliseconds: excluded by the assumptions on `Timeout`.
- *`AcceptExpectedPeer` without `POLLIN`*: the branch for `POLLERR`, `POLLHUP` and `POLLNVAL` has no
  action, as a listening socket that nobody shuts down or closes reports none of them.
- *A second read after a cancellation*: nothing takes the byte from the cancellation
  descriptor, but no caller passes one.

## 8. Plan

Done, in this order, the most basic first: `Timer`, `Transfer`, `RobustSyncRead`,
`RobustSyncWrite` and their proofs; `GameRegistry`, `GameDB` and its proofs; `TcpAcceptor` and
its proofs; `Bytes`, `SockAddr`, `Wire` and its proofs; `ClientFlow`, `Session`; `ConsoleClient`;
`TcpClient`, `TcpServer`, `MessageChannel`, `Stream`, `Link` and its proofs; the proofs about `Session`;
the measures, the reasons of results, the composition of contracts, and the restart and the dispatch as
the only causes of what two runs refute.

When the repository goes on:

1. The server's loop for many connections: it replaces `ServeCreate` and `ServeJoin`, with players
   that are descriptors the kernel gives out again.
2. The handlers that make the peer connection: `TcpAcceptor` and `Link` composed, with the address
   of `Wire` as what is compared, a caller that waits again after a stranger, and both
   players in the roles of host and guest.
3. The game itself, between `EstablishedConnectionWithPeer` and `NeedToExit`.
