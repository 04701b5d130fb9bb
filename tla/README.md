# ShadowLAN: a TLA+ verification project

ShadowLAN lets LAN-only games play over the internet.  A hook library
(`src/hook/`, C) is loaded into the game and takes over its socket calls; a
relay (`src/server.py`, Python asyncio) gives every machine a virtual address
and carries datagrams and TCP streams between them.  This directory holds TLA+
models of the parts whose correctness depends on the order of things, the TLC
configurations that check them on small instances, and TLAPS proofs.

`PROJECT.json` is the machine-readable side of this document: the map from
definitions to source lines, the runs, the mutants that show each property can
fail, the hazards and the theorems.

## Inventory

| Part | State | Operations | What is hard about it |
|---|---|---|---|
| Relay, stream table (`server.py` 373-754) | `_streams`, `_node_streams`, per stream: state, claims, timer, grant task | open, join, implicit grant, grant, timeout, pipe, pop, fail, node loss | every handler suspends at awaits while others change the entry it holds |
| Relay, membership (`server.py` 77-359, 779-931) | `nodes`, `writer_node`, send queues | register, prune, evict, broadcast, teardown | exhausted address pool; a broadcast that waits on a stalled reader |
| Relay, datagram routing (`server.py` 953-1355) | an endpoint per link, `known_udp`, `udp_flows`, `learned`, all with TTLs | NODE, U_NODE, prove, fan out, route an answer | one process under several addresses, one triple towards several hosts, stale addresses |
| Hook, waiter wake channel (`hk_sess.c` 588-708) | pool of wait slots, wake socket pairs | arm, rearm, done, sleep, signal | lost wakes, exhausted pool |
| Hook, opener streams (`hk_udp.c` 645-686, `hk_route.c`, `hk_stream.c` 440-949) | `g_st` slots, one thread per dial | connect, close, shutdown, dial, verdict, pump | descriptors and slots are both recycled while old threads still run |
| Hook, stream bytes (`hk_route.c` 110-298, `hk_stream.c` 333-438, 690-949) | in and out queues of a slot | send, pop, flush, pump, exit drain | two writers of one wire, partial sends, bounded queues |
| Hook, hosted streams (`hk_stream.c` 951-1321, `hk_sess.c` 1-170) | `g_hs` rows, one thread per claim | request, join, bridge, pump, close, sweep | rows found by stream id across threads, a sweep that frees pending rows |
| Hook, hosted UDP sessions (`hk_sess.c` 313-403, `hk_stream.c` 1612-1795) | `g_us` rows, a loopback socket each | inject, expire, answer, name the source | two receiving threads, a snapshot used after unlock, recycled descriptors |
| Hook, control link (`hk_stream.c` 1324-1607, `hk_ports.c`) | control queue, frame in flight | queue, send, redial, dispatch | a frame half sent when the link drops |
| Hook, start-up lease barrier (`hk_stream.c` 2104-2165, `hk_core.c` 150-210) | `g_have_assign`, the starting thread | wait for lease, fail | a game must not run half hooked; a lease that arrives as the budget ends |
| Hook, host claim (`hk_ports.c` 247-324) | `g_claimed` | NODE, U_NODE, 12 s refresh | lost with the link |
| Hook, port ledger (`hk_ledger.c`, `hk_alias.c`, `bind` in `hk_linux.c` 256-362) | entries in shared memory, alias rows | claim, share, take over, release | several processes, death between any two steps, reused pids |
| Hook, doors for each platform (`hk_linux.c`, `hk_winsock.c`, ...) | none of their own | wrap socket calls | thin |
| Injector, Python client, codecs | | | see "Not modelled" |

Interactions.  A dial in the game becomes a slot and a dial thread
(`StreamSlots`), whose STOPEN becomes a record in the relay's table
(`RelayStream`); the relay asks the destination's links with STREQ, and the
process that owns the listener claims the stream with STJOIN
(`HostedStreams`).  Which links exist, and which machine they belong to, is the
membership table (`RelayMembership`).  Once the stream is open its bytes pass
through two queues of the slot (`OutQueue`, `InQueue`).  Every state change of a
slot that the application may be waiting for goes through the wake channel
(`WaitChannel`).  A listener or a datagram socket gets its port from the ledger
that the machine's processes share (`PortLedger`).  All control messages, the
registration and the host claim among them, travel on one link that is redialled
when it fails (`ControlLink`), and the game is held until the first ASSIGN has
come back on it.  A datagram goes to the relay by UDP or, encapsulated, by that
link; the relay decides who gets it (`RelayUdp`); the receiving hook feeds it
to the game from a loopback socket per peer (`HostedUdp`), and what the game
answers there goes back to the relay.

## Modules

- `WaitChannel` - the pool of wait slots and the two loops that use it
  (`dt_tcp_wait`, `dt_poll_core`).  Each action is one critical section of the
  hook's lock, or one system call.  `used`, `armed`, `watch` are the fields of
  `g_wt`; `wake` says whether the slot's socket pair holds a byte; `stolen` is
  a history flag, see WakeKept below.
- `StreamSlots` - the opener's slot table: connect, close and shutdown by the
  application, the dial thread's steps between lock sections.  A dial is named
  by its stream id; `at[d]` is the pointer to the slot the thread keeps.
  connect() is two steps, as in the code: it looks the descriptor up
  (`hk_route.c:46`) and takes a slot in another lock section (`hk_udp.c:649`).
  `raced` is a history variable: descriptors on which another connect() or
  close() came between the two.
- `RelayStream` - the relay's stream table.  An action is what an asyncio task
  does between two suspensions.  A record is named by its opener's connection
  because tasks go on using it after the table forgot the id.  `BridgeRaised` is
  the granting task ended by an exception that nobody catches.
- `ConnectService` - what the relay promises an opener, abstractly: an opener
  that is refused or confirmed is so once, and confirmed only with a server.
  `RelayStream` implements it (ImplementsConnect).
- `RelayMembership` - node table, links, ASSIGN broadcasts and the suspension
  of a sender on a full queue.  `late` is a history variable: the links whose
  last ASSIGN was made old, or was lost, by such a suspension.
- `HostedStreams` - the serving side: the rows of `g_hs`, one join thread per
  STREQ, the two sockets each thread makes, the pending sweep, and the game's
  accept, which looks the bridge's port up in the rows.  A request stands for
  its stream id (the relay keeps ids unique, `OpenRefused` in `RelayStream`).
  `swept` is a history variable: requests whose row the sweep took.
- `TunnelStream`, `RelayNodes` - the variables that the two directions of a
  stream share (state of the slot, place of the pump), and the constants that
  the relay's tables share.
- `OutQueue` - send(), the pump's writing half, its flush after close() and
  the exit drain on one out-queue.  Bytes are numbered as they are queued;
  chunks keep the code's `n` and `off`, and `ototal` is kept beside them as in
  the code.  `excuse` is a history variable: "torn" when the exit drain gave up
  inside a chunk, "both" when it owned the queue together with the pump of a
  closed or freed stream.
- `InQueue` - the pump's reading half, recv() with its second look at the
  stream, shutdown and close.  `lost` is a history variable: why bytes were
  dropped or the stream was cut short.
- `ControlLink` - one hook's control link with both ends: the send queue
  (`q`, `bytes`), the frame being sent (`cur`, `off`), the stream in both
  directions, the receive buffer, the relay's link record, the two flags
  `g_claimed` and `g_have_assign`, and the thread in `dt_start` (`main`).  A
  frame is two halves; that is enough for a short send and for a link that dies
  inside a frame.  `seen` and `torn` are history variables.
- `HostedUdp` - the rows of `g_us`, the descriptors behind them, two threads in
  `dt_udp_ingress`, the poller with its snapshot, and the game's socket.  A
  socket has a number of its own, which stands for its ephemeral port;
  `madeFor` is the history of what each was made for.  Time is the flag `idle`,
  and it passes for a thread between its two lock sections too; `strayed` is the
  history of the sockets that such a thread touched when its row was no longer
  its session's.  A descriptor is recycled among the sessions only; that another
  socket of the game gets the number of a held-up thread is left out.
- `RelayUdp` - the relay's endpoint tables and the three datagram kinds.  The
  handlers never suspend, so each is one step; times are ages.  `got` says which
  process was sent which triple (only such a process answers it); `asked` is the
  history of which node was addressed with which triple, and by whom.
- `PortLedger` - the shared ledger as a set of entries, `bind()` from its first
  step to its last in each of its branches, `close()`, and processes that start
  and die.  `owned` is a history variable: the ledger let the socket have it.
- `MC*` modules give TLC its instances; `*Proofs` modules hold the proofs.
  `RelayProofs` covers `RelayMembership` and `RelayStream`, `StreamQueueProofs`
  covers `InQueue` and `OutQueue`, and `DatagramProofs` covers `HostedUdp` and
  `RelayUdp`; so that one module can extend both, the second of each pair names
  its specification differently (`StreamSpec`, `OutSpec`, `UdpSpec`).

## Runs

Every "pass" run has, for each of its properties, a mutant: a plausible bug in
the code (a dropped check, a missing signal, an off-by-one) under which TLC
finds the property violated.

- `wait` - two threads, one socket, a pool of one slot, with fairness.
  SlotExclusive: no slot is shared or leaked, although the lock is dropped to
  create the socket pair.  WakeKept: a sleeping waiter with news has a wake
  pending.  The exception is part of the statement: `dt_wait_done` drains the
  pair after it released the slot, and may eat the byte of the next holder;
  the sleep slice then recovers the waiter.  FinReleases: a call blocked on a
  stream that has ended returns even when its wake was lost or the pool is
  exhausted.  Several sockets and slots, and a poll on more sockets than a slot
  lists, are covered by the theorems.
- `stream` - two openers colliding on one stream id, one port-only and one
  addressed, two serving processes, a node leaving and coming back.  Safety,
  refinement and OpenerAnswered (liveness) in one run: a stream gets one server,
  bytes flow only between a confirmed opener and the joiner granted to it, an open
  opener has a timer, a task or a pipe that will close it (NoOrphanOpener, with
  the exception described under "Streams" below), and (ImplementsConnect) an
  opener is told one verdict and never a refusal after a confirmation.
- `members` - four links of three nodes (two processes of one node) on two
  addresses; one link may stop reading.  UniqueVirt, Attributed, VirtStable: an
  address belongs to one node, and is not taken from a node with a live link.
  ViewExact: when nothing is pending every link's last ASSIGN is the membership,
  with the exceptions listed in its comment, which need a stalled reader.
- `slots` - one descriptor recycled by three dials in two slots, with fairness:
  OwnStream, PumpOwns and DialResolves.  The three dials may be connect() calls
  of three threads, and close() may come at any point of one; OwnStream excepts
  a descriptor on which that happened, until it is closed and nothing is left
  under its number.  A single descriptor is enough for them: slots and threads
  are told apart by dial, and every way a descriptor can be recycled happens;
  the theorems cover any number.
- `hosted` - three requests on two rows, two bridge ports, one accepting
  descriptor, with fairness.  ClosedOnce: no socket of a join thread is closed
  twice.  AcceptShowsOpener: what accept() shows the game is the opener of the
  bridge it accepted, or nothing, unless a row that was never cleared of an
  accepted port answers.  RowsReclaimed: whatever fails, the row comes back.
  The rows' `ovirt` is left out (a request without it never matches), and so is
  the fallback of `dt_acc_learn_fd` to the UDP sessions.  PumpHasRow and
  Returned, on which the design rests as well, are proved (below) and no longer
  run.
- `outq` - two threads send four bytes, blocking or not, into a queue of three
  (so that one write is larger than the queue and the writable mark lies below
  its size), with shutdown, close, exit and a pump that may end.  WireInOrder:
  the wire gets the queued bytes in order and once; QueueCounted: the byte count
  by which send() and the pump decide is right after a takeover of a half-sent
  chunk; FinLast: the FIN is due after the last byte; SleeperPoked, SendReturns:
  blocked senders are woken and return.
- `inq` - six bytes through a queue of four, read by two: ReadInOrder,
  PausedHasData, CleanEnd and, for an application that keeps reading,
  EndReaches.
- `inq_full` - violation: bytes read when the queue is full are dropped.
- `ctl` - two frames of the program (datagrams, a half-close or refreshes)
  besides the registration of every link and the claim, two losses of the link,
  a queue limit of three frames, and the relay reading at its own pace.
  CtlOrdered: frames arrive in the order they were queued, also those that were
  in the sender's hands when a link died.  NoTornFrame: neither end makes a
  frame of two halves of different frames.  BytesCounted: the count that
  decides what to drop stays true across losses.  LeaseFirst: the game starts
  with a lease or not at all.  ClaimStamped (liveness): the host claim arrives.
- `hudp` - two peers, two rows, three descriptors and three sockets in a run, so
  that a row and its descriptor change hands; two threads receive, of which one
  may be held up, the poller expires rows, and the game reads one datagram at a
  time.  Peers and threads are symmetric.  A third peer adds nothing that a
  second visit of the first does not: a row knows only whether it is its
  session's.  OneSession: a peer has one row, so the game sees one client.
  SocketsOwned: an open socket belongs to one row, made for its session, or is
  about to be closed.  ShownAsPeer: the game is shown the sender of a datagram
  as its source.  The code departs from that in three cases, and the property
  allows no other: the loopback socket is shown before the port is noted, and
  after the session is gone, and anything may be shown for a socket that a
  held-up thread touched.
- `rudp` - a host, a player behind a NAT that rewrites its address, and a
  player in UDP-over-TCP mode, both players with the same triple; two game
  datagrams, and one lost link or one stretch of time long enough to age every
  table (`Old` = 1).  The host and the first player are behind one NAT, and the
  player declares the address that the host's datagrams come from.
  OnlyAddressed: what is sent to the endpoints of a node (P2P; ICMP uses the same
  list) reaches processes of that node only, or of the machine that shares the
  address.  ReplyToAsker: an answer that is routed by a flow reaches a player who
  addressed a machine with that endpoint.
- `ledger` - two stream and two datagram sockets of two processes of one node,
  one of another node under a reused pid, and one that binds port 0; two ports,
  two entries.  OneClaim, StreamExclusive, NoLeakedClaim: see their comments.
  This is where a process may die between any two steps.

Bounds.  The instances are the smallest in which every action fires and each
mutant is caught.  Counter bounds are `MaxBacks` (a node comes back once),
`NBytes` (bytes of a stream: more than a queue holds), `AppFrames` and `Breaks`
(two each: a frame behind another, and a link lost again while the first loss is
being repaired), `MaxSocks` (three sockets over two rows: one row changes
hands), `MaxHeld` (of two threads in their calls one is held up at a time; the
theorems have no such bound), `MaxRead` (one unread datagram outlives its
session), `MaxSent` (a question and its answer, or two questions), `MaxEvents`
and `Old` (one event that makes a table stale), `NPorts` and `SLP_MAX` (two: a
full ledger with a port outside it needs three claims, which four processes
make); a dial, an opener, a joiner, a socket and a process are used once each.
`DT_CTLQ_DROP`, `DT_MAXUSESS` and `SLP_MAX` keep their roles with small values.

Fairness.  Weak fairness on the steps of threads and tasks that the operating
system or the event loop must eventually run (a thread that holds no lock is
scheduled, a task that is ready is resumed, a timer fires), never on what the
application, the peer or the network may choose to do.  A dial is answered or
refused by the relay, or its connection ends: that is OpenerAnswered, and TCP's
report of a relay that died.  The hook itself sets no limit: the receive timeout
of the verdict is retried for ever (hk_stream.c:563-569), so with a relay host
that vanished without a word DialResolves would not hold.  Strong fairness on
the pump's send and receive: the relay's pipe reads in a loop, so a pump that
keeps trying gets through again and again.  EndReaches assumes in its own
statement that the application goes on calling recv().  `ControlLink` assumes
weak fairness of the link's thread, of the relay's reader and of `dt_start`, and
of the arrival of U_NODE datagrams, which `dt_udp_thread` repeats every 12 s
while the process lives; with `UdpOpen` = FALSE ClaimStamped does not hold
(below).  `HostedUdp`, `RelayUdp` and `PortLedger` state no liveness and no
fairness.

## Proofs

`WaitChannelProofs` proves TypeCorrect, SlotsExclusive and WakesKept, for any
sets of threads and sockets and any pool size.  The inductive invariant adds
to the properties what each program point knows: who holds which slot, which
slots are armed and watch what, and that an armed slot whose thread has not
looked yet covers every change since.

`StreamSlotsProofs` proves TypeCorrect, OwnStreams and PumpsOwn for any sets of
descriptors and dials and any table size.  The argument rests on stream ids: an
id is drawn once (SidDrawn), so no two used slots carry one (SidUnique), a
descriptor with no overlapping calls has at most one stream or one connect() on
its way to a slot (Alone), a thread's slot points back at it unless it was freed
(PointsBack), and a slot can only be freed before its thread has the wire or by
that thread itself.

`HostedStreamsProofs` proves TypeCorrect, PumpsHaveRows, ClosesOnce,
SocketsReturned and AcceptsShowOpeners for any sets of requests, ports and
descriptors and any table size.  The inductive invariant says, for each program
point of a join thread, which of its sockets are open and what its row holds of
them (RowsOk, SocksOk), that a stream id is in at most one used row (SidUnique),
that open bridges have distinct ports (PortsDistinct), and that a thread without
a row lost it to the sweep (HasRow).

`PortLedgerProofs` proves TypeCorrect, ClaimsOne, NoClaimLeaks and
StreamsExclusive for any processes, sockets and ports and any table size.  The
invariant says at which points of bind() and close() a socket has no port yet or
any more (NoPort), no claim (NoClaim), a port the kernel named (HasPort) or a
candidate left to try (TriedOk); that the entry of a granted stream socket that
is its process's only one stays in the ledger (Held); and that running processes
have distinct pids (PidsDistinct), so an entry under a reused pid is taken for
nobody else's.

`ControlLinkProofs` proves MessagesInOrder, QueueBytesExact, FramesWhole and
LeaseBarrier for any number of frames and of lost links.  Frames are numbered as
they are queued (Numbered); a socket holds halves of frames, and OutWhole and
InWhole say how the halves in it continue what the reader holds and precede what
the sender has left, so a half can only meet its other half.  That the game
starts with a lease needs that an ASSIGN answers a registration (Answered).

`RelayProofs`, membership: AddressesDistinct, LinksAttributed, AddressKept and
ViewsExact for any nodes, links and addresses.  UniqueVirt and Attributed are
inductive with the types; the work is in register_node, whose prune and evict
branches free addresses that the same step gives away.  ViewExact speaks of quiet
states only, so its invariant says what holds in between (Accounted): a live link
whose last ASSIGN is out of date is known to be late, or is still ahead of a send
under way (Owed), or a broadcast is scheduled (NewsPending), or a handler has
yet to notice that the last link of a node is gone (DarkPending) and will then
schedule one.

`RelayProofs`, stream table: StreamTypeCorrect, StreamOneServer,
StreamPipeAgreed, StreamNoOrphan and StreamImplementsConnect for any openers,
joiners, ids and nodes.  The invariant says that the relay has closed what is not
in the table (TableOK), where a record's task may be suspended in each of its
states (PhaseOK), that a claimant is in the hands of one opener (PendingOK),
that a granted claim and its record name each other (ServerOK), that an opener
is told one verdict (FramesOK), and who will retire each record (TeardownOK).
Apart from a new STOPEN, every step of the relay is one of three kinds
(StepKind): a grant, a teardown of some records, or one that no opener or joiner
can see; the refinement of `ConnectService` is shown kind by kind.

`DatagramProofs`, sessions of a hook: SessionsSingle, SocketsKept and
SourceIsPeer for any peers, rows and threads.  The invariant says that a row in
use has a session and a descriptor with a socket made for it (RowsNamed,
SocksNumbered, SocketsOwned), and that the socket the poller is about to close is
open (ClosesOpen); the lemma TakeOver treats the reuse of a row once for the
branches that do it.  For the source, a port in a row is that of the row's own
socket, or both sockets are among those a held-up thread touched (PortsOk), and
the socket of a waiting datagram was made for its sender and its row has the port
or a thread that will note it (SentOk).

`DatagramProofs`, relay: EndpointsAtHome, AddressedOnly and RepliesFindAskers for
any machines, processes, links, addresses and triples.  They assume that an
address, a link and a node id are different things and that the datagrams of two
processes come from two addresses (KindAssumption); processes of one machine may
share links' endpoints, a process may have several links, and an address that
one process declares may be another's.  Which endpoint is attached to which link
changes with every U_NODE and every datagram; what stays is that it belongs to
the link's machine (LinksOk), so whoever is reached at an endpoint of a node is
of a machine the endpoint belongs to.  A flow names somebody who addressed the
machine it is kept for (FlowsAsked).

`StreamQueueProofs`, receiving: TypeCorrect, BytesInOrder, PausedIsReadable and
EndsClean for any queue limit that holds two reads (InAssumption, 1 MB and 64 KB
in the code).  What recv() returned, the queue and the pump's buffer, joined,
ascend up to the last byte read (InOrder); the peer's end is seen behind that
byte (EndLast); a stream that ends otherwise leaves a reason (Reasons), so a
recv() between its two looks at the stream already knows how it will end (Ended).

`StreamQueueProofs`, sending: OutTypeCorrect, OutInOrder, OutCounted, OutFinLast
and OutSleeperPoked for any number of sending threads and any queue limit.  The
chunks of the queue continue each other up to the last byte queued (Queued).
Pump and exit drain each hold the head of the queue, marked as being sent, and
never both (PumpHolds, ExitHolds); the wire has every byte that is not queued and
those that are ahead of the queue because a send is not yet accounted (Ahead,
WireInv).  The pump that flushes after close() does not mark its chunk: when the
exit drain has started on the same stream, both own the head, and counts and
order are lost.  That case is the history `excuse`, which the properties name
and the invariant carries as a hypothesis; it is empty until the process exits.
A sender asleep that nobody poked has told the pump through `wrFull`, or would
not fit (Asleep).

Every invariant and every action property that a run checks, and the refinement,
is proved for all values of the constants.  Only model-checked: liveness
(RowsReclaimed, DialResolves, FinReleases, OpenerAnswered, SendReturns,
EndReaches, ClaimStamped), since the prover has no ENABLED.

## Behaviour worth knowing

Besides the finding in `PROJECT.json`, the models exhibit the following.  The
properties name these cases as exceptions where they touch them.

Streams.  close() followed by exit() gives the out-queue two owners, which both
send the head chunk and both drop one (hk_stream.c:699, 356-360).  A claim that
waits in the grace window of a stream that is popped is neither granted nor told
BUSY (server.py:373, 574).  The slot of a failed dial is never freed once the
application has closed it (hk_route.c:366-369).  With every wait slot taken
`dt_tcp_wait` (hk_route.c:448) retries without reaching its timeout test, so a
receive timeout is not honoured until a slot is free.  A descriptor closed
during the handshake keeps its stream bound until the verdict, so a recycled
number is told EALREADY (hk_route.c:45, 371).  Two threads that connect one
descriptor at once both find no stream and both get a slot (hk_route.c:47,
hk_udp.c:649): the descriptor then has two streams, of which calls use the
first, and close() detaches only that one, so that the next owner of the number
finds the other.  A close() between the two sections leaves a new stream to that
owner too.  A dial whose slot was freed and reused marks the new stream dead
when it fails (hk_stream.c:440).  accept() may look a bridge's port up before
`dt_host_bridge` has recorded it, or find the port of the row's previous stream,
and then shows the wrong peer (hk_sess.c:150, 195).  After the relay has
confirmed a stream it waits for the bridge of the joiner.  A frame of another
kind than STJOINED or STFAIL, and an STFAIL for another stream, end that task
with a NameError (`STF_HOST_FAILED`, server.py:712, 717, is neither imported nor
defined), and an OSError other than a reset is not caught (server.py:695).
Nobody then closes the opener: its record stays "ready", so the timer does
nothing (server.py:535), until its connection or the destination's node is gone.
The comment at server.py:659-661 says that a bridge failure tears the stream
down and the opener sees a reset.  NoOrphanOpener excepts this case
(`BridgeRaised`), and OpenerAnswered is not touched by it: the opener has had
its STOK.  `_stream_pipe` takes whatever record has the id when it starts and
asks only whether it is ready (server.py:721); a stranger's record takes a third
opener of one id, which the run does not have.  When the 30 s sweep takes the
row of a thread that is still connecting, the bridge it then makes is in no row
and never closed.  The exit drain that gives up inside a chunk leaves the whole
chunk to the pump, which sends its beginning again (hk_stream.c:415).  A signal
that interrupts the pump's select() ends the stream, and recv() reports a clean
end (hk_stream.c:757); after shutdown(SHUT_WR) a reset frees the slot with its
unread bytes, and recv() reports a clean end (hk_stream.c:922, hk_linux.c:190).

Membership.  A handler that waits for a stalled link's queue ends when that link
is torn down (server.py:160).

Control link.  `register_node` looks at NODE_F_HOST only when it creates a link
record, so the NODE that `dt_claim` queues on an existing link does not stamp
the claim; only U_NODE does, and a hook whose UDP never arrives hosts without
one until its link is redialled.  The registration of a new link is queued
behind whatever was queued while the link was down.  A half-sent frame is lost
with its link.  NODE refreshes pile up while the relay cannot be reached.  The
decision that the lease budget is spent and `dt_fatal` are two steps: a lease
that arrives between them does not save the game.

Datagrams.  hk_udp.c:329-332 says that the game must never see 127.0.0.1 as the
source of a peer's datagram.  It does in two cases: when it reads the datagram
before `dt_hosted_udp_in` has noted the port, and when the session was expired
or taken over while the datagram waited; an answer to that address still reaches
a session socket only in the first.  A thread held up for 45 s between its two
lock sections sends by a descriptor, and notes the port in a row, that may be
another session's by then (hk_sess.c:393-402).  A row that is taken over while
the poller holds a snapshot, with its descriptor recycled, lets an answer leave
under the previous peer, or blocks the poller in recv().  The poller answers by
raw UDP also in UDP-over-TCP mode.  test_noloop.py:4, test_udptcp.py:6 and
server.py:1103-1108 say that a sender never gets its own datagram back.  For a
process outside UDP-over-TCP mode that is the test `a != src_addr` of the
fan-out, and nothing else.  Every hook in UDP-over-TCP mode does get its
broadcasts back: its NODE declares the tunnel's port (hk_ports.c:288-291), so
its link has a UDP address (server.py:341-347) that names it as the source, and
the fan-out adds the link itself besides (server.py:1080-1086); others'
broadcasts it gets twice.  No property therefore says that nobody hears itself.
A process in UDP-over-TCP mode that is asked with a triple it asks with itself
(both players call themselves 127.0.0.1 while they have no lease, hk_udp.c:615)
answers by raw UDP from an address nobody has; the last resort of the relay then
takes the process's own flow, sends it its own answer, and learns the address as
the route of its next datagrams (server.py:1299).  An expired flow of an
endpoint hides a fresh flow of its node, and the last resort, the freshest flow
of the same triple, may be another player's (server.py:1289-1318).

Ports.  A datagram socket that shares a port writes no entry, so the port can be
claimed by a socket that does not share as soon as the first holder closes.
bind(0) in its last resort ignores the answer of `slp_claim` (hk_linux.c:352).
`slp_release` asks for pid, port and protocol only: when two sockets of one
process present the same port (the last resort can bring this about), the
close of either releases the claim of the other, and a sibling process can then
bind it; StreamExclusive is therefore stated for processes with one stream
socket.  A full ledger fails open.

## What could follow

The path of a half-closed stream, in which STSHUT on the control link may
overtake bytes on the stream's own connections, composed of the pump, the
relay's pipe and the join thread's pump; ICMP and beacons; the datagram queues of
the UDP doors.

## Not modelled

The Windows doors (`hk_winsock.c`), import patching and NIC tables
(`hk_wininst.c`, `hk_winnic.c`, `hk_wicmp.c`) and the injector are the Win32
counterparts of what the Linux modules cover, or sequences of operating-system
calls.  The UDP doors (`hk_udp.c`) translate addresses per call; their datagram
queues (`g_uq`) and reply slots (`g_sl`) are left out.  `handle_stream_shut` and
STSHUT, the relay's ICMP and beacon handlers, its port filter and the clearing of
tables of more than 2048 entries are left out.  `common.py` packs fixed
layouts; `wclient.py` is a second, single-purpose client of the same protocol.

Smaller things left out of modelled parts: the pump's way out when memory is
exhausted (hk_stream.c:909-913), which pauses reading with a queue that may be
empty; in the relay, the loop that drains frames before the bridge verdict
(server.py:674-687), whose wait_for(timeout=0) reads nothing in CPython, and the
second `_stream_pop` of a cancelled pipe.  A redial of the control link drops the
hook's half-received input and the relay's old link in one step.  The alias table
is unbounded in the model; in the code a bound socket gets no row when all
64 are taken (hk_alias.c:14, 22-39), and its claim is then not released
at close().
