# gnb_udp_over_tcp: models, checks and proofs

`gnb_udp_over_tcp` carries UDP datagrams over a TCP link.  One process runs as
the **UDP side** (`-u`): a UDP socket that local programs send to and one TCP
link to the other end.  The other runs as the **TCP side** (`-t`): it listens
for TCP connections and gives each of them a UDP socket of its own.  Both are
single-threaded: one event loop calls handlers and callbacks, one at a time.
What is hard is not parallelism but *order*: what a batch of events does when
an earlier event of it closes the connection of a later one, what survives a
reconnect, what is left in a buffer when a system call takes a part of it.

Paths below are relative to the repository, whose C code is in `src/`.

## 1. Inventory

| component | source | state | operations |
|---|---|---|---|
| event loop | `gnb_network_service.c` | pool of events, connections, the batch, the clock | listen, loop, accept, connect, recv, send, udp recv/send, close |
| TCP side | `service/uot_tcp_service.c` | table of channels (an LRU list); per channel two connections, a decoder, a timestamp | the callbacks accept, recv, send, close, idle |
| UDP side | `service/uot_udp_service.c` | one channel: the UDP socket, the TCP link (or none), a decoder, three timestamps | the callbacks connect, recv, send, close, idle; try_tcp_connect; keepalives |
| framing | `gnb_payload16.c` | `r_len`, the size field, the partial frame | `gnb_payload16_handle`, set/get of sizes |
| table | `gnb_lru32.c` | hash map, list, three pools, `size` | put, get, hash_get, movetohead, pop_by_key, pop/get of head and tail |
| list, map, pool, heap | `gnb_doubly_linked_list.c`, `gnb_hash32.c`, `gnb_fixed_pool.c`, `gnb_alloc.c` | links; chains and counters; a stack of free blocks; a list of fragments | the usual ones |
| event handlers | `event/*.c`, `gnb_event.c` | kernel registrations; for select and kqueue an array of events and each event's place in it | add, del, set, get |
| address list | `gnb_address.c` | a table of addresses with the time each was heard of | create, update |
| start, addresses, log, daemon, time | `service/gnb_udp_over_tcp.c`, `gnb_address.c`, `gnb_log.c`, `gnb_daemon.c`, `gnb_time.c` | configuration | once, before the loop; pure output |

How they interact.  The loop asks the event handler for a batch, hands each
event to `handle_tcp_event` or `handle_udp_event`, these call the callbacks of
the service, the callbacks call back into the loop's functions (close, udp
channel, connect) and into table, decoder and heap.  A handler asks to be called
for writing by enabling WRITE for an event (`GNB_SERVICE_NOTIFY_SEND`).  After
every batch, and at least once a second, `idle_cb` runs the timers.  The two
processes share nothing but the TCP byte stream; what ties them together in time
is that each keeps the connection alive for the other and gives it up when it
hears nothing.

What makes each part correct:

* *event loop, TCP side*: an event of the batch is dispatched only to a live
  connection that owns it; every event, descriptor and table entry is with
  exactly one channel or free; what waits in a send buffer has WRITE enabled;
  a silent channel is closed in the end.
* *UDP side*: the same accounts through every outcome of `connect()`; keepalives
  are sent in time; a new link is not judged by the silence of the old one; a
  lost link comes back and a silent one is given up; the process survives.
* *forwarding*: what is queued is sent, once and in order, and nothing is lost
  without a system call having failed.
* *framing*: however the stream is cut, the frames come out whole, in order and
  once.
* *table*: whatever the sequence of calls, it is the bounded table its header
  describes (it is, but for what a hit does in a table of two); its list, map and
  pools agree.
* *event handlers*: the loop serves what was reported, in order, and nothing that
  was closed since, whichever handler it has; the arrays and the indices agree.
* *both sides together*: they bear a short failure without giving a connection up,
  and after a long one the tunnel is one connection and one channel again.
* *address list*: it keeps the addresses heard of last.
* *heap, pool*: what is in use and what is free never overlap.

The places where these can go wrong are the `hazards` of `PROJECT.json`.

## 2. Modules

| module | models | used by |
|---|---|---|
| `FixedPool` | `gnb_fixed_pool.c` as operators on a pool | the services, `EventHandlers`, `Lru32` |
| `WallClock` | timestamps, `sync_time`, unsigned comparisons | the services |
| `UotTcpService` | the loop with the TCP side's callbacks | `MCUotTcpService`, the proofs |
| `UotUdpService` | the loop with the UDP side's callbacks | `MCUotUdpService` |
| `Relay` | the two send buffers of one channel, either side | `MCForwarding` |
| `Payload16` | the decoder, byte by byte | `FrameStream` |
| `FrameStream` | one direction of a link: sender, stream, decoder, links that come and go | `MCForwarding` |
| `FrameChannel` | *abstract*: frames in, the same frames out | refined by `FrameStream` |
| `LinkedList`, `Hash32` | the list and the map as operators | `Lru32` |
| `Lru32` | `gnb_lru32.c` with its three pools | `MCContainers` |
| `LruTable` | *abstract*: a bounded table, youngest entry first, a hit moves to the head; `Lax` names the lengths at which it need not | with `Lax = {2}` refined by `Lru32` |
| `Heap` | `gnb_alloc.c` | `MCContainers` |
| `AddressList` | the address list of `gnb_address.c` | `MCContainers` |
| `EventHandlers` | epoll, select and kqueue under the loop | `MCEventHandlers` |
| `Readiness` | *abstract*: connections are watched, reported and served; no blocks, arrays or marks | refined by `EventHandlers` |
| `Tunnel` | both processes in time, with the connections between them | |
| `FixedPoolProofs` | theorems of the pool, and a lemma on naturals that others share | extended by those of the services, the event handlers and the containers |
| `UotTcpServiceProofs` | theorems of the TCP side: types and events; table, descriptors, buffers and crashes | extends `UotTcpService` |
| `UotUdpServiceProofs` | theorems of the UDP side | extends `UotUdpService` |
| `RelayProofs` | theorems of the send buffers | extends `Relay` |
| `EventHandlersProofs` | theorems of the event handlers | extends `EventHandlers` |
| `ContainersProofs` | theorems of the heap, of the address list and of the table with its list and map | extends `Heap`, `AddressList` and `Lru32` |
| `FrameStreamProofs` | theorems of the decoder and of the stream it reads | extends `FrameStream` |
| `TunnelProofs` | theorems of the two sides' timers | extends `Tunnel` |

### UotTcpService

A connection is a pair of a channel record and `"tcp"` or `"udp"`; an event is
an index of the event pool, so that the reuse of a memory block is the reuse of
a number.  `pool`, `owner` (`event->udata`), `interest` (what the kernel watches)
and `evType` follow the events; `event` and `fd` the connections; `lru` the
table, youngest first; `unsent` the connections whose `send_zbuf` is not empty;
`age` the seconds since `keepalive_ts_sec`.

| action | code |
|---|---|
| `Poll` | `sync_time`, `get_event`: any batch of registered events, at most `MaxBatch` |
| `SkipFinished` | the FINISH test at the head of both handlers |
| `AcceptChannel`, `AcceptFails`, `AcceptFatal` | `do_accept` with the whole of `service_accept_cb`, `gnb_network_service_udp_channel` and the eviction |
| `TcpServe`, `TcpClose`, `TcpServeWithoutUdp` | `handle_tcp_event`: `do_send`, `do_recv` with `recv_cb`, `do_close` with `close_cb` |
| `UdpServe` | `handle_udp_event` |
| `IdleKeep`, `IdleClose` | `service_idle_cb` |

A batch is a set, dispatched in any order, because the kernel may report in any
order.  Descriptors are the lowest free numbers, as POSIX hands them out.  A
`NULL` that the code would dereference, and the double free of the eviction,
end in `Crash`; the double free may also go unnoticed.

### UotUdpService

One UDP socket and one link; `link` is `none`, `wait`, `up` or `failed` (a
record whose `connect()` failed at once, which nothing removes).  The three
timestamps are ages.  `ConnectSucceeds`, `ConnectFails`, `LinkServes`,
`LinkCloses` are `handle_tcp_event`; `UdpServes` and `DatagramWithoutLink`
`handle_udp_event`; `IdleReconnect`, `IdleKeepalive`, `IdleTimeout`, `IdleRest`
the branches of `service_idle_cb`.

### Relay, Payload16, FrameStream

`Relay` keeps the bytes of the TCP send buffer, each named by its frame and its
place, beside the bytes that were queued and the bytes `send()` took.  `blocking` is
whether the socket of the link blocks: on the UDP side it does not; on the TCP side it
does on Linux, whose `accept()` does not hand on the O_NONBLOCK of the listener
(`gnb_network_service.c:212-220`), and does not on BSD, macOS and Windows, which do.  A
`send()` may take a part only where it does not block.  In the
other direction the frame whose data waits in the UDP send buffer and the
datagrams that went out, with their destination.  The receiver's decoder is
`Payload16`: `Handle(ctx, data)` gives the context after a call, the frames
called back for and the value returned; its loop is a recursive function of what an
iteration starts from (`Call`).  `FrameStream` drives it with frames of
the shortest, a middle and the longest legal length and one that is too long;
`recv()` may take any number of bytes, the link may be lost at any time.  On the TCP side
each link starts with a context of its own; on the UDP side one context serves all
links (`FreshContext` tells them apart).  A copy of a negative length (`gnb_payload16.c:182`) ends the process
and leaves the context as it was, which `NeverOverruns` sees by `status`.

### EventHandlers, Readiness

The services above take a batch as a set of connections with their flags.  What
makes that right is a layer below: `EventHandlers` has the event blocks
(`event_fixed_pool`, `udata`, `ev_type`), the array of `select` and `kqueue`
with the `index` each event keeps of its place, and the batch as the sequence of
pointers the loop goes through.  `EpollGet`, `SelectGet` and `KqueueGet` are the three
`get_event`s: epoll reports an event once with all its flags; select goes through
its array until it has found as many events as there are bits; kqueue has an entry
for each filter, so that an event may come twice, and the later entry overwrites
`ev_type`.  `Accept`, `Serve`, `ServeListener`, `SkipFinished` and `Idle` are the loop; what
a service does in a callback is left open to what any of them may do: close a
channel or a link, open one, switch WRITE on.

`Readiness` is what the loop expects, without any of that: what a poll reports is a
sequence of connections, and one that is closed leaves its place blank.  The mapping names
connections in place of blocks, and shows a block marked FINISH as a blank.  It
holds because `ev_type` keeps FINISH in a popped block until the kernel reports it
again: `do_accept`, `gnb_network_service_connect` and `gnb_network_service_udp_channel`
do not clear the block they pop, and if they did, the second entry of a closed
connection would be served as the new one's (the mutant of `Contract`).

epoll and kqueue are given the length of the loop's array; select is not, and with more
events than that it would write past the array.  The model stops there, and for
`Contract` that step is a stutter: the contract says nothing of it.  No build that
ships select gets there, since a Windows `fd_set` has 64 places and the array 100.

### Tunnel

The composition of both sides as far as their timers go.  `udp` is the UDP side's
link, its status and three ages (last heard, last keepalive, last attempt); `chans`
the TCP side's table; `toTcp` and `toUdp` what is under way on each connection: data,
and its end.  `UdpPass` is a whole turn of the UDP side's loop, for its sockets never
block; the TCP side goes event by event (`TcpAccepts`, `TcpHears`, `TcpForwards`,
`TcpEnds`, `TcpIdle`), because any of its `send()`s may block: `held` says that one does.
The environment breaks the network or holds the TCP side up (`Trouble`), loses what a
kernel no longer repeats (`Forget`) and answers for hosts that know nothing of a
connection (`ResetByUdpHost`, `ResetByTcpHost`).  `Tick` is a second.

A process knows the time of its last `sync_time` only, which it reads *before*
`get_event` waits: `stale` is how long ago that was.  What it hears is stamped with
that time, so the ages of the model never start below `stale`, and after a long
`send()` the TCP side stamps what waited for it with a time long gone.

Assumed of the environment: a network that works delivers within the second and
completes a handshake before the next poll; every process that is not held up goes
round its loop once a second (`get_event` waits a second at most); one UDP side for a
TCP side.  Right after an outage TCP's back-off does not deliver within the second;
`calm` and `Recovery` therefore count from when the connections deliver again, not from
when the cable is back.  `README.md:84` allows several UDP sides; with them a half-open
channel behind an older channel in good health is not looked at (`UotTcpLive`), and
neither property is claimed.  A `connect()` that fails at once
(`gnb_network_service.c:857-860`) is not in `Tunnel` but in `UotUdpService`: it leaves a
record that nothing removes, and a tunnel that does not come back.

### Lru32, LinkedList, Hash32, Heap, AddressList

The data structures keep every field that decides anything: links in both
directions, `num`, `chain_len`, `kv_num`, the pools.  The callers' data are model
values.  `Heap` keeps the list of fragments and each fragment's `idx`, and drops
the byte counters, which nothing reads.  `AddressList` keeps the places with their
ports and times; a port of 0 is what marks a free place, so addresses come with a
port; it is correct by itself, and no path of this program uses it.  `MCContainers` checks them in one run, one of them at a time.

## 3. Runs

| run | shows | bounds and why they are enough |
|---|---|---|
| `UotTcpService` | the accounts of events, descriptors, table and armed buffers; where a crash may come from (it permits the crashes that do) | three records, two entries in the table, six events and descriptors: two channels with both sockets; a third connection gets one descriptor only, is a channel without a UDP socket, and evicts the oldest; or it reuses what a channel has just given back, in the same batch. READ may find data, nothing or the end of the connection, alone or with WRITE, so that it stands for EOF and ERROR too. No run has the events run out before the descriptors, which takes fewer events than descriptors (the program has 1024 and about 1018); the theorems cover it |
| `UotTcpLive` | a silent channel is closed; the table is right with a clock that may be set back | two channels, one event per batch, a table of three |
| `UotUdpService` | accounts, keepalives, timeouts and reconnects of the link; where a crash may come from (it permits that of `UotUdpNoLink`). A record of a failed `connect()` counts as reopened | intervals 2, 1 and 3 keep the order keepalive < reconnect < timeout of the code (3, 5, 15); three events, two of which are ever in use |
| `Forwarding` | the stream: with a context for each link (the TCP side) the decoder is a frame channel, refuses only long frames and stays in its memory. The buffers: a blocking socket loses nothing; nothing is doubled or reordered, losses only with a failed call, the end of the buffer passed by a head at most, what is queued is sent | one of the two at a time. The stream: bytes below 8, a head of 4, at most 6 bytes a frame, 3 frames a link: every cut of every combination. The buffers: a size of 6, heads of 2, three frames: the buffer fills, overruns and is left negative |
| `Containers` | list, map and pools of the table agree and it is the abstract one, but for a hit in a table of two; every heap block listed once at its place, none refused; the address list gives up the oldest first | the table: three entries, four keys, three of them in one bucket: head, middle and tail of list and chain; eviction. The heap: four fragments and one more allocation. The address list: three places for four addresses, four seconds, so that times are equal too |
| `EventHandlers` | each handler gives the loop what `Readiness` says; the arrays agree with what is watched | four events, three connections besides the listener, room for three in a batch: a channel is closed and its blocks are popped again while a second entry of theirs waits. An accept that evicts a channel from a full pool would take a fifth event; `UotTcpService` has evictions |
| `Tunnel` | the two sides give up a connection only after `Tolerance` seconds of trouble in all; `Recovery` seconds after the last trouble the tunnel is whole, unless the UDP side has died | two connections at a time: a new one beside a half-open one; intervals 1, 1 and 5 keep keepalive <= reconnect < timeout and leave room for trouble of up to two seconds that must be endured and of any length that must be recovered from |

Five more runs end in a counterexample, each a `finding`:

* `UotTcpCrash`: `accept_cb` does not look whether it got a UDP socket
  (`uot_tcp_service.c:107`), and when a link without one is closed, `close_cb` reads the
  missing connection (line 338).  The listener takes one descriptor and a channel two, so
  with an even number of them the last link gets none for its UDP socket; a Linux
  process has usually 1024, less stdio, epoll and two log sockets: 1018.
* `UotUdpNoLink`: the first idle pass of the UDP side queues a keepalive for a link
  that is still being connected and has no buffer (`uot_udp_service.c:302`).
* `FrameStreamOverrun`: the UDP side's decoder keeps the bytes of a frame of a link that is
  gone and takes them for the first of the next.  One such byte makes a legal frame look
  like size 0, and the link after that copies a negative length (`gnb_payload16.c:182`).
* `RelayPartialSend`: `send_cb` resets the buffer after a partial `send()`.
* `ContainersLru`: a hit in a table of two does not move to the head
  (`gnb_doubly_linked_list.c:164`, against `gnb_lru32.h:97`).

`Tolerance` and `Recovery` are derived, not tuned: with timeout `T` and keepalive
interval `K`, `Tolerance` is `T - K - 2` (10 seconds in the program: a keepalive is sent
in the pass after the interval is over, and two times are each a second old), `Recovery`
is `T + 2` and a second for each connection.  With one second more of the one or one
less of the other TLC finds a counterexample.  `RecoversInTime` leaves out a UDP side
that has died: a reconnect always finds a keepalive overdue, so an attempt to connect
that is not answered before the next pass ends the process (`UotUdpNoLink` is that
finding); the TCP side then forgets its channels.

`CHECK_DEADLOCK FALSE` stands where the model may stop: the process has crashed or
exited, or a bound on what is sent has been reached.

### Fairness

`UotTcpService` and `UotUdpService`: `WF_vars(Next)` (the loop is `while(1)`, every
system call in it returns: `get_event` waits at most a second) and
`SF_vars(Poll(1))` (the wall clock moves on; polls are possible again and again, so
one of them sees a second pass).  Nothing is assumed of the peers.
The stream: weak fairness of receiving, as long as the link lasts bytes on the
wire are delivered by TCP.  The buffers: weak fairness of `FlushSome`, the peer reads and
`send()` does not answer EAGAIN for ever.

## 4. Proofs

`FixedPoolProofs` proves that a pool in order (`PoolOK`: the slots below `num`
hold distinct blocks, the others NULL) stays in order under pop and push, and
what each does to the set of free blocks.  The argument for push needs that a
pool which lacks a block is not full (`PoolNotFull`): otherwise `array` would be an
injection of all indices into one block less.

`UotTcpServiceProofs` proves `Spec => []TypeOK` (`TypeCorrect`) for all constants that
satisfy `ConstantsAssumption`: any number of channels, events and descriptors, any
table size, any kernel reports, any clock.  `TypeOK` is inductive as it stands; the
work is in the helpers (closing returns events to the pool without leaving its
type, the table stays a sequence of channels), stated as lemmas.

Its second half proves `Spec => []EventsAccounted` (`NoEventLost`) and
`Spec => []NoStaleDispatch` (`DispatchIsFresh`).  `EventsAccounted` is not inductive: a
handler that disables WRITE would take a registered event to one that watches
nothing, were READ not always among what is watched; and the dispatch of an event
that was reported some handlers ago is safe only if it has not gone back to the
pool unmarked.  `EventsInv` adds both (`WatchedForReading`, `PendingOwned`).  The
argument, one lemma per kind of step:

* closing (`CloseEvents`): the channel's two events are its own and no one else's, so
  neither is free, the two pushes succeed (`PoolPushOK`), and exactly these two lose
  owner and registration and are marked FINISH where they wait (`ClosedEvents`);
* accepting (`EnterEvents`, `AcceptEvents`): the popped events were free, hence had no
  owner and did not wait unmarked; the evicted channel is another one;
* serving (`ServeEvents`): only WRITE comes and goes, and only on events with an owner;
* polling (`PollEvents`): what is reported is registered, hence has an owner.

`NoStaleDispatch` then follows without a further induction: an unmarked event of the
batch has an owner, its owner knows it, and a connection that knows an event lives.

Its third part proves what else the TCP side keeps.  `TablesInv` joins to the
event accounts of above: the table lists the channels and is within its size
(`TableIsOfTheChannels`), descriptors are with one connection each (`NoDescriptorLeaks`),
a TCP connection always has its event, and what is not sent is armed
(`NothingQueuedIsForgotten`).  They need each other: the entry a close takes out of the
table must be the one the channel has, an armed event must be the connection's own.
`DiesAtALimitOnly` is an action property: it goes through the steps that end in `Crash`.
Whether a limit is ever reached depends on the numbers, and with the usual ones it is:
nothing is proved under numbers that keep it away, and `UotTcpCrash` shows one of
the crashes.

`UotUdpServiceProofs` does the UDP side from one invariant, `UdpInv`: the accounts of
event, descriptor and link (`LinkAccounted`), that READ stays watched, how many events
the pool has left, that what is pending has an owner, and that what waits is armed.
`NoMarkIsNeeded` says that this side, which never marks the events of its own batch,
does not need to.  `KeepalivesInTime` follows from the order of the branches of
`service_idle_cb`.  `OnlyTheLinkIsMissing` assumes `NumEvents > 2`, without which the pool has
no event for a link opened while another is held (the code has more than a thousand).
`EachLinkGetsItsTime` assumes a clock that is not set back: else the unsigned difference
is huge and closes a live link, which the model has and the property would not survive.
It adds that what was last heard is no older than the link (`HeardSinceConnect`).

`RelayProofs` is about sequences of any length, sizes of any value.  Each byte has the
number of its frame and its place in it.  `WireIsInOrder`: `OrderInv` orders the whole of
`tcpWire \o tcpBuf`, because the bytes of the buffer come out later, and bounds the
frame numbers by `frames`, so that what is appended is younger.
`BlockingSocketsLoseNothing` is inductive with the types; it is about a socket that
blocks, whichever side it is on.  `NoFrameTwice` and
`NoLossWithoutFailure` come from one invariant, `FramesInv`: what was emitted is in order
and no younger than `arrived`; a frame that waits was refused once and is younger than
all that were emitted (`WaitingInv`).  Without the second part a frame could wait
behind one that went out, and its retry would overtake backwards.

`EventHandlersProofs` first proves `ArrayListsTheWatched`.  A callback makes
several calls of `add_event` and `del_event`, and in `do_accept` an event is popped first
and added last, with a close of two others in between.  The invariant is therefore a
property of the tables within a callback, `Good(s, H)`, with `H` the events that are
popped and not added yet: pool, `udata` and what is watched agree, and in the array each
watched event is where its `index` says, and each place holds a watched event that says
so (`Placed`).  Each call has a lemma (`PopGood`, `AddGood`, `ArmGood`, `DisarmGood`, `CloseGood`),
and each handler's action composes them.  Two of them carry the work: an array is never
full when a popped event is added (`RoomForOne`, pigeonhole), and `del_event` keeps
`Placed` when the last event moves (`DropPlaced`), also when the last one is the one
removed.  TLC checked `Good(Tables, {})` on the instance of the run before it was proved.

The same module proves the refinement of `Readiness` (`LoopGetsReadiness`), for each of the
three handlers.  `ReadyInv` adds what the loop's protocol needs: a connection has one
event, an event of the batch that is not marked FINISH is watched, and a poll finds the
last batch gone through.  Every callback, whatever it opens and closes, is summed up in
`Turned(r, X)`: the events of the closed connections `X` are marked and belong to nobody,
every other event of a connection is as it was, and the popped ones keep their mark,
which is where the proof uses that `Pop` does not clear it.  From there `TurnKeeps` shows
once that exactly the places of `X` turn blank, and each action only has to name its `X`
(`AcceptTurns`, `CloseTurns`, `OpenTurns`).  TLC checked `ReadyInv` on the run's instance first.

`ContainersProofs` proves `HeapSpec => []ListHoldsTheLive` (`HeapHoldsTheLive`) for any limit and
any order of allocations, frees and cleans.  `HeapInv` states that list and `idx` are
inverse to each other on the places and the blocks in use (`PlacesMatch`): the property
gives the place's side of this only by counting, and `gnb_heap_free` relies on it when
it moves the last block by that block's `idx`.  In such a heap the checks that refuse a
free never fire (`InOrderRefusesNone`), so each step is the plain one: append, move the
last block into the gap, or empty the list.

It also proves `AddressSpec => []KeepsTheLatest` (`ListKeepsTheLatest`) for any number of
places.  The property says who is kept, which is not enough to say who is evicted next.
`AddressInv` adds that the places in use are the first ones, that no two hold the same
address, and that their times are in order with what was heard (`PlacesAreFirst`,
`OldestAreGone`); the place a new address takes is then the next free one or the oldest
(`FreeIdxIsNextOrOldest`).  That a place with the least time exists at all is the
well-foundedness of the naturals (`LeastOfNaturals`).

Of the table it proves `ListIsSound`, `MapMatchesList` and the refinement of `LruTable`
with `Lax = {2}`, that is but for the order a hit leaves in a table of two
(`ListStaysSound`, `MapStaysMatched`, `TableIsRefined`) for any size, keys and hash function.
The properties walk the list by its links; a proof needs the order itself.  `ListHas(l, f,
n)` says that `f` is the sequence of the nodes of `l`, with the links of both directions,
and each operation of the list has a lemma that gives the order after it (`AddHas`,
`PopHas`, `MoveHeadHas`, ...).  The invariant `LruInv` is that there is an order (`InOrder`) in
which the pools have exactly what is not in it, an entry and its list node know each
other, keys are distinct, and the map has one pair for each entry, in the bucket of its
key, with chain lengths that are right (`MapHas`): the last part is what `gnb_hash32_del`
goes by.  That the walks of the properties are this order is shown by the least step
at which they would differ (`WalkIsTheOrder`), and the pairs of the map are counted by a
bijection with the entries (`OrderMatches`).  For the refinement the table shown is the
sequence of the entries in that order (`TableIsTheRows`), and each call has a lemma that
gives the rows after it (`TakenOutRows`, `MovedRows`, `ReplacedRows`, `PutFirstRows`).

`FrameStreamProofs` is about frames of any number and length and any cut of the stream.
`Loop` is a recursive function, and TLA+ says what such a function is only if there is
one: `LoopAnswers` proves that there is, and that `Loop` is one iteration and then the loop
again.  The prover has no induction over data, so the argument goes by a least
counterexample: `Left(call)` counts the bytes to come, and one more for a frame under
way, an iteration that goes on makes it less (`IterationType`), and the naturals have least
elements.  `LoopEnds` is then the loop rule of the module: what is true of a call and the
frames called back for so far, and kept by each iteration, is true of some call the loop
ends with.  What comes from it:

* `ContextInv`: each call leaves a context that fits its memory (`HandleFits`), and with a
  context of its own a link never starts with a size that is refused.
* `MemoryHolds`, for a link with a context of its own: what a call answers for a refusal is
  one of the codes of the program and never `Overrun` (`Refusals`), so the process goes
  on (`RunsAlways`), and what is kept of a frame is less than its size (`KeptBelowSize`).
  It needs `StreamInv` below: the bytes kept are those of the frame under way.
* `WholeFramesComeOut`, the refinement of `FrameChannel`, and `LegalFramesAreAccepted`, from
  `StreamInv`: there is a sequence of places in the stream, `off[i]` where frame `i` ends,
  such that the frames that are not delivered are on the wire at their places, but for
  the first bytes of the next one, which are what the context keeps (`Holds`).  An
  iteration takes more of the frame under way, completes it, or refuses it for its length
  (`UnderWayIteration`), and that is carried through the loop and through the fast path for
  a whole frame (`HandleBrings`).  It needs `HeadSize > 2` and frames that fit the size field,
  both assumptions of the modules (a head is 4 bytes, a datagram below 64K).

`TunnelProofs` proves `EnduresTrouble` (`TroubleIsEndured`) for any intervals that satisfy
`TunnelAssumption`.  `QuietInv` speaks of states with `trouble < Tolerance`: either no
connection has come up yet and nothing is under way, or there is one, nothing ends it, and
both ages are bounded.  The UDP side's age is bounded by the time since its last
keepalive unless that keepalive or its echo is still under way, and by
`KeepaliveInterval + 2 + trouble` in any case (`UdpAges`); the TCP side's by one more, because
it stamps what it hears with a time as old as it was held up (`TcpAges`).  A second adds
one to an age and to the bound, or finds that a network that works has brought what was
under way.

Its second half proves `Spec => []RecoversInTime` (`TunnelRecovers`), for any intervals and
any number of connections that satisfy `RecoveryAssumption` besides: more than one
connection at a time, or there is none to open beside a half-open one, and a timeout above
`KeepaliveInterval + 2`, or a link in good health may be given up in the calm (TLC finds the
counterexample where either fails).  `RecoveryInv` has three parts:

* `Order`: connections reach the TCP side in the order the UDP side opened them, so the link
  is the youngest channel or the last to wait for `accept()`;
* `SentInTime`: a keepalive is sent in the second after it fell due;
* `CalmInv`, from the first second of calm on: a channel that is not the link's and not
  about to end is silent since before the calm (`HalfOpen`, whose ages are at least `calm`);
  the last keepalive on the link is under way, answered or refused, or is itself older
  than the calm, which lasts at most `KeepaliveInterval + 2` seconds, and from then on
  neither side gives the link up (`LinkInTime`, `Safe`); and from `KeepaliveTimeout + 2` on
  (`Late`) every half-open channel is over the limit, so that each second closes one, from
  the tail, and their number and the seconds passed stay below a constant sum.

The sum starts right because there are no more channels than connections (`RoomForOne`, a
pigeonhole argument), which also gives a UDP side without a link one to open.  A pass of the
UDP side is taken apart once, into the six forms it may have (`PassForms`); then each
action has a lemma of its own.

Assumptions: the named `ASSUME`s of the modules, each as weak as the code allows
(positive sizes, the width of the timer subtraction above the timeout).  TLC
evaluates them in every run.

Every safety invariant and every action property of the passing runs is a theorem, and so
are the refinements of `FrameChannel`, of `Readiness` and, but for a hit in a table of
two, of `LruTable`.

Only model-checked: liveness, under any of the fairness assumptions, which is out of this
prover's reach.

## 5. What is not modelled

* Windows branches; IPv6 as a case of its own (same control flow).
* Option parsing, log and daemon: straight-line code before the loop, or output.
* Formatting and parsing of addresses.
* Functions nothing calls: `gnb_lru32_store` and `gnb_lru32_fixed_store`,
  `gnb_hash32_store` (its local `kv` is never set, so it would replace a pair by a new
  one without the rest of the chain) and the key listings of `gnb_hash32.c`,
  `gnb_fixed_list.c` (its pop leaves the last node in two places), the byte-order and
  comparison helpers of `gnb_address.c`, `gnb_network_service_destroy`, the handlers'
  `finish_event`.
* The handlers' own pools of kernel records (`uevent`): one record is popped with each
  `add_event` and pushed with each `del_event`, which the loop pairs.
* Memory running out in `malloc()`; the decoder contexts a channel leaks (every path of
  closing frees less than `service_accept_cb` allocates).
* Foreign peers that write frames this program would not.
* The address a datagram goes to is modelled in `Relay` but no property is about it: the
  sender of the last datagram takes the place of the address of the command line, on
  the TCP side too, where `README.md:84` speaks of one and the same destination.
* After a frame that is too long the UDP side's decoder keeps the refused size, and every later
  link is refused with its first bytes.  `FrameStream` has it; its cause is that of
  `FrameStreamOverrun`, and no property is about it alone.
* kqueue's second entry overwrites `ev_type` (`kqueue_event_handler.c:232`), so that READ may
  wait while WRITE stays enabled; modelled, and promised by nothing.

## 6. Plan

1. Both services, forwarding, framing, table, heap; theorems about the pool, the heap, the
   TCP side's types, its events and the FINISH protocol: *done*.
2. The event handlers against what the loop relies on, the timers of both sides against
   each other, the address list: *done*.
3. Theorems about the accounts of both services, the send buffers, the event handlers,
   and the table of channels with its simulation of `LruTable`: *done*.
4. Theorems about the decoder and its stream, with its refinement of `FrameChannel`, about
   the trouble the timers bear and the recovery from it, and the refinement of `Readiness`:
   *done*.
