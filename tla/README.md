# A verification of the Sponge TCP stack

The repository is a user-space TCP/IP stack in C++ (`libsponge`): a TCP
implementation made of small classes, the adapters that carry its segments, an
Ethernet/ARP interface, an IP router, and an event loop that drives them. This
directory holds TLA+ models of its classes and of the way they work together, the
TLC runs that check them on small instances, and TLAPS proofs.

## The system and its parts

| Part | Operations | What is hard about it | Modules |
|---|---|---|---|
| `WrappingInt32` | `wrap`, `unwrap`, `+` | the nearest of several candidates, near zero and half a turn | `WrappingInt32`, `WrappingInt32Spec` |
| `ByteStream` | `write`, `peek_output`, `pop_output`, `end_input`, `set_error` | partial writes at the capacity, calls after the end | `ByteStream`, `ByteStreamSpec`, `ReliableStream` |
| `Buffer`, `BufferList` | append, `remove_prefix`, `concatenate` | prefixes across shared buffers, empty buffers | `BufferList` |
| `StreamReassembler` | `push_substring` | any order, overlap, duplicates, capacity, the end arriving early | `StreamReassembler`, `StreamReassemblerSpec` |
| `TCPReceiver` | `segment_received`, `ackno`, `window_size` | wrapping, FIN accounting, a truthful window | `TCPReceiver`, `TCPReceiverSpec` |
| `TCPSender` | `fill_window`, `ack_received`, `tick`, `send_empty_segment` | closed windows, outdated acknowledgments, retransmission | `TCPSender`, `TCPSenderSpec`, `TCPSenderPeerSpec` |
| `TCPConnection` | `connect`, `write`, `end_input_stream`, `segment_received`, `tick`, destructor | opening at once, lost handshake segments, closing and lingering | `TCPConnection`, `TCPPairSpec` |
| `TCPState` | the official RFC 793 names | whether the counters always make up a state | `TCPState` |
| `TCPSegment`, headers, checksum, parser | `parse`, `serialize` | lengths, flags, options, odd payloads, errors that are ignored | `TCPSegment`, `Codec`, `TCPIPCodec`, `LinkCodec` |
| `EventLoop` | `wait_next_event` | hangup, end of file and lost interest, in one poll | `EventLoop` |
| `FdAdapter`s | `read`, `write` | whose packets are passed on, listening | `FdAdapter`, `TCPIPCodec` |
| `TCPSpongeSocket` | `connect`, `listen_and_accept`, four rules, `wait_until_closed`, destructor | two threads, partial writes, shutdown races | `TCPSpongeSocket`, `TCPSpongeSocketSpec` |
| `NetworkInterface` | `send_datagram`, `recv_frame`, `tick` | expiry against late replies | `NetworkInterface`, `NetworkInterfaceSpec` |
| `Router` | `add_route`, `route` | longest prefix, TTL | `Router`, `InternetSpec` |
| `bidirectional_stream_copy` | its four rules | when to end either side, and the copy | `StreamCopy`, `StreamCopySpec` |

An application's thread writes to and reads from a socket pair. At its other end
the TCP thread of a `TCPSpongeSocket` runs an `EventLoop` of four rules: datagrams
into the `TCPConnection`, bytes of the pair into it, bytes of it into the pair,
segments of it out. The connection passes each segment to its receiver and the
acknowledgment in it to its sender, stamps the sender's segments with the
receiver's ackno and window, and decides when to give up, linger and close. The
receiver feeds a reassembler, which writes a byte stream. An adapter wraps
segments into UDP, IP or Ethernet, the last through a `NetworkInterface`; a
`Router` forwards datagrams between several of those.

## How the models are built

Each class is a module of operators over a state record, one operator per
method, so that a class is reused by every class that owns one:

    ByteStream -> StreamReassembler -> TCPReceiver -+
    ByteStream ---------------------> TCPSender ----+-> TCPConnection -> TCPState -> TCPPairSpec
    TCPConnection, FdAdapter, EventLoop --------------> TCPSpongeSocket -> TCPSpongeSocketSpec
    ByteStream, EventLoop ----------------------------> StreamCopy -> StreamCopySpec
    NetworkInterface ---------------------------------> Router -> InternetSpec
    Codec -> TCPIPCodec (with FdAdapter), LinkCodec

`<Class>Spec` modules hold the variables, the environment's actions and the
properties (`PeerStream` has the constants that the reassembler's and the
receiver's share); `MC...` modules give TLC its constants; `..._proofs` modules hold
the theorems and `WrappingInt32_lemmas` what several of them use. Field and method
names are the source's without the leading underscore. Where two classes share a
method name, one is renamed: `receive` is `TCPReceiver::segment_received`,
`sender_tick` and `connection_tick` two of the `tick`s, `connection_write`
`TCPConnection::write`, `destroy` the destructor.

Operators described as slips (`write_unbounded`, `Done_at_once`, ...) are wrong
versions of the operator that follows them. No specification uses them: they
record which mistake each property detects.

- **WrappingInt32**: the modulus 2^32 is the constant `SeqMod`, any even number;
  `SizeMod` is the number of values of `size_t` and `uint64_t`.
- **ByteStream**: bytes are abstract values; `ByteStreamSpec` adds histories of the
  bytes accepted and delivered. `BufferList` keeps the list of buffers beside
  it, buffer by buffer with its offset, through the same calls.
- **StreamReassembler**: the two loops of `push_substring` walk over consecutive
  indices; `Span`, `Reached` and `Drained` say where each starts and stops.
  `m_exist` is the set of indices marked true. In `StreamReassemblerSpec` any
  piece of the stream is pushed at any time, any number of times.
- **TCPReceiver**: `TCPReceiverSpec` lets segments of the peer arrive in any order,
  over a stream longer than the sequence space. No segment is older than half of
  that space, which TCP itself assumes. `seq_start - 1` is unsigned: for a segment
  that has the number of the SYN it is the greatest `size_t`, and `Pushed` is what
  `push_substring` makes of that.
- **TCPSender**: the loop of `fill_window` is `Packetize`, one segment per
  `MAX_PAYLOAD_SIZE` bytes. Two counters are cut where the code cannot tell the
  difference: `tick` at the timeout it is compared with, and
  `time_since_last_segment_received` at the linger time. `TCPSenderSpec` has the
  calls; `TCPSenderPeerSpec` answers them with any ackno and window, or as a
  conforming peer does, which is not code of this repository.
- **TCPConnection**, **TCPState**: all operations. `TCPPairSpec` puts two
  connections and their owners on a network. An action is one call of the owner
  followed by sending what is in `segments_out`, as the event loop's rules do.
  What may go wrong (loss, reordering, an owner that drops its connection) is a
  `Condition` that a behaviour is given at its start.
- **Codecs**: bytes are numbers. A 32-bit value is kept as a signed one, as
  TLC's integers are; `Codec` has the parser and unparser of network order and
  the checksum, `TCPIPCodec` and `LinkCodec` each header field by field.
- **EventLoop** is one turn of `wait_next_event` cut at its poll: `SetUp` (rules
  cancelled, interest asked), `Poll` (what each descriptor would answer), `Handle`
  (one result). Its rules, descriptors and callbacks are constants that
  `TCPSpongeSocket` and `StreamCopy` give it. A rule is known by its number: rules
  are only ever erased, so the set of those left, taken in the order of their
  numbers, is `_rules`.
- **TCPSpongeSocketSpec**: the owner's calls, the turns of the loop and each
  callback interleave. The peer is another `TCPConnection`, whose segments arrive
  in order; it may reset the connection or vanish. Time passes only in a poll that
  finds nothing ready, and for both connections alike.
- **NetworkInterface**: the ARP table, the requests under way and the waiting
  datagrams, with the time each has left. Alone (`NetworkInterfaceSpec`) it hears
  any ARP message, true or false; in `InternetSpec` hosts and routers sit on links.
- **StreamCopySpec**: someone feeds standard input, a pipe or a file; someone reads
  standard output; the far end of the socket reads, writes, shuts down and goes.

### What the parts promise together

`ReliableStream` is the abstract specification of everything between a writer
and a reader: bytes in order, each once, the end only after the last of them. Two
things are shown to implement it. A `ByteStream` does whenever nothing is written
after `end_input()` (`ReliableIfWriterStops`, checked and proved). Each direction of
a pair of connections does over an unreliable network, as long as the traffic is
stop-and-wait (`ReliableBothWays`, checked).

## The runs

| Run | Shows | Instance |
|---|---|---|
| `building_blocks` | `unwrap` against its definition; the byte stream, its buffers and its refinement; what one end writes the other reads, one damaged byte of a datagram never changes what a connection reads, and a frame that is cut short or damaged in its types holds no ARP message; the route with the longest prefix; an interface that hears anything; the stream copy | a behaviour is about one part: modulus 8 and checkpoints over three turns; capacity 2 with writes of up to 3 bytes, so that they are cut; every table of two routes over 3-bit addresses; headers with every flag, options and odd payloads, and each byte of the datagram damaged in three ways; entry and request lifetimes of 2 and 3 with steps up to 3; three bytes each way through buffers of 3 and pipes of 2 in writes of at most 2, so that writes are cut by either |
| `reassembler` | the output is the stream, stored bytes are counted once, the capacity is kept, everything is delivered | six bytes through capacity 3, pieces of any length, so that bytes are discarded, stored, overlapped and drained; the end may come without bytes and early |
| `receiver` | order and end of the stream, ackno, window, the FIN acknowledged in the end | ten bytes over modulus 8, so that numbers repeat, every ISN, and keep-alives, the first of which has the number of the SYN |
| `sender` | accounting, contents, timer, progress; within the window of a conforming peer; all is acknowledged or the connection gives up | five bytes, segments of two, an ISN that wraps; either every ackno and window up to 4, or a conforming peer whose buffer (3) is smaller than the stream and whose acknowledgments are lost |
| `pair_lossless` | RFC 793's arrows; acknowledged means received; both ends close | both ends may open; the byte and the FIN may be in flight together |
| `pair_unreliable` | a reliable stream both ways; a clean close means delivered; an end that does not linger can afford it | segments are lost, ends give up and the client's owner may drop its connection; or segments overtake and are duplicated |
| `internet` | each datagram arrives once, in order, at its host, and all do in the end; what is learnt is true | two hosts behind a router, two datagrams one way or one each way, TTLs that do and do not suffice, zero among them, ARP frames lost, entries that expire in two ticks |
| `socket` | bytes pass in order; EOF and a clean close mean what they say; no exception leaves the loop; other connections' packets do not get in; every call returns | four scenarios: listening, with a socket pair of one byte and an owner who drops the socket; listening while a packet of another connection arrives, before the SYN or later, with a peer that resets or vanishes; connecting while a packet of another port arrives; connecting over UDP to a peer that resets or vanishes |
| `sender_stale_ack`, `pair_lost_data`, `pair_lost_synack`, `socket_partial_write` | disagreements, below | |

The pair runs send one byte in one direction and none in the other: enough for
data, a FIN with or without it, retransmission and both closing orders. With one
byte of payload per segment, `RecvCapacity` 1 makes the traffic stop-and-wait;
with 2 the byte and the FIN are in flight together. `pair_unreliable` uses 1,
since with 2 `pair_lost_data` below applies. `MaxNet` bounds the segments on their
way: a lossy network drops what is beyond it, over a lossless one the owners
wait. A tick of 5 makes the linger time two ticks, 10 one, and either lets the
timer expire while segments are under way. `SizeMod` stands for 2^64 and `WinMod`
for 2^16; the instances stay below both unless a subtraction underflows.
`MaxPassedOn` stands for the 65536 bytes rule 3 of the socket writes at a time; as in
the code, where a receiver's default capacity is 64000, it is no less than the
capacity. In
`internet` time waits while an interface holds more than `MaxFrames` frames: links
are faster than ARP timeouts.

### Disagreements between the code and its documentation

Each is a run that violates one property (`findings` in `PROJECT.json` quotes the
lines):

- `pair_lost_data`: an end of stream that carries no byte and arrives before
  missing bytes ends the stream, since the reassembler looks at the bytes it
  stores and not at the ones it misses. The receiver then acknowledges what it
  does not have, and a connection closes cleanly with bytes missing.
- `sender_stale_ack`: an outdated acknowledgment changes the window.
- `pair_lost_synack`: a repeated SYN in SYN_RCVD is answered without a SYN.
- `socket_partial_write`: when a connection breaks while more bytes wait than
  the socket pair takes, rule 3 shuts the pair down and then writes to it.

`TCPReceiverSpec` leaves out only the early FIN without bytes, so the `receiver`
run shows that nothing else makes the ackno or the end wrong. `pair_unreliable`
leaves it out by being stop-and-wait, which leaves out all pipelining too: what
holds end to end with several segments in flight over an unreliable network is
not shown. `pair_lossless` checks RFC 793 without loss. In the `socket` run the
scenarios with a peer that goes away have a socket pair with room for all bytes.

Others can be read off the code and have no run of their own:

- `ByteStream::write` accepts bytes after `end_input()` (byte_stream.hh:107 rules
  that out). `ReliableIfWriterStops` makes it the writer's obligation.
- The reassembler's `m_char` is never shrunk (stream_reassembler.hh:34 promises a
  bound), and `write` of a full `ByteStream` appends empty buffers.
- The RST of a destructor stays in `segments_out` and is dropped with it, although
  tcp_sponge_socket.hh:75 says that a destructed socket sends one.
- `NetworkInterface::tick` with a step of five seconds or more does not return
  while a request is under way; `TickReturns` is the exact condition. No caller
  ticks so slowly.
- A rule that is not interested is still polled, and spins once its descriptor has
  hung up, until another rule ends the loop.
- `parse` of a datagram, a segment or a frame ignores the result of its header's
  parse. An IP header with a wrong version, length or checksum comes through, and
  only the payload length and the segment's checksum keep the datagram from the
  connection. For the headers of the instance they do (`SegmentSurvivesWire`); that
  is no guarantee for all.
- network_interface.hh:55 says that waiting datagrams are discarded when no ARP
  reply comes in time. The code keeps them and asks again, as the next line of
  that comment and network_interface.cc:167 say, and so does the model.
- router.hh:27 says that a reply teaches a mapping from its "target" fields. The
  code takes the "sender" fields, as network_interface.hh:80 says.

### Fairness

- `reassembler`, `receiver`: the peer retransmits what is missing, the owner
  reads. A TCP sender does the first until it gives up.
- `sender`: the clock runs (`tick` is called by the event loop at least every
  10 ms), the peer takes what fits and its owner reads, and not every
  acknowledgment is lost (strong fairness of delivery).
- `pair_lossless`: the clock, delivery and reading are weakly fair; owners are never
  forced to write, end or drop anything.
- `internet`: the clock is weakly fair; each interface that has frames again and
  again gets some of them across (strong fairness of `Carry`). Hosts need not send.
- `socket`: the operating system runs the TCP thread, the owner reads what it gets
  and is woken when the thread it joins has ended. Nothing is asked of the peer.
- the stream copy: the process runs, the far end and the reader take what they
  are given. Nobody has to end, so `CopyReturns` starts when both sides have.

Except for the reassembler's and part of the sender's, fairness is spelled out
with explicit enabling conditions, each the exact condition under which its
action changes something, because TLC evaluates `ENABLED` of the handlers slowly.

Deadlock is checked for the reassembler, the receiver and the sender. The others
really stop: closed connections, delivered datagrams, a joined thread, a pure
function.

## What is proved

TLAPS checks the theorems for every value of the constants that satisfies the
assumptions named here. `TypeOK` and `Accounting` of the byte stream,
`ReassemblerTypeOK`, `RoundTrip` of the wrapping numbers, the three refinements
`ImplementsReassembler`, `PeerImplementsSender` and `BuffersAreByteStream` and
`MatchEntryIsFirstLongest` are only proved; the other properties named here are
also checked by a run. The inductive invariants of the receiver, the sender, the
internet and the stream copy hold on the instances of their runs, as TLC found
before they were proved.

- `BuildingBlocks_proofs`, wrapping numbers: `UnwrapClosestHolds`, `RoundTripHolds`,
  for any even modulus (`SeqModAssumption`). `WrappingInt32_lemmas` writes the
  argument of `%` as quotient and remainder; two numbers that wrap to the same one
  differ by a multiple of the modulus, so one within half a turn is the nearest.
- `BuildingBlocks_proofs`, byte stream: `TypeCorrect`, `InOrderHolds`,
  `AccountingHolds`, for any capacity and set of bytes (`StreamAssumption`). `InOrder`
  is not inductive by itself: whether a write is cut depends on the room left, so
  the inductive invariant `IInv` adds the types, the bound on the buffer and the
  counters as lengths of the histories. Lemmas on `SubSeq` and concatenation carry
  the two steps that matter, `Write` and `Read`. `ReliableIfWriterStopsHolds` is the
  refinement: under `IInv` each call is a step of `ReliableStream` or a stutter,
  except a write after the end.
- `BuildingBlocks_proofs`, buffers: `BuffersHoldStreamHolds`, for any capacity and
  set of bytes. `BuffersInv` adds to the stream's `IInv` that the buffers joined are
  the bytes the stream holds; `RemovePrefix` says what `remove_prefix` leaves of
  them, by induction over the buffers it empties. `BuffersAreByteStream` is the refinement that carries the stream's
  theorems over.
- `StreamCopy_proofs`: `CopiedInOrderHolds`, for any bytes on both
  sides, any buffers but those of size zero, any pipes and any
  limit on one write but zero (`CopyAssumption`). A
  poll and the callbacks it leads to are many steps, between which the others act:
  `CopyInv` adds that what poll(2) said is still true as far as it matters when its
  turn comes (`Current`: bytes or the end are still there, the room in a stream has
  not shrunk, a defunct descriptor has nothing left), that a rule is gone only
  when there is nothing left for it to do (`RulesRight`), and that an end was seen
  only where there was one (`Ends`). `FillKeeps` and `DrainKeeps` are what a
  callback moves, `SetUpProperties` unrolls the first loop of `wait_next_event` and
  shows that it cancels nothing that matters (`CancelIsNothing`).
- `StreamReassembler_proofs`: `OutputIsStreamPrefixHolds`,
  `StoredBytesCountedHolds`, `CapacityRespectedHolds`, `ReassemblerTypeCorrect`, for
  any stream and any capacity but zero (`PeerStreamAssumption`). None is inductive: that the
  output takes all it is given needs that what is assembled lies below
  `first_unread + capacity`, and that a drained byte is the right one needs that
  every byte stored is the stream's byte at its index. `Assembled` adds both, and
  that nothing marked lies at or beyond
  the limit; it speaks of any reassembler, so that the receiver can use it.
  `RunEndProperties` says where the while loop stops (by the least index that is
  not marked), `DrainedProperties` where a call leaves `first_unassembled`,
  `UnassembledCounts` splits the stored indices into those passed on and those
  left, in the two cases in which the substring does and does not meet the byte
  that is due.
- `TCPReceiver_proofs`: `DeliveredInOrderHolds`, `AckIsFirstMissingHolds`,
  `WindowIsWhatIsAcceptedHolds`, for any stream, initial sequence number and
  capacity below half of the sequence space (`ReceiverAssumption`; the code's
  windows have 16 bits, its sequence space 32). `IInv` adds to `Assembled` that the
  checkpoint is the first unassembled index, from which `IndexFound` derives with
  the lemmas on `unwrap` that a timely segment is put where it belongs, and
  `Ended`: a FIN is noted only with the byte before it marked or assembled, so
  that the empty store `push_substring` looks for means that nothing is missing.
  `EmptyPushed` says that a segment without bytes and FIN changes nothing, wherever
  `unwrap` puts it, `size_t`'s greatest value included.
  `ImplementsReassembler` is the refinement: through
  `reassembler <- receiver.reassembler`, `read <- delivered` every step is one of
  `StreamReassemblerSpec` or a stutter, so what is proved of a reassembler holds of
  the one inside a receiver.
- `TCPSender_proofs`: `InFlightIsOutstandingHolds`, `SegmentsCarryStreamHolds`,
  `TimerGuardsOutstandingHolds`, `NeverStallsHolds`, against any acknowledgments and
  windows. Assumed is that a window is narrower than `size_t` and that a stream
  with its SYN and FIN takes less than half of the sequence space, so that an
  ackno is unambiguous (`SenderSpecAssumption`). The properties speak of totals over
  a queue. `IInv` says instead that there are positions `at`, one more than
  segments outstanding, where each segment starts and the next begins, the last
  being `next_seqno`; the totals follow by telescoping (`Telescopes`). `PacketRight`
  is what one turn of `fill_window`'s loop adds, `Filled` what all turns do;
  `ack_received` takes a prefix of the queue away (`Skip`), and the positions with
  it. `BackedOffProperties` unrolls the doubling.
- `TCPSenderPeer_proofs`: `PeerImplementsSender` (every step of
  `TCPSenderPeerSpec` is a sender's step or a stutter) carries the four properties
  over. `WindowRespectedHolds` assumes `~Reordering`, without which
  `sender_stale_ack` refutes it. `PeerIInv` adds, for a conforming peer, where the
  acknowledgments on their way are: in the order in which they were sent neither
  their positions nor the right edges they announce move back, all are starts or
  ends of outstanding segments, and what is in flight fits the window last
  accepted (`Follows`, `InOrder`).
- `Internet_proofs`: `ArpTableIsTrueHolds`, for any hosts, routers, links, route
  tables, lifetimes and losses (`InternetAssumption`: a node's addresses are a
  list, and links join interfaces that exist). A table is true because what is
  still on its way is: `IInv` adds that every ARP message an interface has queued
  has its own addresses as the sender's. One lemma per method shows it
  of an interface (`SendHonest`, `LearnHonest`, `RecvHonest`, `TickHonest`), and
  `RouteHonest` of all the datagrams a router moves in one call.
  `MatchEntryIsFirstLongest` says which route the loop finds, in any table: the
  first of the longest that match, or none only if none does.
- `Internet_proofs`, one interface: `InterfaceWaitsHolds`, `TimesLeftHolds`, for any
  addresses, lifetimes, datagrams, bounds and messages, true or false
  (`SurroundingsAssumption`). The invariant `Good` is stated of any interface, so
  that one lemma per method (`SendIsGood`, ...) serves; it adds that what waits for
  an address is a sequence, empty exactly when the address was not asked for.

Several arguments are inductions over a loop or a queue. They are made by a least
counterexample (`LeastMember`), and a function defined by recursion is first shown
to exist on 0 .. n for every n, since the induction theorems of the library take
an operator the provers cannot instantiate.

Only model-checked:

- liveness and everything under fairness (`EverythingDelivered`,
  `FinEventuallyAcked`, `AllAcknowledged`, `BothClose`, `AllArrive`, `CallsReturn`,
  `EndReachesOwner`, `CopyReturns`), which needs `ENABLED` or temporal reasoning
  beyond the prover;
- the codecs (`SegmentSurvivesWire`, `MessageSurvivesWire`): statements about given
  bytes and their damage, with a checksum over sequences of any length. That a
  shift compares the leading bits (`LongestPrefixWins`) is in the same way a
  statement about powers of two;
- the connections and the socket (`AckedMeansReceived`, `FollowsRFC793`,
  `CleanCloseMeansDelivered`, `NoLingerIsSafe`, `ReliableBothWays`; `NoException`,
  `PassedOnInOrder`, `EndsMeanDelivered`, `OnlyPeerResets`). They hold on instances
  that leave the disagreements above out by their sizes, stop-and-wait traffic for
  one, which is no condition an induction could use;
- `OnlyExpectedArrive`, which depends on the routes of the instance and compares
  sequences picked out of others by a test, which the provers cannot unfold.

## What is not modelled

- The probabilities of `LossyFdAdapter`: that it loses is `Lose` of `TCPPairSpec`.
- The OS wrappers beyond what their callers depend on (short reads and writes,
  end of file, shutdown): system calls, error codes, signals (EINTR).
- Applications that parse a command line and connect parts modelled above, print
  packets or relay them: `tcp_native`, `tcp_udp`, `tcp_ipv4`, `tcp_ip_ethernet`,
  `webget`, `bouncer`, `tun`, `udp_tcpdump`, and the specialised sockets
  `CS144TCPSocket` and `FullStackSocket`.
- `to_string`, `summary`, comparison and printing.
- `BufferViewList`, which has the operations of `BufferList` without ownership and
  is the argument of a system call.
- Windows wider than 16 bits: `send_sender_segments` cuts them as the code does, but
  no instance reaches the cut.
