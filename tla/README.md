# Sponge in TLA+

Sponge is a user-space TCP/IP stack in C++: a byte stream, a stream
reassembler, a TCP receiver, sender and connection, an Ethernet/ARP network
interface and an IP router, with adapters and an event loop that attach them to
sockets and TUN/TAP devices. This directory models it in TLA+, checks the
modules with TLC on small instances, and proves theorems about them with TLAPS.

## Inventory

| Part | Source (`src/`) | State | Operations | Here |
|---|---|---|---|---|
| ByteStream | `libsponge/byte_stream.*` | buffer, capacity, counters, eof, error | `write`, `peek_output`, `pop_output`, `read`, `end_input`, `set_error` | `ByteStream` |
| StreamReassembler | `libsponge/stream_reassembler.*` | set of segments, byte count, end, output | `push_substring`, `insert` | `StreamReassembler`, `ReassemblerSpec`, `ReassemblerLoop`, `Reassembly`, `ReassemblerProofs` |
| WrappingInt32 | `libsponge/wrapping_integers.*` | none | `wrap`, `unwrap`, `+`, `-` | `WrappingIntegers`, `WrappingSpec` |
| TCPSegment, TCPHeader | `libsponge/tcp_helpers/tcp_segment.*`, `tcp_header.*` | fields | `length_in_sequence_space`, parse, serialize | `TCPSegment` (fields, length) |
| TCPReceiver | `libsponge/tcp_receiver.*` | reassembler, ISN, SYN/FIN flags, `_recv_base` | `segment_received`, `ackno`, `window_size` | `TCPReceiver`, `TCPReceiverSpec` |
| TCPSender | `libsponge/tcp_sender.*` | outbound stream, numbers, window, outstanding segments, timer | `fill_window`, `ack_received`, `tick`, `send_empty_segment` | `TCPSender`, `TCPSenderSpec` |
| TCPConnection | `libsponge/tcp_connection.*` | receiver, sender, linger, active, time | `connect`, `write`, `segment_received`, `end_input_stream`, `tick`, destructor | `TCPConnection`, `ConnectionSpec` |
| TCPSpongeSocket, EventLoop | `libsponge/tcp_helpers/tcp_sponge_socket.*`, `util/eventloop.*` | threads, rules, shutdown flags | four rules, tick, connect, listen, close | the rules, as actions of `ConnectionSpec` |
| LossyFdAdapter | `tcp_helpers/lossy_fd_adapter.hh` | random source | drop a read or a write | fault `"lose"` of `ConnectionSpec` |
| NetworkInterface | `libsponge/network_interface.*` | ARP cache, pending requests and datagrams, time | `send_datagram`, `recv_frame`, `tick` | planned |
| Router | `libsponge/router.*` | route table, interfaces | `add_route`, `route` | planned |
| FdAdapter, TCPOverIPv4, TUN/TAP adapters | `tcp_helpers/fd_adapter.*`, `tcp_over_ip.*`, `tuntap_adapter.*` | addresses, listening flag | `read`, `write`, `tick` | planned |
| TCPState | `tcp_helpers/tcp_state.*` | none | names of states | planned |
| Wire formats, checksum, Buffer | `tcp_helpers/*_header.*`, `arp_message.*`, `ethernet_frame.*`, `ipv4_datagram.*`, `util/parser.*`, `util/buffer.*`, `util/util.*` | none | parse, serialize | planned |
| FileDescriptor, Socket, Address, TUN | `util/*` | descriptors | system calls | not modelled: pure I/O |
| Applications | `apps/*` | none | command lines | not modelled; `bidirectional_stream_copy` planned |

How they interact: the owner writes into the sender's ByteStream through the
connection; the sender cuts it into segments, the connection stamps them with
the receiver's acknowledgment and window; the peer's connection hands an
arriving segment to its receiver, whose reassembler writes the inbound
ByteStream, and its acknowledgment to its sender. The event loop calls these
handlers one at a time, from one thread.

## How the modules are built

A class is a module of operators: an object is a record of the class's members
and a method is an operator from the object (and its arguments) to the object
after the call, under the method's name. Names that two classes share get a
prefix (`receiver_segment_received`, `sender_tick`, `connection_write`), and
`ByteStream::eof` is `at_eof`. A module `...Spec` holds the variables, the
actions, the specification and the properties.

```
ByteStream <- StreamReassembler <- ReassemblerSpec <- ReassemblerLoop
     ^               ^                   ^  \-> Reassembly (abstract)
     |               |                   \-- ReassemblerProofs
     |          TCPReceiver <- TCPReceiverSpec (refines ReassemblerSpec)
     |               ^
TCPSegment, WrappingIntegers <- WrappingSpec
     v               |
 TCPSender <- TCPSenderSpec
     ^               |
     \----- TCPConnection <- ConnectionSpec <- MCConnection
```

Bytes are abstracted to their positions in the logical stream (`Slice(a, b)`
are bytes `a .. b-1`), so that a byte repeated, lost or taken from a wrong
offset shows. Sequence numbers wrap at `SeqModulus` (2^32) and absolute numbers
at `AbsModulus` (2^64). Operators introduced by the comment "Faulty variant" are
plausible mistakes in the operator that follows them: no specification uses
them; with one of them in place of the original a property of the project
fails, which shows that the property depends on the code.

### ByteStream, StreamReassembler

`insert` and `assemble` give the *result* of the loops: the neighbours a new
segment overlaps or touches, and what is stored in their place.
`ReassemblerLoop` walks the same loops element by element, with what an
iterator can do that is incremented after its element was erased, and the run
`reassembler_loop` shows that both agree when it reaches the next element.
The read of `end()` in `push_substring` (line 95) is taken to stop the loop.
`index + data.size()` is not reduced modulo 2^64: indices stay far below.

### TCPReceiver, TCPSender, TCPConnection

`TCPReceiver` has every early return of `segment_received` in one guard
(`wanted`, `inWindow`). `TCPSender` keeps the unsigned subtraction of the
window (`Remaining`); the loop of `fill_window` is the closed form
`fill_payload`: cut positions, and the FIN on the last segment. `TCPConnection`
has all handlers but the destructor.

### ConnectionSpec

Two connections, and per peer a queue of segments in flight and a set of
segments that fell behind. `Connect`, `Write`, `End`, `Read`, `Deliver` and
`Tick` are the calls of the event loop (`tcp_sponge_socket.cc`); `Become` sends
what a call queued at once (rule 4), which loses nothing since segments are
stamped when they are queued and the network may hold them. The network loses,
delays or duplicates at most `MaxFaults` segments. Time passes for both peers
in units of the retransmission timeout, once everything in order has been
delivered: the network's ordinary delay is below the timeout. `Settled` makes
clocks equal that no test of the code can tell apart.

## Runs

| Run | Instance | What it shows |
|---|---|---|
| `reassembler` | 9-byte stream, capacity 7 | output in order, segments well formed, counted once, within capacity, end exact; refines `Reassembly` |
| `reassembler_loop` | 8 bytes, capacity 7, `Stale = {"next"}` | the loops compute what `StreamReassembler` says |
| `reassembler_stale` (violation) | capacity 8, all of `Stale` | an erased iterator that leads elsewhere puts wrong bytes into the output |
| `wrapping` | moduli 8 and 40 | round trip and closest number over five periods, every ISN |
| `receiver` | 9 bytes, capacity 7, numbers that wrap around inside the stream | acknowledgment, window and end right; the reassembler inside refines `ReassemblerSpec` |
| `receiver_fin` (violation) | 7 bytes, capacity 5 | a FIN that was cut off makes the receiver refuse its retransmissions |
| `sender` | 4 bytes, payload 2, any acknowledgments | numbers, outstanding segments, timer and backoff consistent |
| `sender_orderly` | acknowledgments in order, windows that do not shrink | nothing new is sent beyond the window |
| `sender_shrink` (violation) | any acknowledgments | the unsigned difference wraps around and the window is overrun |
| `connection` | 2 + 1 bytes, two-byte window, one peer or both open, one fault of any kind | prefix, earned acknowledgments, clean close complete, one peer lingers; no deadlock |
| `connection_live` | one-byte window, two losses, TIME_WAIT of 10 timeouts | both streams delivered and both connections closed without an error |
| `connection_duplicate` (violation) | 5 bytes, window 3, one duplicate | a late SYN/ACK leads to a full window overrun, a refused FIN and a reset |

Bounds. Three stored segments with gaps, each able to touch its neighbours,
need six positions beyond the first unassembled byte; the stream is two bytes
longer than the capacity, since one position is always missing before the first
stored segment and what exceeds the capacity would fit otherwise. The sender's stream spans two
full payloads and is larger than its buffer; its window takes the values zero,
one and more than a payload. In `connection` a window of two bytes lets a FIN
overtake lost data; in `connection_live` a one-byte window closes after each
byte, so that zero-window probes and a FIN without a place in the window happen
all the time. Initial sequence numbers 14 and 15 of
16 make the numbers wrap during the handshake. `MAX_RETX_ATTEMPTS` and
`LingerFactor` are scaled down in `connection`; `connection_live` keeps the
code's ten timeouts of TIME_WAIT, which outlast the backoff after two losses.

Deadlock is checked in every passing run. It is off in `reassembler_stale`,
where a crash ends the run.

Fairness (`FairSpec`). The system does not stop while a step is possible, and a
peer with bytes to read reads them in the end. The event loop waits at most
10 ms and then calls `tick`, and serves every descriptor that is ready. The
first condition is weak fairness of `Next`, written without `ENABLED`; nothing
is assumed about the order of deliveries, calls and ticks.

## Proofs

`ReassemblerProofs` proves about `ReassemblerSpec`, for every stream length and
every capacity (natural numbers, `ConstantsAssumption`; a capacity of zero
included):

- `TypeCorrect`: `[]TypeOK`;
- `OutputCorrect`: `[]OutputInOrder`;
- `SegmentsWellFormed`: `[]PendingWellFormed`;
- `CountsCorrect`: `[](CountsOnce /\ WithinCapacity)`;
- `EndCorrect`: `[]EndsWithTheStream`.

All follow from one inductive invariant, `Good`: the output is a slice of the
stream of length at most the capacity; the stored segments are finitely many
slices, beyond the assembled part, within the capacity and apart from each
other; `bytes` is the sum of their lengths; the remembered end is the stream's
end, and the output has ended exactly when it is known and reached. None of the
five is inductive alone: that the bytes come in order needs the stored segments
to be right, that the loops stop in time needs them apart, and that the count
is right needs both. The steps are `StoreGood` and `InsertGood` (a segment
stored, with its left and right neighbours merged), `AssembleGood` (bytes
written, and the one stored segment they lead up to), `JudgeGood`, `PushGood`,
`ReadGood`. `CountsOnce` equates a sum of lengths with the number of distinct
positions and rests on a bijection (`OffsetsApart`, `PositionsCounted`). The
extreme segments that the loops pick exist because sets of bounded numbers have
greatest elements (`MaxExists`, by well-foundedness).

Only model-checked: everything about the wrapping numbers, the receiver, the
sender and the connection, the refinement of `Reassembly`, the agreement of
`ReassemblerLoop` (its operators are recursive), and liveness.

## Findings

Four runs show disagreements between the code and its own documentation or
tests; `PROJECT.json` quotes the lines. In short: an erased iterator is
incremented (`stream_reassembler.cc:49`); a FIN that was not fully accepted is
remembered and its retransmissions are refused (`tcp_receiver.cc:37`); the free
window wraps around below zero (`tcp_sender.cc:44`, `:53`); an old
acknowledgment replaces the window (`tcp_sender.cc:80`), which together with the
second one loses the end of a stream after one duplicated segment.

## Not modelled, and the plan

Hazards without a property are listed in `PROJECT.json` with the reason. The
order of work:

1. `NetworkInterface` (ARP cache, expiry, pending datagrams; liveness of a
   queued datagram) and `Router` (longest prefix, TTL), and their composition:
   hosts and a router on two links. Abstract specification: every datagram is
   forwarded at most once per hop, to the hop its route names.
2. `ByteStream` and `TCPConnection` under late calls: writes after
   `end_input_stream`, calls on a closed connection, RST in LISTEN, the
   destructor.
3. `TCPSpongeSocket` and `EventLoop`: owner thread and TCP thread, interest and
   cancellation of rules, shutdown flags, the end of the loop,
   `bidirectional_stream_copy`; `TCPState`.
4. The adapters (listening until the first SYN, filtering) and the wire formats
   as parse and serialize over small field sets, with the checksum; `Buffer`.
5. Theorems: `ReassemblerSpec` implements `Reassembly`; `TCPReceiverSpec`
   implements `ReassemblerSpec`; `wrap` and `unwrap` for every modulus; the
   sender's `NumbersMatchStream`, `TimerRunsWhileOutstanding` and
   `FinAfterStream`; the safety of the ARP cache.

Out of reach here: proofs of liveness and of recursive definitions (TLC checks
both on the instances above), performance, and the contents of system calls.
