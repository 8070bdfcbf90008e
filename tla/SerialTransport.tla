---------------------------- MODULE SerialTransport ----------------------------
(***************************************************************************)
(* The receiving half of the USB serial link of the flight hardware: the   *)
(* receive ring of the CDC driver (aviate-hal/stm32h7/src/usb_cdc.rs), and *)
(* on top of it the board's SerialTransport                                *)
(* (aviate-boards/micoair-h743-v2/src/usb_cdc.rs): a MAVLink frame parser  *)
(* and the software-DFU dialogue that is sniffed out of the same stream.   *)
(*                                                                         *)
(* The runner calls poll in every turn of its loop and try_recv_command    *)
(* once per tick, so polls outnumber receives.  A byte is one of the few   *)
(* classes the code tells apart; a frame is a byte sequence that ends in a *)
(* checksum byte of its own, which occurs nowhere else, so no splice of    *)
(* two frames is a third one.                                              *)
(***************************************************************************)
EXTENDS Integers, Sequences, SequencesExt

CONSTANTS
  Frames,              \* byte sequences parse_mavlink accepts
  CommandOf,           \* the command of a frame, or NoCommand (decode_packet)
  NoCommand,
  Codes,               \* confirmation codes generate_dfu_code may draw
  RX_SIZE,             \* slots of the receive ring
  RX_CHUNK,            \* bytes one try_recv_command reads
  PACKET,              \* bytes one USB packet carries
  HEADER,              \* header bytes after which the length is known
  DFU_TIMEOUT_TICKS,
  DFU_RETRANSMIT_TICKS,
  TICK_RANGE,          \* the range of tick_counter, 2^32 in the code
  MaxPolls,            \* bound: polls between two receives
  MaxItems             \* bound: frames and lines the host sends

Digits == {"1", "2"}
Bytes  == {"STX", "d", "f", "u", "cr"} \cup Digits \cup UNION {ToSet(f) : f \in Frames}

Checksum(f) == f[Len(f)]

\* The value of a checksum occurs nowhere else in the stream.
ASSUME FramesAssumption ==
  /\ \A f \in Frames : f \in Seq(ToSet(f)) /\ f[1] = "STX" /\ Len(f) > HEADER
  /\ DOMAIN CommandOf = Frames
  /\ \A f \in Frames : Checksum(f) \notin {"d", "f", "u", "cr"} \cup Digits
  /\ \A f \in Frames, g \in Frames : \A i \in DOMAIN g :
        g[i] = Checksum(f) => f = g /\ i = Len(g)
ASSUME CodesAssumption ==
  \A c \in Codes : c \in Seq(Digits) /\ Len(c) = 2
ASSUME SizesAssumption ==
  /\ RX_SIZE \in Nat \ {0, 1}
  /\ RX_CHUNK \in Nat \ {0} /\ PACKET \in Nat \ {0} /\ HEADER \in Nat \ {0}
ASSUME TicksAssumption ==
  /\ DFU_RETRANSMIT_TICKS \in Nat /\ DFU_TIMEOUT_TICKS \in Nat
  /\ MaxPolls \in Nat \ {0} /\ MaxItems \in Nat
  /\ TICK_RANGE \in Nat /\ TICK_RANGE > DFU_TIMEOUT_TICKS + MaxPolls

VARIABLES
  wire,          \* bytes the host has written and the device has not read
  rx,            \* receive ring: buf, head, tail
  parser,        \* LinkParser.buf[..pos]; empty while waiting for STX
  dfu,           \* DfuState
  tick_counter,  \* polls so far, modulo TICK_RANGE
  polls,         \* polls since the last receive
  rebooted,      \* reboot_to_bootloader was called
  sent,          \* history: what the host sent, item by item
  delivered,     \* history: commands handed to the runner
  lost,          \* history: where bytes of the stream went missing
  waiting        \* history: polls since the open challenge was put

vars == <<wire, rx, parser, dfu, tick_counter, polls, rebooted, sent, delivered, lost, waiting>>

-----------------------------------------------------------------------------
(* The receive ring (rx_push_slice, try_read). *)

Min2(a, b) == IF a < b THEN a ELSE b

rx_depth == (rx.head + RX_SIZE - rx.tail) % RX_SIZE

\* Fault seed for Accepted: the ring may fill up to its last slot.
Accepted_all(n) == Min2(n, RX_SIZE - rx_depth)

\* How many of n bytes rx_push accepts: one slot stays free.
Accepted(n) == Min2(n, RX_SIZE - 1 - rx_depth)

\* rx_push_slice: bytes past the last free slot are dropped.
rx_push_slice(data) ==
  LET n == Accepted(Len(data))
  IN  [buf  |-> [i \in 0..(RX_SIZE - 1) |->
                   LET j == (i + RX_SIZE - rx.head) % RX_SIZE
                   IN  IF j < n THEN data[j + 1] ELSE rx.buf[i]],
       head |-> (rx.head + n) % RX_SIZE,
       tail |-> rx.tail]

\* The bytes in the ring, oldest first.
Buffered == [j \in 1..rx_depth |-> rx.buf[(rx.tail + j - 1) % RX_SIZE]]

Readable == Min2(RX_CHUNK, rx_depth)

\* try_read: the bytes, and the ring without them.
Chunk == [j \in 1..Readable |-> rx.buf[(rx.tail + j - 1) % RX_SIZE]]
Drained == [rx EXCEPT !.tail = (@ + Readable) % RX_SIZE]

-----------------------------------------------------------------------------
(* LinkParser. *)

\* expected_len: the header, the payload its length byte announces (one byte,
\* or two behind a digit) and the checksum.
ExpectedLen(p) == HEADER + (IF p[HEADER] \in Digits THEN 2 ELSE 1) + 1

\* A frame is as long as its length byte says.
ASSUME LengthAssumption == \A f \in Frames : Len(f) = ExpectedLen(f)

\* feed: a byte outside a frame is skipped unless it starts one.  The reset
\* for a buffer past MAV_BUF_SIZE is out of reach: the longest frame fits.
feed(p, byte) ==
  IF p = <<>> /\ byte # "STX" THEN <<>> ELSE Append(p, byte)

Complete(p) == Len(p) > HEADER /\ Len(p) >= ExpectedLen(p)

-----------------------------------------------------------------------------
(* The DFU dialogue. *)

Idle == [state |-> "Idle", idx |-> 0, code |-> <<>>, got |-> <<>>,
         last_sent |-> 0, start_tick |-> 0]

WaitDfu(i) == [Idle EXCEPT !.state = "WaitDfu", !.idx = i]

WaitConfirm(c) == [Idle EXCEPT !.state = "WaitConfirm", !.code = c,
                     !.last_sent = tick_counter, !.start_tick = tick_counter]

Elapsed(since) == (tick_counter + TICK_RANGE - since) % TICK_RANGE

\* What one byte does to the dialogue: the next state, and whether the byte
\* is kept from the parser.
Eaten(d)    == [dfu |-> d, eaten |-> TRUE]
PassedOn(d) == [dfu |-> d, eaten |-> FALSE]

DfuIdle(d, byte) == IF byte = "d" THEN Eaten(WaitDfu(1)) ELSE PassedOn(d)

DfuMatching(d, byte, c) ==
  IF byte # <<"d", "f", "u">>[d.idx + 1] THEN PassedOn(Idle)
  ELSE IF d.idx = 2 THEN Eaten(WaitConfirm(c))
  ELSE Eaten(WaitDfu(d.idx + 1))

\* A line end decides once the digits are in; a surplus digit gives up.
DfuConfirming(d, byte) ==
  IF byte = "cr"
  THEN Eaten(IF Len(d.got) < Len(d.code) THEN d ELSE Idle)
  ELSE IF byte \in Digits
  THEN IF Len(d.got) < Len(d.code) THEN Eaten([d EXCEPT !.got = Append(@, byte)])
       ELSE Eaten(Idle)
  ELSE PassedOn(d)

handle_dfu_protocol(d, byte, c) ==
  CASE d.state = "Idle"        -> DfuIdle(d, byte)
    [] d.state = "WaitDfu"     -> DfuMatching(d, byte, c)
    [] d.state = "WaitConfirm" -> DfuConfirming(d, byte)

\* Fault seed for Confirmed: any complete answer is the right one.
Confirmed_any(d) == d.state = "WaitConfirm" /\ Len(d.got) = Len(d.code)

\* The last digit of the right code reboots at once.
Confirmed(d) == d.state = "WaitConfirm" /\ d.got = d.code

Retransmitted(d) == [d EXCEPT !.last_sent = tick_counter]

\* update_dfu_state: timeout before retransmission.
TimedOut == dfu.state = "WaitConfirm" /\ Elapsed(dfu.start_tick) > DFU_TIMEOUT_TICKS
DueAgain == dfu.state = "WaitConfirm" /\ Elapsed(dfu.last_sent) > DFU_RETRANSMIT_TICKS

update_dfu_state ==
  IF TimedOut THEN Idle ELSE IF DueAgain THEN Retransmitted(dfu) ELSE dfu

-----------------------------------------------------------------------------
(* try_parse_command: the bytes of one chunk, in order, until one of them    *)
(* completes a command or the confirmation.  The rest of the chunk has been  *)
(* taken out of the ring and goes nowhere.                                   *)

Running(a) == a.command = NoCommand /\ ~a.rebooted

Parsed(a, byte) ==
  LET p == feed(a.parser, byte)
  IN  IF ~Complete(p) THEN [a EXCEPT !.parser = p]
      ELSE [a EXCEPT !.parser = <<>>,
                     !.command = IF p \in Frames THEN CommandOf[p] ELSE NoCommand]

Sniffed(a, h, byte) ==
  LET b == [a EXCEPT !.dfu = h.dfu,
                     !.rebooted = Confirmed(h.dfu),
                     !.waiting = IF a.dfu.state = "WaitConfirm" THEN @ ELSE 0]
  IN  IF h.eaten THEN [b EXCEPT !.lost = @ \cup {"eaten"}] ELSE Parsed(b, byte)

OneByte(a, byte, c) ==
  IF Running(a) THEN Sniffed(a, handle_dfu_protocol(a.dfu, byte, c), byte)
  ELSE [a EXCEPT !.lost = @ \cup {"behind"}]

\* What try_parse_command leaves behind when generate_dfu_code draws c.
AfterChunk(c) ==
  LET after[k \in 0..Len(Chunk)] ==
        IF k = 0
        THEN [dfu |-> update_dfu_state, parser |-> parser, command |-> NoCommand,
              rebooted |-> FALSE, lost |-> lost, waiting |-> waiting]
        ELSE OneByte(after[k - 1], Chunk[k], c)
  IN  after[Len(Chunk)]

-----------------------------------------------------------------------------
(* Operations. *)

\* poll: service_usb moves what has arrived into the ring, and the counter
\* that times the dialogue goes up by one.
poll ==
  /\ ~rebooted /\ polls < MaxPolls
  /\ \E n \in {0, Min2(PACKET, Len(wire))} :   \* nothing yet, or a packet
       LET data == SubSeq(wire, 1, n)
       IN  /\ wire' = SubSeq(wire, n + 1, Len(wire))
           /\ rx' = rx_push_slice(data)
           /\ lost' = IF Accepted(n) < n THEN lost \cup {"overrun"} ELSE lost
  /\ tick_counter' = (tick_counter + 1) % TICK_RANGE
  /\ polls' = polls + 1
  /\ waiting' = IF dfu.state = "WaitConfirm" THEN waiting + 1 ELSE 0
  /\ UNCHANGED <<parser, dfu, rebooted, sent, delivered>>

try_recv_command ==
  /\ ~rebooted /\ polls > 0
  /\ \E c \in Codes :
       LET a == AfterChunk(c)
       IN  /\ dfu' = a.dfu /\ parser' = a.parser
           /\ rebooted' = a.rebooted /\ lost' = a.lost /\ waiting' = a.waiting
           /\ delivered' = IF a.command = NoCommand THEN delivered ELSE Append(delivered, a.command)
  /\ rx' = Drained
  /\ polls' = 0
  /\ UNCHANGED <<wire, tick_counter, sent>>

\* The host sends a frame, the word dfu, or a code and a line end.
Answer(c) == c \o <<"cr">>
Items == Frames \cup {<<"d", "f", "u">>} \cup {Answer(c) : c \in Codes}

HostSends ==
  /\ ~rebooted /\ Len(sent) < MaxItems
  /\ \E i \in Items : /\ sent' = Append(sent, i)
                      /\ wire' = wire \o i
  /\ UNCHANGED <<rx, parser, dfu, tick_counter, polls, rebooted, delivered, lost, waiting>>

Init ==
  /\ wire = <<>>
  /\ rx = [buf |-> [i \in 0..(RX_SIZE - 1) |-> "cr"], head |-> 0, tail |-> 0]
  /\ parser = <<>> /\ dfu = Idle
  /\ tick_counter = 0 /\ polls = 0 /\ rebooted = FALSE
  /\ sent = <<>> /\ delivered = <<>> /\ lost = {} /\ waiting = 0

Next == poll \/ try_recv_command \/ HostSends

Spec == Init /\ [][Next]_vars

-----------------------------------------------------------------------------
(* Properties. *)

TypeOK ==
  /\ wire \in Seq(Bytes)
  /\ rx.buf \in [0..(RX_SIZE - 1) -> Bytes]
  /\ rx.head \in 0..(RX_SIZE - 1) /\ rx.tail \in 0..(RX_SIZE - 1)
  /\ Len(parser) < HEADER + 3
  /\ dfu.state \in {"Idle", "WaitDfu", "WaitConfirm"}
  /\ dfu.idx \in 0..2 /\ Len(dfu.got) <= 2
  /\ tick_counter \in 0..(TICK_RANGE - 1) /\ polls \in 0..MaxPolls /\ waiting \in Nat
  /\ rebooted \in BOOLEAN /\ lost \subseteq {"eaten", "behind", "overrun"}

IsCommand(i) == i \in Frames /\ CommandOf[i] # NoCommand

CommandsOf(items) ==
  FlattenSeq([k \in 1..Len(items) |->
                IF IsCommand(items[k]) THEN <<CommandOf[items[k]]>> ELSE <<>>])

\* s can be had from t by leaving elements out: match greedily.
IsSubsequence(s, t) ==
  LET Step(n, e) == IF n < Len(s) /\ e = s[n + 1] THEN n + 1 ELSE n
      matched[k \in 0..Len(t)] == IF k = 0 THEN 0 ELSE Step(matched[k - 1], t[k])
  IN  matched[Len(t)] = Len(s)

\* The runner is given commands the host sent, each at most once and in the
\* order they were sent, whatever the ring dropped and the dialogue took out
\* of the middle of a frame (LinkParser, rx_pop, try_parse_command).
DeliveredWasSent == IsSubsequence(delivered, CommandsOf(sent))

\* The bytes on their way: half a frame in the parser, the ring, the wire.
InFlight == parser \o Buffered \o wire

\* What is left of the stream behind its first k items: a line that is no
\* frame is skipped byte by byte, a frame leaves the stream as a whole.
Remainders(k) ==
  LET rest == FlattenSeq(SubSeq(sent, k + 2, Len(sent)))
  IN  IF k = Len(sent) THEN {<<>>}
      ELSE IF sent[k + 1] \in Frames THEN {sent[k + 1] \o rest}
      ELSE {SubSeq(sent[k + 1], j, Len(sent[k + 1])) \o rest : j \in 1..Len(sent[k + 1])}

\* While nothing was eaten, overrun or cut off behind a command, what is in
\* flight is exactly the end of what was sent, and all commands before it
\* were delivered: there is no fourth way to lose a command
\* (try_recv_command, feed, rx_push_slice).
LossIsExplained ==
  lost = {} => \E k \in 0..Len(sent) : /\ delivered = CommandsOf(SubSeq(sent, 1, k))
                                       /\ InFlight \in Remainders(k)

\* The stream between host and runner, whatever is dropped or taken out of it.
StreamInv == TypeOK /\ DeliveredWasSent /\ LossIsExplained

\* The board reboots only for a host that wrote the word and, behind it, the
\* digits of the code that answers it, and before the challenge is too old: a
\* code is good for its own challenge (handle_dfu_protocol, update_dfu_state).
RebootWasConfirmed ==
  rebooted => /\ IsSubsequence(<<"d", "f", "u">> \o dfu.code, FlattenSeq(sent))
              /\ Elapsed(dfu.start_tick) <= DFU_TIMEOUT_TICKS

\* A challenge does not stay open: the dialogue, which keeps digits and line
\* ends from the parser while it waits, ends by itself (update_dfu_state).
ChallengeEnds == dfu.state = "WaitConfirm" => waiting <= DFU_TIMEOUT_TICKS + MaxPolls

\* The DFU dialogue: a reboot answers the challenge that is open, and no
\* challenge stays open (handle_dfu_protocol, update_dfu_state).
RebootDialogue == RebootWasConfirmed /\ ChallengeEnds

=============================================================================
