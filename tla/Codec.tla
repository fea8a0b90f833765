--------------------------------- MODULE Codec ---------------------------------
(***************************************************************************)
(* What becomes of a message: CAN_MessageSend and nora_canfd_transmit put  *)
(* it in an object of the message RAM, the bus carries it, and             *)
(* nora_canfd_receive and CAN_MessageRead take it out of another one.      *)
(* Sender and receiver run this driver; a peer that does not may send too. *)
(*                                                                         *)
(* An object of the RAM, a frame on the stack and a caller's buffer keep   *)
(* what an earlier message left in them where nobody writes.  One message  *)
(* is on its way at a time (RxPath and TxPath have the queues).            *)
(***************************************************************************)
EXTENDS Naturals

CONSTANTS Payload,        \* contents to tell messages apart by
          Id,             \* message identifiers, without the IDE bit
          Size,           \* values of MessageSend's size
          BufferSize,     \* values of MessageRead's size
          PeerDlc,        \* DLC codes peers use in CAN FD frames
          PeerClassicDlc  \* and in classic ones

ASSUME CodecAssumption == /\ Id \subseteq Nat
                          /\ Size \subseteq 0 .. 255
                          /\ BufferSize \subseteq 0 .. 255
                          /\ PeerDlc \subseteq 0 .. 15
                          /\ PeerClassicDlc \subseteq 0 .. 15

VARIABLES fd_mode,         \* of the sender's context
          txram, rxram,    \* data words of the objects TXQUA and FIFOUA1 point at
          obj,             \* header words of the object on its way
          bus,             \* the data bytes on the bus
          frame,           \* the HAL frame the ring holds for MessageRead
          out,             \* what MessageRead gave its caller
          stage,           \* how far the message has come
          msg              \* history: the message MessageSend accepted

codecVars == <<fd_mode, txram, rxram, obj, bus, frame, out, stage, msg>>

PAYLOAD_BYTES == 64
Index == 0 .. (PAYLOAD_BYTES - 1)

\* A byte is the i-th of some content, a zero, or not known.
Zero == <<"zero", 0>>
Junk == <<"junk", 0>>
Byte == (Payload \X Index) \cup {Zero, Junk}
Bytes(p, n) == [i \in Index |-> IF i < n THEN <<p, i>> ELSE Junk]

----------------------------------------------------------------------------
(* Lengths and identifiers.                                                *)

Dlc == 0 .. 15
DlcToLen(dlc) == <<0, 1, 2, 3, 4, 5, 6, 7, 8, 12, 16, 20, 24, 32, 48, 64>>[dlc + 1]

LenToDlc(len) == CASE len <= 8        -> len
                   [] len \in 9 .. 12  -> 9
                   [] len \in 13 .. 16 -> 10
                   [] len \in 17 .. 20 -> 11
                   [] len \in 21 .. 24 -> 12
                   [] len \in 25 .. 32 -> 13
                   [] len \in 33 .. 48 -> 14
                   [] OTHER            -> 15

\* SID is bits 0 to 10 of the word, EID bits 11 to 28: so many values each.
SidSpan == 2048
EidSpan == 512 * 512

BuildIdWord(extended, id) ==
    IF extended THEN ((id \div EidSpan) % SidSpan) + ((id % EidSpan) * SidSpan)
                ELSE id % SidSpan

\* Mutant: the two parts of an extended identifier are exchanged.
BugParseIdWord(w, extended) ==
    IF extended THEN (w % SidSpan) + (((w \div SidSpan) % EidSpan) * SidSpan)
                ELSE w % SidSpan

ParseIdWord(w, extended) ==
    IF extended THEN ((w % SidSpan) * EidSpan) + ((w \div SidSpan) % EidSpan)
                ELSE w % SidSpan

\* The identifier bits of an ARM message identifier, by its IDE bit.
IdBits(ide, id) == id % (IF ide THEN SidSpan * EidSpan ELSE SidSpan)

\* What 32-bit words of a length cover, in bytes.
WordBytes(len) == 4 * ((len + 3) \div 4)

----------------------------------------------------------------------------
(* Sending.                                                                *)

Empty(b) == [i \in Index |-> b]

NoObject == [word |-> 0, ide |-> FALSE, fdf |-> FALSE, brs |-> FALSE, dlc |-> 0]
NoFrame  == [id |-> 0, extended |-> FALSE, fd |-> FALSE, brs |-> FALSE, len |-> 0,
             data |-> Empty(Junk)]
NoMsg    == [ide |-> FALSE, id |-> 0, edl |-> FALSE, brs |-> FALSE, size |-> 0,
             content |-> "none"]
NoOut    == [ide |-> FALSE, id |-> 0, edl |-> FALSE, brs |-> FALSE, dlc |-> 0,
             size |-> 0, n |-> 0, data |-> Empty(Junk)]

CodecInit == /\ fd_mode \in BOOLEAN
             /\ txram = Empty(Junk) /\ rxram = Empty(Junk)
             /\ obj = NoObject /\ bus = Empty(Zero)
             /\ frame = NoFrame /\ out = NoOut
             /\ stage = "idle"
             /\ msg = NoMsg

\* The last message has been read, or there was none.
Ready == stage \in {"idle", "read"}

\* The tests of MessageSend; rtr is not set.
Accepted(m) == /\ m.size <= 64
               /\ fd_mode \/ (~m.edl /\ m.size <= 8)

Frame(m) == [id |-> IdBits(m.ide, m.id), extended |-> m.ide, fd |-> m.edl,
             brs |-> m.brs, len |-> m.size, data |-> Bytes(m.content, m.size)]

\* The test of nora_canfd_transmit.
Transmittable(f) == f.len <= PAYLOAD_BYTES /\ (f.fd \/ f.len <= 8)

\* Mutant: only the words that hold a byte of the frame are written.
BugPack(f, old) ==
    [i \in Index |-> IF i < WordBytes(f.len)
                       THEN IF i < f.len THEN f.data[i] ELSE Zero
                       ELSE old[i]]

\* The words that the DLC covers are written, zero past the frame's length.
Pack(f, old) ==
    [i \in Index |-> IF i < WordBytes(DlcToLen(LenToDlc(f.len)))
                       THEN IF i < f.len THEN f.data[i] ELSE Zero
                       ELSE old[i]]

\* Mutant: the length goes where its DLC code belongs.
BugHeaderLength(f) ==
    [word |-> BuildIdWord(f.extended, f.id), ide |-> f.extended, fdf |-> f.fd,
     brs |-> f.fd /\ f.brs, dlc |-> f.len]

\* Mutant: BRS is set as asked for, also in a classic frame.
BugHeader(f) ==
    [word |-> BuildIdWord(f.extended, f.id), ide |-> f.extended, fdf |-> f.fd,
     brs |-> f.brs, dlc |-> LenToDlc(f.len)]

Header(f) ==
    [word |-> BuildIdWord(f.extended, f.id), ide |-> f.extended, fdf |-> f.fd,
     brs |-> f.fd /\ f.brs, dlc |-> LenToDlc(f.len)]

\* The bus is free, and the reader has a buffer to offer.
Fresh == bus' = Empty(Zero) /\ frame' = NoFrame /\ out' = NoOut

\* MessageSend, down to the commit of the object to the module.
MessageSend(m) ==
    /\ Ready
    /\ Accepted(m) /\ Transmittable(Frame(m))
    /\ obj' = Header(Frame(m))
    /\ txram' = Pack(Frame(m), txram)
    /\ msg' = m
    /\ stage' = "queued"
    /\ Fresh
    /\ UNCHANGED <<fd_mode, rxram>>

----------------------------------------------------------------------------
(* The modules and the bus.                                                *)

\* The data bytes a frame has on the bus: a classic frame has at most 8.
WireLength(fdf, dlc) == IF ~fdf /\ dlc > 8 THEN 8 ELSE DlcToLen(dlc)

Carried(o, data) ==
    [i \in Index |-> IF i < WireLength(o.fdf, o.dlc) THEN data[i] ELSE Zero]

Transmission ==
    /\ stage = "queued"
    /\ bus' = Carried(obj, txram)
    /\ stage' = "wire"
    /\ UNCHANGED <<fd_mode, txram, rxram, obj, frame, out, msg>>

\* A peer puts a frame on the bus, with any identifier of its kind.
PeerTransmission(ide, id, fdf, brs, dlc, p) ==
    /\ Ready
    /\ IF fdf THEN dlc \in PeerDlc ELSE dlc \in PeerClassicDlc /\ ~brs
    /\ obj' = [word |-> BuildIdWord(ide, IdBits(ide, id)), ide |-> ide,
               fdf |-> fdf, brs |-> brs, dlc |-> dlc]
    /\ bus' = Carried(obj', Bytes(p, PAYLOAD_BYTES))
    /\ frame' = NoFrame /\ out' = NoOut
    /\ msg' = NoMsg
    /\ stage' = "wire"
    /\ UNCHANGED <<fd_mode, txram, rxram>>

\* The receiving module writes the header words and the data bytes it got.
Store ==
    /\ stage = "wire"
    /\ rxram' = [i \in Index |-> IF i < WireLength(obj.fdf, obj.dlc) THEN bus[i]
                                                                     ELSE rxram[i]]
    /\ stage' = "stored"
    /\ UNCHANGED <<fd_mode, txram, obj, bus, frame, out, msg>>

----------------------------------------------------------------------------
(* Receiving.                                                              *)

\* Mutant: the words are counted without rounding up.
BugUnpack(data, len) ==
    [i \in Index |-> IF i < 4 * (len \div 4) THEN data[i] ELSE Junk]

\* The frame is a local of can_hal_event: what is not copied is not known.
Unpack(data, len) ==
    [i \in Index |-> IF i < len /\ i < WordBytes(len) THEN data[i] ELSE Junk]

Receive ==
    /\ stage = "stored"
    /\ LET len == DlcToLen(obj.dlc)
       IN  frame' = [id |-> ParseIdWord(obj.word, obj.ide), extended |-> obj.ide,
                     fd |-> obj.fdf, brs |-> obj.brs, len |-> len,
                     data |-> Unpack(rxram, len)]
    /\ stage' = "received"
    /\ UNCHANGED <<fd_mode, txram, rxram, obj, bus, out, msg>>

\* MessageRead has the table of LenToDlc once more.  rtr and esi read as zero.
MessageRead(size) ==
    /\ stage = "received"
    /\ LET n == IF frame.len < size THEN frame.len ELSE size
       IN  out' = [ide |-> frame.extended, id |-> IdBits(frame.extended, frame.id),
                   edl |-> frame.fd, brs |-> frame.brs, dlc |-> LenToDlc(frame.len),
                   size |-> size, n |-> n,
                   data |-> [i \in Index |-> IF i < n THEN frame.data[i] ELSE Junk]]
    /\ stage' = "read"
    /\ UNCHANGED <<fd_mode, txram, rxram, obj, bus, frame, msg>>

Message == [ide : BOOLEAN, id : Id, edl : BOOLEAN, brs : BOOLEAN, size : Size,
            content : Payload]

CodecNext ==
    \/ \E m \in Message : MessageSend(m)
    \/ Transmission
    \/ \E ide, fdf, brs \in BOOLEAN, id \in Id, dlc \in Dlc, p \in Payload :
          PeerTransmission(ide, id, fdf, brs, dlc, p)
    \/ Store
    \/ Receive
    \/ \E size \in BufferSize : MessageRead(size)

CodecSpec == CodecInit /\ [][CodecNext]_codecVars

----------------------------------------------------------------------------
BusHeader == [word : Nat, ide : BOOLEAN, fdf : BOOLEAN, brs : BOOLEAN, dlc : Dlc]
Data == [Index -> Byte]

CodecTypeOK ==
    /\ fd_mode \in BOOLEAN
    /\ txram \in Data /\ rxram \in Data /\ bus \in Data
    /\ obj \in BusHeader
    /\ frame \in [id : Nat, extended : BOOLEAN, fd : BOOLEAN, brs : BOOLEAN,
                  len : 0 .. PAYLOAD_BYTES, data : Data]
    /\ out \in [ide : BOOLEAN, id : Nat, edl : BOOLEAN, brs : BOOLEAN, dlc : Dlc,
                size : 0 .. 255, n : 0 .. PAYLOAD_BYTES, data : Data]
    /\ stage \in {"idle", "queued", "wire", "stored", "received", "read"}
    /\ msg \in Message \cup {NoMsg}

FromDriver == msg # NoMsg

\* The i-th byte a message of this driver has: its own, then zeros.
Padded(m, i) == IF i < m.size THEN <<m.content, i>> ELSE Zero

\* Whatever MessageSend lets through is a frame the bus has: a classic frame has
\* no bit rate switch and at most 8 bytes, and a driver in classic mode sends no
\* other.
WireIsLegal ==
    stage = "wire" => /\ ~obj.fdf => ~obj.brs /\ obj.dlc <= 8
                      /\ FromDriver /\ ~fd_mode => ~obj.fdf

\* A length between two DLC codes is filled up with zeros, so nothing an earlier
\* message left in the RAM goes out with a shorter one.
NothingLeaks ==
    stage = "wire" /\ FromDriver =>
        \A i \in Index : bus[i] = Padded(msg, i)

\* A message read is the one sent: identifier, kind, the smallest DLC code that
\* holds the data, the data, and zeros up to that length, as far as the reader's
\* buffer goes.
SentArrives ==
    stage = "read" /\ FromDriver =>
        /\ out.ide = msg.ide /\ out.id = IdBits(msg.ide, msg.id)
        /\ out.edl = msg.edl /\ out.brs = (msg.edl /\ msg.brs)
        /\ DlcToLen(out.dlc) >= msg.size
        /\ \A d \in Dlc : DlcToLen(d) >= msg.size => out.dlc <= d
        /\ out.n \in {DlcToLen(out.dlc), out.size}
        /\ \A i \in 0 .. (out.n - 1) : out.data[i] = Padded(msg, i)

\* Of a message sent, and of a peer's frame, the reader gets what the bus carried:
\* no byte of an earlier frame in the RAM, and the length from which DLC code it
\* came.  A peer's classic frame has a DLC code of at most 8 here; of the others
\* ClassicLengthIsClassic tells.
ReadIsReceived ==
    stage = "read" =>
        /\ out.ide = obj.ide /\ BuildIdWord(out.ide, out.id) = obj.word
        /\ out.edl = obj.fdf /\ out.brs = obj.brs /\ out.dlc = obj.dlc
        /\ out.n <= WireLength(obj.fdf, obj.dlc)
        /\ \A i \in 0 .. (out.n - 1) : out.data[i] = bus[i]

\* The comment on the length of a frame: "classic: 0..8".
ClassicLengthIsClassic == stage = "received" /\ ~frame.fd => frame.len <= 8
=============================================================================
