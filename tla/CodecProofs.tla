------------------------------ MODULE CodecProofs ------------------------------
(***************************************************************************)
(* Proofs about the codec: the tables of lengths and the identifier words  *)
(* are inverse to each other, and what arrives is what was sent, for every *)
(* set of contents, identifiers, sizes and buffers.                        *)
(***************************************************************************)
EXTENDS Codec, TLAPS

----------------------------------------------------------------------------
(* Lengths.                                                                *)

\* A DLC code has a length, and the lengths up to code 8 are the codes.
LEMMA DlcLength ==
    ASSUME NEW d \in Dlc
    PROVE  DlcToLen(d) \in 0 .. 64 /\ (d <= 8 => DlcToLen(d) = d)
  BY DEF Dlc, DlcToLen

\* A length has a DLC code, and 8 bytes at most have their own.
LEMMA LengthDlc ==
    ASSUME NEW n \in 0 .. 64
    PROVE  LenToDlc(n) \in Dlc /\ (n <= 8 => LenToDlc(n) = n)
  BY DEF Dlc, LenToDlc

\* The code holds the length.
LEMMA CodeHolds == ASSUME NEW n \in 0 .. 64 PROVE DlcToLen(LenToDlc(n)) >= n
  BY DEF LenToDlc, DlcToLen

\* No smaller code does.
LEMMA CodeSmallest ==
    ASSUME NEW n \in 0 .. 64, NEW d \in Dlc, DlcToLen(d) >= n
    PROVE  LenToDlc(n) <= d
  BY DEF LenToDlc, DlcToLen, Dlc

\* A length the bus can have goes back to the code it came from.
LEMMA CodeBack == ASSUME NEW d \in Dlc PROVE LenToDlc(DlcToLen(d)) = d
  BY DEF LenToDlc, DlcToLen, Dlc

\* The words of a length cover it.
LEMMA WordsCover == ASSUME NEW n \in Nat PROVE WordBytes(n) \in Nat /\ n <= WordBytes(n)
  BY DEF WordBytes

----------------------------------------------------------------------------
(* Identifiers.                                                            *)

\* Division with remainder.
LEMMA Division ==
    ASSUME NEW n \in Nat, NEW d \in Nat \ {0}
    PROVE  /\ n \div d \in Nat
           /\ n % d \in 0 .. (d - 1)
           /\ n = ((n \div d) * d) + (n % d)
  OBVIOUS

\* Quotient and remainder of a number put together from them.
LEMMA Compose ==
    ASSUME NEW q \in Nat, NEW r \in Nat, NEW d \in Nat \ {0}, r < d
    PROVE  (r + (q * d)) \div d = q /\ (r + (q * d)) % d = r
  OBVIOUS

\* A number below the divisor is its own remainder.
LEMMA Small == ASSUME NEW n \in Nat, NEW d \in Nat \ {0}, n < d PROVE n % d = n
  OBVIOUS

\* Two digits, of bases a and b, make a number below a * b.
LEMMA Digits ==
    ASSUME NEW a \in Nat \ {0}, NEW b \in Nat \ {0}, NEW x \in Nat, NEW y \in Nat,
           x < a, y < b
    PROVE  x + (y * a) \in Nat /\ x + (y * a) < a * b
  <1>1. y * a <= (b - 1) * a /\ y * a \in Nat
    OBVIOUS
  <1>2. (b - 1) * a = (a * b) - a /\ a * b \in Nat
    OBVIOUS
  <1> QED BY <1>1, <1>2

\* The quotient of a number below a * b by a is below b.
LEMMA HighDigit ==
    ASSUME NEW a \in Nat \ {0}, NEW b \in Nat \ {0}, NEW n \in Nat, n < a * b
    PROVE  n \div a < b
  <1> DEFINE q == n \div a
  <1>1. q \in Nat /\ n >= q * a
    BY Division
  <1> HIDE DEF q
  <1>2. SUFFICES ASSUME q >= b PROVE FALSE
    BY <1>1 DEF q
  <1>3. q * a >= b * a /\ b * a = a * b
    BY <1>1, <1>2
  <1> QED BY <1>1, <1>3

\* The spans are positive.
LEMMA Spans == /\ SidSpan \in Nat \ {0} /\ EidSpan \in Nat \ {0}
               /\ SidSpan * EidSpan \in Nat \ {0}
  BY DEF SidSpan, EidSpan

\* Exchanging the digits of a number below a * b, twice, gives it back.
LEMMA Exchange ==
    ASSUME NEW a \in Nat \ {0}, NEW b \in Nat \ {0}, NEW n \in Nat, n < a * b
    PROVE  LET w == ((n \div b) % a) + ((n % b) * a)
           IN  /\ w \in Nat /\ w < a * b
               /\ ((w % a) * b) + ((w \div a) % b) = n
  <1> DEFINE q == n \div b
             r == n % b
             w == q + (r * a)
  <1>1. q \in Nat /\ r \in Nat /\ r < b /\ n = (q * b) + r
    BY Division
  <1>2. q < a
    <2>1. n < b * a
      OBVIOUS
    <2> QED BY <2>1, HighDigit
  <1> HIDE DEF q, r
  <1>3. q % a = q /\ r % b = r
    BY <1>1, <1>2, Small
  <1>4. w \in Nat /\ w < a * b
    BY <1>1, <1>2, Digits
  <1>5. w % a = q /\ w \div a = r
    BY <1>1, <1>2, Compose
  <1> HIDE DEF w
  <1>6. ((w % a) * b) + ((w \div a) % b) = n
    BY <1>1, <1>3, <1>5
  <1> QED BY <1>3, <1>4, <1>6 DEF w, q, r

\* The words an identifier of either kind can have.
WordOK(w, extended) ==
    w \in Nat /\ w < (IF extended THEN SidSpan * EidSpan ELSE SidSpan)

\* An identifier word is in range, and parses to the identifier it was built from.
THEOREM ParseBuild ==
    ASSUME NEW id \in Nat, NEW e \in BOOLEAN
    PROVE  /\ IdBits(e, id) \in Nat
           /\ WordOK(BuildIdWord(e, IdBits(e, id)), e)
           /\ ParseIdWord(BuildIdWord(e, IdBits(e, id)), e) = IdBits(e, id)
  <1> DEFINE b == IdBits(e, id)
  <1>1. b \in Nat /\ WordOK(b, e)
    BY Spans, Division DEF IdBits, WordOK
  <1> HIDE DEF b
  <1>2. CASE e
    <2>1. b \in Nat /\ b < SidSpan * EidSpan
      BY <1>1, <1>2 DEF WordOK
    <2> DEFINE w == ((b \div EidSpan) % SidSpan) + ((b % EidSpan) * SidSpan)
    <2>2. /\ w \in Nat /\ w < SidSpan * EidSpan
          /\ ((w % SidSpan) * EidSpan) + ((w \div SidSpan) % EidSpan) = b
      BY <2>1, Spans, Exchange, Zenon
    <2>3. w = BuildIdWord(e, b)
      BY <1>2 DEF BuildIdWord
    <2> HIDE DEF w
    <2>4. ParseIdWord(w, e) = b
      BY <1>2, <2>2 DEF ParseIdWord
    <2> QED BY <1>1, <1>2, <2>2, <2>3, <2>4 DEF WordOK, b
  <1>3. CASE ~e
    <2>1. b % SidSpan = b
      BY <1>1, <1>3, Spans, Small DEF WordOK
    <2> QED BY <1>1, <1>3, <2>1 DEF WordOK, BuildIdWord, ParseIdWord, b
  <1> QED BY <1>2, <1>3

\* Any word parses to a number.
LEMMA ParsedType == ASSUME NEW w \in Nat, NEW e PROVE ParseIdWord(w, e) \in Nat
  <1> DEFINE q == w % SidSpan
             r == w \div SidSpan
  <1>1. q \in 0 .. (SidSpan - 1) /\ r \in Nat
    BY Spans, Division
  <1> HIDE DEF q, r
  <1>2. r % EidSpan \in 0 .. (EidSpan - 1)
    BY <1>1, Spans, Division
  <1>3. q \in Nat /\ q * EidSpan \in Nat /\ r % EidSpan \in Nat
    BY <1>1, <1>2, Spans
  <1> QED BY <1>3 DEF ParseIdWord, q, r

\* A word in range is built from the identifier it parses to, which has no bits
\* above those of its kind.
THEOREM BuildParse ==
    ASSUME NEW e \in BOOLEAN, NEW w, WordOK(w, e)
    PROVE  /\ ParseIdWord(w, e) \in Nat
           /\ IdBits(e, ParseIdWord(w, e)) = ParseIdWord(w, e)
           /\ BuildIdWord(e, ParseIdWord(w, e)) = w
  <1> DEFINE id == ParseIdWord(w, e)
  <1>1. CASE e
    <2> DEFINE q == w % SidSpan
               r == w \div SidSpan
    <2>1. q \in Nat /\ q < SidSpan /\ r \in Nat /\ w = q + (r * SidSpan)
      BY <1>1, Spans, Division DEF WordOK
    <2>2. r < EidSpan
      BY <1>1, Spans, HighDigit DEF WordOK
    <2> HIDE DEF q, r
    <2>3. r % EidSpan = r /\ q % SidSpan = q
      BY <2>1, <2>2, Spans, Small
    <2>4. id = r + (q * EidSpan)
      BY <1>1, <2>1, <2>2, <2>3, Spans DEF ParseIdWord, q, r
    <2>5. id \in Nat /\ id < SidSpan * EidSpan
      <3>1. r + (q * EidSpan) \in Nat /\ r + (q * EidSpan) < EidSpan * SidSpan
        BY <2>1, <2>2, Spans, Digits
      <3>2. EidSpan * SidSpan = SidSpan * EidSpan
        BY Spans
      <3> QED BY <2>4, <3>1, <3>2, Spans
    <2>6. id \div EidSpan = q /\ id % EidSpan = r
      <3>1. (r + (q * EidSpan)) \div EidSpan = q /\ (r + (q * EidSpan)) % EidSpan = r
        BY <2>1, <2>2, Spans, Compose
      <3> QED BY <2>4, <3>1, Zenon
    <2> HIDE DEF id
    <2>7. IdBits(e, id) = id
      BY <1>1, <2>5, Spans, Small DEF IdBits
    <2>8. BuildIdWord(e, id) = w
      BY <1>1, <2>1, <2>3, <2>6 DEF BuildIdWord
    <2> QED BY <2>5, <2>7, <2>8 DEF id
  <1>2. CASE ~e
    <2>1. w \in Nat /\ w % SidSpan = w
      BY <1>2, Spans, Small DEF WordOK
    <2> QED BY <1>2, <2>1 DEF IdBits, BuildIdWord, ParseIdWord
  <1> QED BY <1>1, <1>2

----------------------------------------------------------------------------
(* Types.                                                                  *)

\* What an application gives to MessageSend, as a HAL frame.
HalFrame == [id : Nat, extended : BOOLEAN, fd : BOOLEAN, brs : BOOLEAN,
             len : 0 .. PAYLOAD_BYTES, data : Data]

\* Contents of some length make data bytes, and so do equal ones.
LEMMA DataTypes ==
    /\ \A p \in Payload, n \in Nat : Bytes(p, n) \in Data
    /\ Empty(Junk) \in Data /\ Empty(Zero) \in Data
  <1>1. ASSUME NEW p \in Payload, NEW n \in Nat PROVE Bytes(p, n) \in Data
    BY DEF Bytes, Data, Byte
  <1> QED BY <1>1 DEF Empty, Data, Byte

\* An accepted message makes a frame, and that frame an object.
LEMMA SendTypes ==
    ASSUME NEW m \in Message, m.size <= 64, NEW old \in Data
    PROVE  /\ Frame(m) \in HalFrame
           /\ Header(Frame(m)) \in BusHeader
           /\ WordOK(Header(Frame(m)).word, m.ide)
           /\ Pack(Frame(m), old) \in Data
  <1>1. /\ m.size \in 0 .. 64 /\ m.id \in Nat /\ m.ide \in BOOLEAN
        /\ m.edl \in BOOLEAN /\ m.brs \in BOOLEAN /\ m.content \in Payload
    <2>1. /\ m.size \in Size /\ m.id \in Id /\ m.ide \in BOOLEAN
          /\ m.edl \in BOOLEAN /\ m.brs \in BOOLEAN /\ m.content \in Payload
      BY DEF Message
    <2>2. m.size \in 0 .. 255 /\ m.id \in Nat
      BY <2>1, CodecAssumption
    <2> QED BY <2>1, <2>2
  <1>2. IdBits(m.ide, m.id) \in Nat /\ Bytes(m.content, m.size) \in Data
    BY <1>1, ParseBuild, DataTypes
  <1>3. Frame(m) \in HalFrame
    BY <1>1, <1>2 DEF Frame, HalFrame, PAYLOAD_BYTES
  <1>4. Header(Frame(m)) \in BusHeader /\ WordOK(Header(Frame(m)).word, m.ide)
    <2>1. WordOK(BuildIdWord(m.ide, IdBits(m.ide, m.id)), m.ide)
      BY <1>1, ParseBuild
    <2>2. LenToDlc(m.size) \in Dlc
      BY <1>1, LengthDlc
    <2> QED BY <1>1, <2>1, <2>2 DEF Frame, Header, BusHeader, WordOK
  <1>5. Pack(Frame(m), old) \in Data
    BY <1>3 DEF Pack, HalFrame, Data, Byte
  <1> QED BY <1>3, <1>4, <1>5

\* Every step keeps the types.
LEMMA StepCodecType == CodecTypeOK /\ [CodecNext]_codecVars => CodecTypeOK'
  <1> SUFFICES ASSUME CodecTypeOK, [CodecNext]_codecVars PROVE CodecTypeOK'
    OBVIOUS
  <1> USE DEF CodecTypeOK
  <1>1. ASSUME NEW m \in Message, MessageSend(m) PROVE CodecTypeOK'
    <2>1. m.size <= 64
      BY <1>1 DEF MessageSend, Accepted
    <2>2. obj' \in BusHeader /\ txram' \in Data
      BY <1>1, <2>1, SendTypes DEF MessageSend
    <2>3. bus' \in Data /\ Empty(Junk) \in Data
      BY <1>1, DataTypes DEF MessageSend, Fresh
    <2>4. frame' = NoFrame /\ out' = NoOut /\ stage' = "queued" /\ msg' = m
          /\ UNCHANGED <<fd_mode, rxram>>
      BY <1>1 DEF MessageSend, Fresh
    <2> QED BY <2>2, <2>3, <2>4 DEF NoFrame, NoOut, Dlc, PAYLOAD_BYTES
  <1>2. ASSUME Transmission PROVE CodecTypeOK'
    <2>1. bus' \in Data
      BY <1>2 DEF Transmission, Carried, Data, Byte
    <2> QED BY <1>2, <2>1 DEF Transmission
  <1>3. ASSUME NEW ide \in BOOLEAN, NEW fdf \in BOOLEAN, NEW brs \in BOOLEAN,
               NEW id \in Id, NEW dlc \in Dlc, NEW p \in Payload,
               PeerTransmission(ide, id, fdf, brs, dlc, p)
        PROVE  CodecTypeOK'
    <2>1. id \in Nat
      BY CodecAssumption
    <2>2. obj' \in BusHeader
      BY <1>3, <2>1, ParseBuild DEF PeerTransmission, BusHeader, WordOK
    <2>3. bus' \in Data
      <3>1. Bytes(p, PAYLOAD_BYTES) \in Data
        BY DataTypes DEF PAYLOAD_BYTES
      <3> QED BY <1>3, <3>1 DEF PeerTransmission, Carried, Data, Byte
    <2>4. frame' = NoFrame /\ out' = NoOut /\ stage' = "wire" /\ msg' = NoMsg
          /\ UNCHANGED <<fd_mode, txram, rxram>>
      BY <1>3 DEF PeerTransmission
    <2> QED BY <2>2, <2>3, <2>4, DataTypes DEF NoFrame, NoOut, Dlc, PAYLOAD_BYTES
  <1>4. ASSUME Store PROVE CodecTypeOK'
    <2>1. rxram' \in Data
      BY <1>4 DEF Store, Data
    <2> QED BY <1>4, <2>1 DEF Store
  <1>5. ASSUME Receive PROVE CodecTypeOK'
    <2>1. ParseIdWord(obj.word, obj.ide) \in Nat
      BY ParsedType DEF BusHeader
    <2>2. DlcToLen(obj.dlc) \in 0 .. PAYLOAD_BYTES
      BY DlcLength DEF BusHeader, PAYLOAD_BYTES
    <2>3. Unpack(rxram, DlcToLen(obj.dlc)) \in Data
      BY DEF Unpack, Data, Byte
    <2>4. frame' \in HalFrame
      BY <1>5, <2>1, <2>2, <2>3 DEF Receive, BusHeader, HalFrame
    <2> QED BY <1>5, <2>4 DEF Receive, HalFrame
  <1>6. ASSUME NEW size \in BufferSize, MessageRead(size) PROVE CodecTypeOK'
    <2> DEFINE n == IF frame.len < size THEN frame.len ELSE size
    <2>1. size \in 0 .. 255 /\ n \in 0 .. PAYLOAD_BYTES
      BY CodecAssumption DEF PAYLOAD_BYTES
    <2>2. IdBits(frame.extended, frame.id) \in Nat /\ LenToDlc(frame.len) \in Dlc
      BY ParseBuild, LengthDlc DEF PAYLOAD_BYTES
    <2>3. [i \in Index |-> IF i < n THEN frame.data[i] ELSE Junk] \in Data
      BY DEF Data, Byte
    <2>4. out' = [ide |-> frame.extended, id |-> IdBits(frame.extended, frame.id),
                  edl |-> frame.fd, brs |-> frame.brs, dlc |-> LenToDlc(frame.len),
                  size |-> size, n |-> n,
                  data |-> [i \in Index |-> IF i < n THEN frame.data[i] ELSE Junk]]
      BY <1>6 DEF MessageRead
    <2> HIDE DEF n
    <2>5. out' \in [ide : BOOLEAN, id : Nat, edl : BOOLEAN, brs : BOOLEAN, dlc : Dlc,
                    size : 0 .. 255, n : 0 .. PAYLOAD_BYTES, data : Data]
      BY <2>1, <2>2, <2>3, <2>4
    <2> QED BY <1>6, <2>5 DEF MessageRead
  <1>7. CASE UNCHANGED codecVars
    BY <1>7 DEF codecVars
  <1> QED BY <1>1, <1>2, <1>3, <1>4, <1>5, <1>6, <1>7 DEF CodecNext

\* RAM, bus, frame and buffer keep their types, for any contents and any peers.
THEOREM CodecAlwaysTyped == CodecSpec => []CodecTypeOK
  <1>1. CodecInit => CodecTypeOK
    BY DataTypes DEF CodecInit, CodecTypeOK, NoObject, NoFrame, NoOut, BusHeader, Dlc,
                     PAYLOAD_BYTES
  <1> QED BY <1>1, StepCodecType, PTL DEF CodecSpec

----------------------------------------------------------------------------
(* What is on its way.                                                     *)

\* Peers give a classic frame the DLC code of its length.
PeersConform == PeerClassicDlc \subseteq 0 .. 8

Flying == {"wire", "stored", "received", "read"}

Sendable(m) == /\ m \in Message /\ m.size <= 64
               /\ m.edl \/ m.size <= 8
               /\ ~fd_mode => ~m.edl

\* The object of a message of this driver is the one made from it, and the words
\* up to its length hold the message and its padding.
Sent   == stage = "queued" \/ (stage \in Flying /\ FromDriver) =>
             Sendable(msg) /\ obj = Header(Frame(msg))
Filled == stage = "queued" =>
             \A i \in Index : i < DlcToLen(obj.dlc) => txram[i] = Padded(msg, i)

\* What is on the bus is legal, and the message's; what is stored, parsed and read
\* is what was on the bus.
Legal  == stage \in Flying => /\ WordOK(obj.word, obj.ide)
                              /\ ~obj.fdf => ~obj.brs /\ obj.dlc <= 8
OnBus  == stage \in Flying /\ FromDriver =>
             \A i \in Index : bus[i] = Padded(msg, i)
Kept   == stage \in Flying \ {"wire"} =>
             \A i \in Index : i < DlcToLen(obj.dlc) => rxram[i] = bus[i]
Parsed == stage \in {"received", "read"} =>
             /\ frame.extended = obj.ide /\ frame.id = ParseIdWord(obj.word, obj.ide)
             /\ frame.fd = obj.fdf /\ frame.brs = obj.brs
             /\ frame.len = DlcToLen(obj.dlc)
             /\ \A i \in Index : i < frame.len => frame.data[i] = bus[i]
Given  == stage = "read" =>
             /\ out.ide = frame.extended /\ out.id = IdBits(frame.extended, frame.id)
             /\ out.edl = frame.fd /\ out.brs = frame.brs
             /\ out.dlc = LenToDlc(frame.len)
             /\ out.n <= frame.len /\ out.n \in {frame.len, out.size}
             /\ \A i \in Index : i < out.n => out.data[i] = frame.data[i]

CodecInv == CodecTypeOK /\ Sent /\ Filled /\ Legal /\ OnBus /\ Kept /\ Parsed /\ Given

\* A message that may be sent has a size between 0 and 64.
LEMMA SendableSize == ASSUME NEW m, Sendable(m) PROVE m.size \in 0 .. 64
  <1>1. m.size \in Size
    BY DEF Sendable, Message
  <1>2. m.size \in 0 .. 255
    BY <1>1, CodecAssumption
  <1> QED BY <1>2 DEF Sendable

\* It makes a legal object.
LEMMA SendableLegal ==
    ASSUME NEW m, Sendable(m)
    PROVE  LET h == Header(Frame(m))
           IN  /\ WordOK(h.word, h.ide) /\ h.fdf = m.edl
               /\ ~h.fdf => ~h.brs /\ h.dlc <= 8
               /\ h.dlc \in Dlc /\ m.size <= DlcToLen(h.dlc)
  <1>1. m \in Message /\ m.size <= 64 /\ m.size \in 0 .. 64
    BY SendableSize DEF Sendable
  <1>2. WordOK(Header(Frame(m)).word, m.ide)
    <2>1. Empty(Zero) \in Data
      BY DataTypes
    <2> QED BY <1>1, <2>1, SendTypes
  <1>3. /\ LenToDlc(m.size) \in Dlc /\ (m.size <= 8 => LenToDlc(m.size) = m.size)
        /\ m.size <= DlcToLen(LenToDlc(m.size))
    BY <1>1, LengthDlc, CodeHolds, DlcLength DEF Dlc
  <1>4. /\ Header(Frame(m)).ide = m.ide /\ Header(Frame(m)).fdf = m.edl
        /\ Header(Frame(m)).brs = (m.edl /\ m.brs)
        /\ Header(Frame(m)).dlc = LenToDlc(m.size)
    BY DEF Header, Frame
  <1> QED BY <1>1, <1>2, <1>3, <1>4 DEF Sendable

\* MessageSend leaves the message and its padding in the object.
LEMMA SendKeeps ==
    ASSUME CodecInv, NEW m \in Message, MessageSend(m)
    PROVE  Sent' /\ Filled' /\ stage' = "queued"
  <1>1. /\ stage' = "queued" /\ msg' = m /\ fd_mode' = fd_mode
        /\ obj' = Header(Frame(m)) /\ txram' = Pack(Frame(m), txram)
    BY DEF MessageSend
  <1>2. Sendable(m)
    BY DEF MessageSend, Accepted, Transmittable, Frame, Sendable
  <1>3. Sendable(m)'
    BY <1>1, <1>2 DEF Sendable
  <1>4. m.size \in 0 .. 64
    BY <1>2, SendableSize
  <1> DEFINE len == DlcToLen(LenToDlc(m.size))
  <1>5. len \in 0 .. 64
    BY <1>4, LengthDlc, DlcLength
  <1>6. len <= WordBytes(len) /\ WordBytes(len) \in Nat
    BY <1>5, WordsCover
  <1>7. obj'.dlc = LenToDlc(m.size)
    BY <1>1 DEF Header, Frame
  <1>8. ASSUME NEW i \in Index, i < len
        PROVE  txram'[i] = Padded(m, i)
    <2>1. i < WordBytes(len) /\ i \in Nat
      BY <1>5, <1>6, <1>8 DEF Index, PAYLOAD_BYTES
    <2>2. Frame(m).len = m.size /\ Frame(m).data = Bytes(m.content, m.size)
      BY DEF Frame
    <2>3. txram'[i] = IF i < m.size THEN Bytes(m.content, m.size)[i] ELSE Zero
      BY <1>1, <2>1, <2>2 DEF Pack
    <2> QED BY <2>3 DEF Bytes, Padded
  <1> QED BY <1>1, <1>3, <1>7, <1>8, Zenon DEF Sent, Filled, FromDriver, Flying

\* What the module puts on the bus is the message and zeros.
LEMMA TransmissionKeeps ==
    ASSUME CodecInv, Transmission
    PROVE  Sent' /\ Legal' /\ OnBus' /\ stage' = "wire"
  <1>1. /\ stage = "queued" /\ stage' = "wire" /\ UNCHANGED <<fd_mode, obj, msg>>
        /\ bus' = Carried(obj, txram)
    BY DEF Transmission
  <1>2. Sendable(msg) /\ obj = Header(Frame(msg))
    BY <1>1 DEF CodecInv, Sent
  <1>3. Sendable(msg)'
    BY <1>1, <1>2 DEF Sendable
  <1>4. /\ WordOK(obj.word, obj.ide)
        /\ ~obj.fdf => ~obj.brs /\ obj.dlc <= 8
        /\ obj.dlc \in Dlc /\ msg.size <= DlcToLen(obj.dlc)
    BY <1>2, SendableLegal, Zenon
  <1>5. WireLength(obj.fdf, obj.dlc) = DlcToLen(obj.dlc)
    BY <1>4 DEF WireLength, Dlc
  <1>6. ASSUME NEW i \in Index PROVE bus'[i] = Padded(msg, i)
    <2>1. bus'[i] = IF i < DlcToLen(obj.dlc) THEN txram[i] ELSE Zero
      BY <1>1, <1>5 DEF Carried
    <2>2. CASE i < DlcToLen(obj.dlc)
      BY <1>1, <2>1, <2>2 DEF CodecInv, Filled
    <2>3. CASE ~(i < DlcToLen(obj.dlc))
      <3>1. msg.size \in 0 .. 64 /\ DlcToLen(obj.dlc) \in 0 .. 64 /\ i \in Nat
        BY <1>2, <1>4, SendableSize, DlcLength DEF Index, PAYLOAD_BYTES
      <3>2. ~(i < msg.size)
        BY <1>4, <2>3, <3>1
      <3> QED BY <2>1, <2>3, <3>2 DEF Padded
    <2> QED BY <2>2, <2>3
  <1>7. Sent'
    BY <1>1, <1>2, <1>3 DEF Sent
  <1>8. Legal'
    BY <1>1, <1>4 DEF Legal, WordOK
  <1>9. OnBus'
    BY <1>1, <1>6 DEF OnBus, Padded
  <1> QED BY <1>1, <1>7, <1>8, <1>9

\* A frame of a conforming peer is legal.
LEMMA PeerKeeps ==
    ASSUME PeersConform, CodecInv,
           NEW ide \in BOOLEAN, NEW fdf \in BOOLEAN, NEW brs \in BOOLEAN,
           NEW id \in Id, NEW dlc \in Dlc, NEW p \in Payload,
           PeerTransmission(ide, id, fdf, brs, dlc, p)
    PROVE  Legal' /\ ~FromDriver' /\ stage' = "wire"
  <1>1. /\ stage' = "wire" /\ msg' = NoMsg
        /\ obj' = [word |-> BuildIdWord(ide, IdBits(ide, id)), ide |-> ide,
                   fdf |-> fdf, brs |-> brs, dlc |-> dlc]
        /\ ~fdf => dlc \in PeerClassicDlc /\ ~brs
    BY DEF PeerTransmission
  <1>2. WordOK(BuildIdWord(ide, IdBits(ide, id)), ide)
    <2>1. id \in Nat
      BY CodecAssumption
    <2> QED BY <2>1, ParseBuild
  <1>3. ~fdf => dlc <= 8
    BY <1>1 DEF PeersConform, Dlc
  <1> QED BY <1>1, <1>2, <1>3 DEF Legal, WordOK, FromDriver

\* A legal object has as many bytes on the bus as its DLC code says.
LEMMA LegalWireLength ==
    ASSUME CodecInv, stage \in Flying
    PROVE  /\ WireLength(obj.fdf, obj.dlc) = DlcToLen(obj.dlc)
           /\ obj.dlc \in Dlc /\ DlcToLen(obj.dlc) \in 0 .. 64
  <1>1. obj.dlc \in Dlc /\ (~obj.fdf => obj.dlc <= 8)
    BY DEF CodecInv, CodecTypeOK, BusHeader, Legal
  <1> QED BY <1>1, DlcLength DEF WireLength, Dlc

\* The receiving module stores all of it.
LEMMA StoreKeeps == ASSUME CodecInv, Store PROVE Kept' /\ stage' = "stored"
  <1>1. /\ stage \in Flying /\ stage' = "stored" /\ UNCHANGED <<obj, bus>>
        /\ rxram' = [i \in Index |-> IF i < WireLength(obj.fdf, obj.dlc) THEN bus[i]
                                                                         ELSE rxram[i]]
    BY DEF Store, Flying
  <1>2. WireLength(obj.fdf, obj.dlc) = DlcToLen(obj.dlc)
    BY <1>1, LegalWireLength
  <1>3. ASSUME NEW i \in Index, i < DlcToLen(obj.dlc) PROVE rxram'[i] = bus[i]
    BY <1>1, <1>2, <1>3
  <1> QED BY <1>1, <1>3 DEF Kept

\* nora_canfd_receive copies all of it.
LEMMA ReceiveKeeps == ASSUME CodecInv, Receive PROVE Parsed' /\ stage' = "received"
  <1> DEFINE len == DlcToLen(obj.dlc)
  <1>1. /\ stage = "stored" /\ stage' = "received" /\ UNCHANGED <<obj, bus>>
        /\ frame' = [id |-> ParseIdWord(obj.word, obj.ide), extended |-> obj.ide,
                     fd |-> obj.fdf, brs |-> obj.brs, len |-> len,
                     data |-> Unpack(rxram, len)]
    BY DEF Receive
  <1>2. len \in Nat /\ len <= WordBytes(len) /\ WordBytes(len) \in Nat
    <2>1. len \in 0 .. 64
      BY <1>1, LegalWireLength DEF Flying
    <2> QED BY <2>1, WordsCover
  <1>3. ASSUME NEW i \in Index, i < len PROVE frame'.data[i] = bus[i]
    <2>1. i < WordBytes(len)
      BY <1>2, <1>3 DEF Index, PAYLOAD_BYTES
    <2>2. rxram[i] = bus[i]
      BY <1>1, <1>3 DEF CodecInv, Kept, Flying
    <2>3. frame'.data = Unpack(rxram, len)
      BY <1>1
    <2> HIDE DEF len
    <2> QED BY <1>3, <2>1, <2>2, <2>3 DEF Unpack
  <1> HIDE DEF len
  <1> QED BY <1>1, <1>3 DEF Parsed, len

\* CAN_MessageRead gives as much of it as the buffer holds.
LEMMA ReadKeeps ==
    ASSUME CodecInv, NEW size \in BufferSize, MessageRead(size)
    PROVE  Given' /\ stage' = "read"
  <1> DEFINE n == IF frame.len < size THEN frame.len ELSE size
  <1>1. /\ stage' = "read" /\ frame' = frame
        /\ out' = [ide |-> frame.extended, id |-> IdBits(frame.extended, frame.id),
                   edl |-> frame.fd, brs |-> frame.brs, dlc |-> LenToDlc(frame.len),
                   size |-> size, n |-> n,
                   data |-> [i \in Index |-> IF i < n THEN frame.data[i] ELSE Junk]]
    BY DEF MessageRead
  <1>2. size \in 0 .. 255 /\ frame.len \in 0 .. 64
    BY CodecAssumption DEF CodecInv, CodecTypeOK, PAYLOAD_BYTES
  <1>3. n <= frame.len /\ n \in {frame.len, size}
    BY <1>2
  <1> HIDE DEF n
  <1> QED BY <1>1, <1>3 DEF Given

\* Every step keeps the invariant, if the peers conform.
LEMMA StepCodecInv ==
    ASSUME PeersConform, CodecInv, [CodecNext]_codecVars
    PROVE  CodecInv'
  <1>0. CodecTypeOK'
    BY StepCodecType DEF CodecInv
  <1> USE DEF CodecInv, Flying
  <1>1. ASSUME NEW m \in Message, MessageSend(m) PROVE CodecInv'
    <2>1. Sent' /\ Filled' /\ stage' = "queued"
      BY <1>1, SendKeeps
    <2> QED BY <1>0, <2>1 DEF Legal, OnBus, Kept, Parsed, Given
  <1>2. ASSUME Transmission PROVE CodecInv'
    <2>1. Sent' /\ Legal' /\ OnBus' /\ stage' = "wire"
      BY <1>2, TransmissionKeeps
    <2> QED BY <1>0, <2>1 DEF Filled, Kept, Parsed, Given
  <1>3. ASSUME NEW ide \in BOOLEAN, NEW fdf \in BOOLEAN, NEW brs \in BOOLEAN,
               NEW id \in Id, NEW dlc \in Dlc, NEW p \in Payload,
               PeerTransmission(ide, id, fdf, brs, dlc, p)
        PROVE  CodecInv'
    <2>1. Legal' /\ ~FromDriver' /\ stage' = "wire"
      BY <1>3, PeerKeeps
    <2> QED BY <1>0, <2>1 DEF Sent, Filled, OnBus, Kept, Parsed, Given
  <1>4. ASSUME Store PROVE CodecInv'
    <2>1. Kept' /\ stage' = "stored"
      BY <1>4, StoreKeeps
    <2>2. stage = "wire" /\ UNCHANGED <<fd_mode, obj, bus, msg>>
      BY <1>4 DEF Store
    <2>3. Sent' /\ Legal' /\ OnBus'
      BY <2>1, <2>2 DEF Sent, Sendable, Legal, WordOK, OnBus, Padded, FromDriver
    <2> QED BY <1>0, <2>1, <2>3 DEF Filled, Parsed, Given
  <1>5. ASSUME Receive PROVE CodecInv'
    <2>1. Parsed' /\ stage' = "received"
      BY <1>5, ReceiveKeeps
    <2>2. stage = "stored" /\ UNCHANGED <<fd_mode, rxram, obj, bus, msg>>
      BY <1>5 DEF Receive
    <2>3. Sent' /\ Legal' /\ OnBus' /\ Kept'
      BY <2>1, <2>2 DEF Sent, Sendable, Legal, WordOK, OnBus, Padded, FromDriver, Kept
    <2> QED BY <1>0, <2>1, <2>3 DEF Filled, Given
  <1>6. ASSUME NEW size \in BufferSize, MessageRead(size) PROVE CodecInv'
    <2>1. Given' /\ stage' = "read"
      BY <1>6, ReadKeeps
    <2>2. stage = "received" /\ UNCHANGED <<fd_mode, rxram, obj, bus, frame, msg>>
      BY <1>6 DEF MessageRead
    <2>3. Sent' /\ Legal' /\ OnBus' /\ Kept' /\ Parsed'
      BY <2>1, <2>2 DEF Sent, Sendable, Legal, WordOK, OnBus, Padded, FromDriver, Kept,
                        Parsed
    <2> QED BY <1>0, <2>1, <2>3 DEF Filled
  <1>7. CASE UNCHANGED codecVars
    <2>1. UNCHANGED <<fd_mode, txram, rxram, obj, bus, frame, out, stage, msg>>
      BY <1>7 DEF codecVars
    <2> QED BY <1>0, <2>1 DEF Sent, Sendable, Filled, Legal, WordOK, OnBus, Padded,
                              FromDriver, Kept, Parsed, Given
  <1> QED BY <1>1, <1>2, <1>3, <1>4, <1>5, <1>6, <1>7 DEF CodecNext

\* What is on its way is at every stage the message, or the peer's frame.
THEOREM CodecInvariant == ASSUME PeersConform PROVE CodecSpec => []CodecInv
  <1>1. CodecInit => CodecTypeOK
    BY DataTypes DEF CodecInit, CodecTypeOK, NoObject, NoFrame, NoOut, BusHeader, Dlc,
                     PAYLOAD_BYTES
  <1>2. CodecInit => CodecInv
    BY <1>1 DEF CodecInit, CodecInv, Sent, Filled, Legal, OnBus, Kept, Parsed, Given,
                Flying
  <1>3. CodecInv /\ [CodecNext]_codecVars => CodecInv'
    BY StepCodecInv, PeersConform
  <1> QED BY <1>2, <1>3, PTL DEF CodecSpec

\* Every frame on the bus is legal, whatever the caller asked for.
THEOREM WireAlwaysLegal == ASSUME PeersConform PROVE CodecSpec => []WireIsLegal
  <1>1. CodecInv => WireIsLegal
    <2> SUFFICES ASSUME CodecInv, stage = "wire" PROVE WireIsLegal
      BY DEF WireIsLegal
    <2>1. ~obj.fdf => ~obj.brs /\ obj.dlc <= 8
      BY DEF CodecInv, Legal, Flying
    <2>2. FromDriver => Sendable(msg) /\ obj = Header(Frame(msg))
      BY DEF CodecInv, Sent, Flying
    <2>3. FromDriver => obj.fdf = msg.edl
      BY <2>2 DEF Header, Frame
    <2> QED BY <2>1, <2>2, <2>3 DEF WireIsLegal, Sendable
  <1> QED BY <1>1, CodecInvariant, PTL

\* No byte of an earlier message goes out in the filling of a shorter one.
THEOREM NothingEverLeaks == ASSUME PeersConform PROVE CodecSpec => []NothingLeaks
  <1>1. CodecInv => NothingLeaks
    BY DEF CodecInv, OnBus, NothingLeaks, Flying
  <1> QED BY <1>1, CodecInvariant, PTL

\* What MessageRead returns is the message MessageSend took.
THEOREM SentAlwaysArrives == ASSUME PeersConform PROVE CodecSpec => []SentArrives
  <1>1. CodecInv => SentArrives
    <2> SUFFICES ASSUME CodecInv, stage = "read", FromDriver PROVE SentArrives
      BY DEF SentArrives
    <2> DEFINE c == LenToDlc(msg.size)
    <2>1. Sendable(msg) /\ obj = Header(Frame(msg))
      BY DEF CodecInv, Sent, Flying
    <2>2. /\ obj.word = BuildIdWord(msg.ide, IdBits(msg.ide, msg.id))
          /\ obj.ide = msg.ide /\ obj.fdf = msg.edl
          /\ obj.brs = (msg.edl /\ msg.brs) /\ obj.dlc = c
      BY <2>1 DEF Header, Frame
    <2>3. msg.size \in 0 .. 64 /\ msg.id \in Nat /\ msg.ide \in BOOLEAN
      <3>1. msg.id \in Id /\ msg.ide \in BOOLEAN
        BY <2>1 DEF Sendable, Message
      <3> QED BY <2>1, <3>1, SendableSize, CodecAssumption
    <2>4. c \in Dlc /\ DlcToLen(c) >= msg.size /\ DlcToLen(c) \in 0 .. 64
          /\ LenToDlc(DlcToLen(c)) = c
      BY <2>3, LengthDlc, CodeHolds, CodeBack, DlcLength
    <2>5. \A d \in Dlc : DlcToLen(d) >= msg.size => c <= d
      BY <2>3, CodeSmallest
    <2> HIDE DEF c
    <2>6. /\ frame.extended = obj.ide /\ frame.id = ParseIdWord(obj.word, obj.ide)
          /\ frame.fd = obj.fdf /\ frame.brs = obj.brs
          /\ frame.len = DlcToLen(obj.dlc)
          /\ \A i \in Index : i < frame.len => frame.data[i] = bus[i]
      BY DEF CodecInv, Parsed
    <2>7. /\ out.ide = frame.extended /\ out.id = IdBits(frame.extended, frame.id)
          /\ out.edl = frame.fd /\ out.brs = frame.brs
          /\ out.dlc = LenToDlc(frame.len)
          /\ out.n <= frame.len /\ out.n \in {frame.len, out.size}
          /\ \A i \in Index : i < out.n => out.data[i] = frame.data[i]
      BY DEF CodecInv, Given
    <2>8. out.dlc = c
      BY <2>2, <2>4, <2>6, <2>7
    <2>9. out.id = IdBits(msg.ide, msg.id)
      <3>1. WordOK(obj.word, msg.ide) /\ frame.id = IdBits(msg.ide, msg.id)
            /\ frame.id = ParseIdWord(obj.word, msg.ide)
        BY <2>2, <2>3, <2>6, ParseBuild
      <3>2. IdBits(msg.ide, frame.id) = frame.id
        BY <2>3, <3>1, BuildParse
      <3> QED BY <2>2, <2>6, <2>7, <3>1, <3>2
    <2>10. ASSUME NEW i \in 0 .. (out.n - 1) PROVE out.data[i] = Padded(msg, i)
      <3>1. out.n \in 0 .. 64
        BY DEF CodecInv, CodecTypeOK, PAYLOAD_BYTES
      <3>2. frame.len \in 0 .. 64
        BY <2>2, <2>4, <2>6
      <3>3. i \in Index /\ i < out.n /\ i < frame.len
        BY <2>7, <3>1, <3>2 DEF Index, PAYLOAD_BYTES
      <3>4. bus[i] = Padded(msg, i)
        BY <3>3 DEF CodecInv, OnBus, Flying
      <3> QED BY <2>6, <2>7, <3>3, <3>4
    <2>11. out.n \in {DlcToLen(out.dlc), out.size}
      BY <2>2, <2>6, <2>7, <2>8
    <2> QED BY <2>2, <2>4, <2>5, <2>6, <2>7, <2>8, <2>9, <2>10, <2>11 DEF SentArrives
  <1> QED BY <1>1, CodecInvariant, PTL

\* What MessageRead returns is what the bus carried, of a peer's frame too, if the
\* DLC codes of peers' classic frames end at 8.
THEOREM ReadIsAlwaysReceived == ASSUME PeersConform PROVE CodecSpec => []ReadIsReceived
  <1>1. CodecInv => ReadIsReceived
    <2> SUFFICES ASSUME CodecInv, stage = "read" PROVE ReadIsReceived
      BY DEF ReadIsReceived
    <2>1. /\ WireLength(obj.fdf, obj.dlc) = DlcToLen(obj.dlc)
          /\ obj.dlc \in Dlc /\ DlcToLen(obj.dlc) \in 0 .. 64
      BY LegalWireLength DEF Flying
    <2>2. WordOK(obj.word, obj.ide) /\ obj.ide \in BOOLEAN
      <3>1. WordOK(obj.word, obj.ide)
        BY DEF CodecInv, Legal, Flying
      <3> QED BY <3>1 DEF CodecInv, CodecTypeOK, BusHeader
    <2>3. /\ frame.extended = obj.ide /\ frame.id = ParseIdWord(obj.word, obj.ide)
          /\ frame.fd = obj.fdf /\ frame.brs = obj.brs
          /\ frame.len = DlcToLen(obj.dlc)
          /\ \A i \in Index : i < frame.len => frame.data[i] = bus[i]
      BY DEF CodecInv, Parsed
    <2>4. /\ out.ide = frame.extended /\ out.id = IdBits(frame.extended, frame.id)
          /\ out.edl = frame.fd /\ out.brs = frame.brs
          /\ out.dlc = LenToDlc(frame.len)
          /\ out.n <= frame.len /\ out.n \in 0 .. 64
          /\ \A i \in Index : i < out.n => out.data[i] = frame.data[i]
      BY DEF CodecInv, Given, CodecTypeOK, PAYLOAD_BYTES
    <2>5. out.dlc = obj.dlc
      BY <2>1, <2>3, <2>4, CodeBack
    <2>6. BuildIdWord(out.ide, out.id) = obj.word
      <3>1. out.id = ParseIdWord(obj.word, obj.ide)
        BY <2>2, <2>3, <2>4, BuildParse
      <3> QED BY <2>2, <2>3, <2>4, <3>1, BuildParse
    <2>7. ASSUME NEW i \in 0 .. (out.n - 1) PROVE out.data[i] = bus[i]
      <3>1. i \in Index /\ i < out.n /\ i < frame.len
        BY <2>1, <2>3, <2>4 DEF Index, PAYLOAD_BYTES
      <3> QED BY <2>3, <2>4, <3>1
    <2>8. out.n <= WireLength(obj.fdf, obj.dlc)
      BY <2>1, <2>3, <2>4
    <2> QED BY <2>3, <2>4, <2>5, <2>6, <2>7, <2>8 DEF ReadIsReceived
  <1> QED BY <1>1, CodecInvariant, PTL
\* While peers give classic frames the DLC codes of their lengths, the comment on
\* the length of a frame, "classic: 0..8", holds: the run that refutes it needs a
\* peer's code above 8.
THEOREM ClassicLengthStaysClassic ==
    ASSUME PeersConform PROVE CodecSpec => []ClassicLengthIsClassic
  <1>1. CodecInv => ClassicLengthIsClassic
    <2> SUFFICES ASSUME CodecInv, stage = "received", ~frame.fd
                 PROVE  frame.len <= 8
      BY DEF ClassicLengthIsClassic
    <2>1. /\ obj.fdf = frame.fd /\ frame.len = DlcToLen(obj.dlc)
          /\ obj.dlc \in Dlc
      BY DEF CodecInv, CodecTypeOK, Parsed, BusHeader
    <2>2. obj.dlc <= 8
      BY <2>1 DEF CodecInv, Legal, Flying
    <2> QED BY <2>1, <2>2, DlcLength DEF Dlc
  <1> QED BY <1>1, CodecInvariant, PTL
=============================================================================
