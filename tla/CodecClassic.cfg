\* A peer's classic frame may have any DLC code; above 8 it carries 8 bytes.
CONSTANTS
  Payload = {a, b}
  Id = {5}
  Size = {3}
  BufferSize = {64}
  PeerDlc = {15}
  PeerClassicDlc = {8, 15}
SPECIFICATION CodecSpec
INVARIANT ClassicLengthIsClassic
