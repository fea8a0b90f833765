\* Identifiers with bits above the 11 and the 29 in use; lengths on and between
\* DLC codes and one too long; conforming peers.
CONSTANTS
  Payload = {a, b}
  Id = {2147483646}
  Size = {3, 33, 64, 65}
  BufferSize = {8, 64}
  PeerDlc = {15}
  PeerClassicDlc = {2, 8}
SPECIFICATION CodecSpec
INVARIANTS
  CodecTypeOK
  WireIsLegal
  NothingLeaks
  SentArrives
  ReadIsReceived
