-------------------------------- MODULE Wire --------------------------------
(***************************************************************************)
(* The messages of the ledger stream (internal/wire) and the two halves of *)
(* its chunk codec (internal/server/compress.go, remoteledger/             *)
(* decompress.go).                                                         *)
(*                                                                         *)
(* A ledger body is a sequence of units.  A unit stands for a run of raw   *)
(* bytes and names where it comes from, so two bodies are equal only when  *)
(* they are the same bytes of the same ledger.  Lengths, the chunk size    *)
(* and the payload cap are counted in units.  An emit stamp is the number  *)
(* of the flow that was emitted (a nonzero instant), or 0 for "no stamp".  *)
(***************************************************************************)
EXTENDS Integers, Sequences

CONSTANTS
    MaxSeq,      \* math.MaxUint32: the last representable ledger sequence
    ChunkSize,   \* units in a full CHUNK payload (--chunk-size)
    MaxPayload,  \* units in the largest ledger (wire.DefaultMaxPayloadSize)
    Compress     \* whether the server compresses chunks (--compress)

ASSUME WireAssumption ==
    /\ MaxSeq \in Nat \ {0}
    /\ ChunkSize \in Nat \ {0}
    /\ MaxPayload \in Nat \ {0}
    /\ Compress \in BOOLEAN

\* uint32 sequences, and the uint32 successor, which wraps to 0.
Seqs == 0..MaxSeq
Succ(q) == (q + 1) % (MaxSeq + 1)

\* "live" units come from this run's source, "old" ones from an earlier run.
Unit == {"live", "old"} \X Seqs \X Nat
Body == Seq(Unit)

\* One compressed frame: an opaque unit that stands for the body it encodes.
Payload == Seq(Unit \cup ({"zstd"} \X Body))

-----------------------------------------------------------------------------
\* The three messages.  Decode is their inverse: the model reads the fields.

AppendBegin(seq, stamp) == [type |-> "begin", seq |-> seq, stamp |-> stamp]

AppendChunk(seq, idx, codec, payload) ==
    [type |-> "chunk", seq |-> seq, idx |-> idx, codec |-> codec, payload |-> payload]

AppendEnd(seq, count, total, stamp, sum) ==
    [type |-> "end", seq |-> seq, count |-> count, total |-> total,
     stamp |-> stamp, sum |-> sum]

\* The checksum is taken to be collision free: a body is its own xxhash64.
Sum64(body) == body

Codec == {"raw", "zstd"}
BeginMsg == [type : {"begin"}, seq : Seqs, stamp : Nat]
ChunkMsg == [type : {"chunk"}, seq : Seqs, idx : Nat, codec : Codec, payload : Payload]
EndMsg   == [type : {"end"}, seq : Seqs, count : Nat, total : Nat, stamp : Nat, sum : Body]
NoMsg    == [type |-> "nil"]

-----------------------------------------------------------------------------
\* zstd: EncodeAll yields one frame, smaller than its input or not; DecodeAll
\* inverts it and fails on bytes that are not a frame.
EncodeAll(raw) == << <<"zstd", raw>> >>
IsFrame(payload) == Len(payload) = 1 /\ payload[1][1] = "zstd"
DecodeAll(payload) == payload[1][2]

\* compressChunk reports whether the frame is smaller than what it wraps.
Smaller(raw) == Len(EncodeAll(raw)) < Len(raw)

RawChunk(seq, idx, raw) == AppendChunk(seq, idx, "raw", raw)
compressChunk(seq, idx, raw) == AppendChunk(seq, idx, "zstd", EncodeAll(raw))

\* encodeChunk, the ring's form: compress when that makes the chunk smaller.
encodeChunk(seq, idx, raw) ==
    IF Compress /\ Smaller(raw) THEN compressChunk(seq, idx, raw)
                                ELSE RawChunk(seq, idx, raw)

\* appendChunkPayload: the client's inverse.  A zstd chunk that is no frame is
\* an error; a raw chunk is appended verbatim whatever it holds.
Decodable(m) == m.codec = "zstd" => IsFrame(m.payload)
Expand(m) == IF m.codec = "zstd" THEN DecodeAll(m.payload) ELSE m.payload

-----------------------------------------------------------------------------
\* A body cut into chunks: the number of pieces and the i-th one, from 1.
Pieces(body) == (Len(body) + ChunkSize - 1) \div ChunkSize
Piece(body, i) ==
    SubSeq(body, (i - 1) * ChunkSize + 1,
           IF i * ChunkSize < Len(body) THEN i * ChunkSize ELSE Len(body))

\* The close frame: its code and, for TooFarBehind, the bounds its reason
\* carries (formatted by TooFarBehindReason, parsed back by its inverse).
CloseMsg(code, oldest, latest) ==
    [type |-> "close", code |-> code, oldest |-> oldest, latest |-> latest]

\* WebSocket close codes.
NormalClosure == 1000
GoingAway     == 1001
InternalError == 1011
TooFarBehind  == 4001
=============================================================================
