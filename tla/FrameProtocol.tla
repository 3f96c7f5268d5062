--------------------------- MODULE FrameProtocol ----------------------------
(***************************************************************************)
(* The framing of kernel/src/protocol.cpp, used on client connections and  *)
(* on the pipes of a worker.                                               *)
(*                                                                         *)
(* A frame is its header fields and the sizes of metadata and payload.     *)
(* framing: magic and version are right; metadata_ok: every metadata line  *)
(* has a key.  A byte is known by the frame it belongs to and its place in *)
(* the encoding, so that a reader which loses a byte, or takes one too     *)
(* many, does not find the magic where it looks for it.  Body bytes never  *)
(* pass for a magic.                                                       *)
(***************************************************************************)
EXTENDS Integers, Sequences, FiniteSetsExt

CONSTANTS
    HeaderSize,    \* kHeaderSize
    MaxMetadata,   \* kMaxMetadata
    MaxPayload,    \* kMaxC1TextGenerationOpaquePayloadBytes
    ChunkSize,     \* size of the read buffer of read_available
    ReadBudget     \* kReadBudget

ASSUME FrameAssumption ==
    /\ HeaderSize \in Nat \ {0} /\ ChunkSize \in Nat \ {0} /\ ReadBudget \in Nat \ {0}
    /\ MaxMetadata \in Nat /\ MaxPayload \in Nat

MessageType ==
    {"Hello", "HelloResponse", "Submit", "SubmitResponse", "Status", "StatusResponse",
     "Result", "ResultResponse", "Acknowledge", "AcknowledgeResponse", "Cancel",
     "CancelResponse", "ListEngines", "ListEnginesResponse", "EngineStatus",
     "EngineStatusResponse", "Error", "WorkerExecute", "WorkerResult", "WorkerFailure"}

Frames ==
    [type : MessageType, correlation : Nat, framing : BOOLEAN, metadata : Nat,
     metadata_ok : BOOLEAN, payload : Nat]

Size(f) == HeaderSize + f.metadata + f.payload

\* encode_frame; write_exact sends it in pieces of any size.
Encoded(f) == [i \in 1 .. Size(f) |-> [of |-> f, at |-> i]]

WithinLimits(f) == f.metadata <= MaxMetadata /\ f.payload <= MaxPayload

\* The checks both readers make on the first HeaderSize bytes: the magic at the
\* start, then version and lengths.
HeaderOf(b) == b[HeaderSize].of
HeaderAccepted(b) == b[1].at = 1 /\ b[1].of.framing /\ WithinLimits(HeaderOf(b))
-----------------------------------------------------------------------------
(* read_frame: blocking reads of exactly the header, the metadata, the payload. *)

\* How many bytes read_exact is to have when it has got so far.
Wanted(got) ==
    IF Len(got) < HeaderSize THEN HeaderSize
    ELSE IF Len(got) < HeaderSize + HeaderOf(got).metadata
         THEN HeaderSize + HeaderOf(got).metadata
         ELSE Size(HeaderOf(got))

\* "more": a read_exact is not done; "invalid": FramingError; "frame": complete.
ReadFrame(got) ==
    IF Len(got) < HeaderSize THEN "more"
    ELSE IF ~HeaderAccepted(got) THEN "invalid"
    ELSE IF Len(got) < Size(HeaderOf(got)) THEN "more"
    ELSE IF ~HeaderOf(got).metadata_ok THEN "invalid" ELSE "frame"

\* A request that was cut inside its header has the next one's first bytes where
\* the rest of the header should be.  Most places to cut leave a magic, a version
\* or a length that is refused.  The others leave the correlation id of the cut
\* request, or part of a magic in its place, which is no request's id (0 here),
\* with other lengths; none leaves the id of the later request.
Cut(b) == Len(b) = HeaderSize /\ b[1].at = 1 /\ b[HeaderSize].of # b[1].of

Mixed(f, id, m, p) == [f EXCEPT !.correlation = id, !.metadata = m, !.payload = p]

Misread(f) ==
    {[f EXCEPT !.framing = FALSE]}
        \cup {Mixed(f, id, m, p) :
                id \in {f.correlation, 0}, m \in 0 .. MaxMetadata, p \in 0 .. MaxPayload}

\* The bytes as the reader takes them.
Taken(b) ==
    IF Cut(b) THEN {SubSeq(Encoded(h), 1, HeaderSize) : h \in Misread(b[1].of)} ELSE {b}
-----------------------------------------------------------------------------
(* IncrementalFrameReader::read_available: what is there, up to a budget. *)

MaxBuffered == HeaderSize + MaxMetadata + MaxPayload

\* The sizes one ::read of the loop may return, with turn bytes read before.
ReadSizes(turn, available) == 1 .. Min({ChunkSize, ReadBudget - turn, available})

\* The received bytes do not fit the bounded buffer: FramingError.
Overflows(buffer, received) == received > MaxBuffered - Min({Len(buffer), MaxBuffered})

\* What the loop is followed by: as read_frame, on the buffer; bytes behind the
\* first frame stay for the next call.
FirstFrame(buffer) == SubSeq(buffer, 1, Size(HeaderOf(buffer)))
AfterFirstFrame(buffer) == SubSeq(buffer, Size(HeaderOf(buffer)) + 1, Len(buffer))
=============================================================================
