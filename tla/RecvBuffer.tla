----------------------------- MODULE RecvBuffer -----------------------------
(***************************************************************************)
(* The receive path of one player slot: BufferQueue (Network), the         *)
(* posted WSARecv of Session::RecvMsg, and the RECV half of the worker's   *)
(* HandleCompletionInfo / ProcessPackets (Server).                         *)
(*                                                                         *)
(* A client sends packets that carry their own size in their first byte;   *)
(* TCP hands the server any fragment of the stream.  A session has at most *)
(* one receive under way, but its slot can be closed while a worker is at  *)
(* work on the buffer, and given to the next connection meanwhile.  What   *)
(* makes this code hard is the arithmetic of a buffer that is compacted    *)
(* only when a receive fills it to the last byte, and that is never        *)
(* cleared between two sessions.                                           *)
(*                                                                         *)
(* DATA.  A byte of the stream is the position (0, 1, ...) at which it was *)
(* sent; sizeAt[p] is the size of the packet whose first byte has position *)
(* p.  Positions keep growing over the sessions of a slot, so a byte left  *)
(* over from an earlier session can be told from every later one.  A byte  *)
(* that starts no packet, taken for a size, is any signed char.            *)
(*                                                                         *)
(* WHERE IT STOPS.  pc = "wild": bytes were written outside mBuffer.       *)
(* pc = "shared": the slot serves a new session while a worker or the      *)
(* kernel still uses the buffer for the former one, unsynchronised.  From  *)
(* there on the code's behaviour is undefined and nothing is claimed.      *)
(***************************************************************************)
EXTENDS Integers, Functions

CONSTANTS MaxBufferSize,   \* 1024 in Protocol.h
          Sizes,           \* sizeof of the cs_packet_* structs
          Bytes,           \* what a char may hold
          Window,          \* most bytes a client leaves unprocessed
          MaxStream,       \* bound: bytes sent over the life of the slot
          MaxSessions,     \* bound: sessions the slot serves
          MaxBack          \* bound: bytes read before the array's first

ASSUME BufferAssumption == MaxBufferSize \in Nat \ {0}
ASSUME SizesAssumption == Sizes \subseteq 1..MaxBufferSize
ASSUME BytesAssumption == Bytes \subseteq -128..127
ASSUME BoundsAssumption == /\ Window \in Nat
                           /\ MaxStream \in Nat
                           /\ MaxBack \in Nat
                           /\ MaxSessions \in Nat

VARIABLES
    mBuffer, mReadIndex, mWriteIndex, mRemainSize,   \* BufferQueue.h:32-36
    open,        \* the slot is not FREE: its socket has not been closed
    pc,          \* the receive: "free" (none) | "posted" | "completed" |
                 \* "process" (a worker is in ProcessPackets) | "wild" | "shared"
    recvLen,     \* WSABuffer.len of the posted receive
    bytes,       \* byte count of the completion that waits for a worker
    sizeAt, sentEnd, received, peerOpen,   \* the connection
    sessions,    \* sessions served, for the bound
    frontier,    \* history: position the next dispatched packet must have
    dirty,       \* history: a session began with unread bytes in the buffer
    last,        \* history: position of the bytes dispatched last, until dirty
    lost         \* history: bytes out of order were taken for a packet

buffer == <<mBuffer, mReadIndex, mWriteIndex, mRemainSize>>
io == <<pc, recvLen, bytes>>
stream == <<open, sizeAt, sentEnd, received, peerOpen, sessions>>
history == <<frontier, dirty, last, lost>>
vars == <<buffer, io, stream, history>>

NoByte == -1     \* a byte of no stream: never received, or outside mBuffer

Defined == pc \notin {"wild", "shared"}

-----------------------------------------------------------------------------
(* BufferQueue's observers. *)

GetLeftBufLen == MaxBufferSize - mWriteIndex
GetFilledBufLen == MaxBufferSize - mRemainSize
Empty == mReadIndex = mWriteIndex /\ mRemainSize > 0

ByteAt(i) == IF i \in DOMAIN mBuffer THEN mBuffer[i] ELSE NoByte

\* The values a worker may find at mReadIndex: the true size if the byte
\* there starts a packet, else any signed char.
PeekNextPacketSize ==
    LET p == ByteAt(mReadIndex)
    IN  IF p \in DOMAIN sizeAt THEN {sizeAt[p]} ELSE Bytes

\* Mutant: a packet that ends where the received bytes end is not readable.
ReadableStrict(size) == IF GetFilledBufLen < 1 \/ Empty
                        THEN FALSE
                        ELSE size \in PeekNextPacketSize /\ size < GetFilledBufLen

Readable(size) == IF GetFilledBufLen < 1 \/ Empty
                  THEN FALSE
                  ELSE size \in PeekNextPacketSize /\ size <= GetFilledBufLen

Unreadable == IF GetFilledBufLen < 1 \/ Empty
              THEN TRUE
              ELSE \E size \in PeekNextPacketSize : size > GetFilledBufLen

(* BufferQueue's updates. *)

\* Line 45-49, when a receive has filled the array to its end: the unread
\* bytes move to the front.  The memcpy of line 46 overlaps if mReadIndex is
\* small; the MSVC runtime's memcpy moves overlapping regions correctly,
\* which is what is modelled.
MovedToFront(len) ==
    [i \in 0..MaxBufferSize - 1 |->
        IF i < len THEN ByteAt(i + mReadIndex) ELSE mBuffer[i]]

\* Mutants: the new bytes are not moved along; nothing is moved at all;
\* the indices are left where they were.
CompactOldBytesOnly(n) ==
    /\ mBuffer' = MovedToFront(GetFilledBufLen)
    /\ mReadIndex' = 0
    /\ mWriteIndex' = GetFilledBufLen + n
CompactWithoutCopy(n) ==
    /\ UNCHANGED mBuffer
    /\ mReadIndex' = 0
    /\ mWriteIndex' = GetFilledBufLen + n
CompactNothing(n) ==
    /\ mWriteIndex' = mWriteIndex + n
    /\ UNCHANGED <<mBuffer, mReadIndex>>

Compact(n) ==
    /\ mBuffer' = MovedToFront(GetFilledBufLen + n)
    /\ mReadIndex' = 0
    /\ mWriteIndex' = GetFilledBufLen + n

ShiftWritePtr(n) ==
    IF GetLeftBufLen < n
    THEN UNCHANGED buffer
    ELSE /\ mRemainSize' = mRemainSize - n
         /\ \/ GetLeftBufLen = n /\ Compact(n)
            \/ /\ GetLeftBufLen > n
               /\ mWriteIndex' = mWriteIndex + n
               /\ UNCHANGED <<mBuffer, mReadIndex>>

\* With mReadIndex before the array, line 46 copies more bytes than it has.
Overruns(n) == GetLeftBufLen = n /\ GetFilledBufLen + n > MaxBufferSize

BufReadPtr(size) ==
    /\ mReadIndex' = mReadIndex + size
    /\ mRemainSize' = mRemainSize + size
    /\ UNCHANGED <<mBuffer, mWriteIndex>>

\* Mutant: only the indices are reset.
ClearIndicesOnly ==
    /\ mReadIndex' = 0
    /\ mWriteIndex' = 0
    /\ UNCHANGED <<mBuffer, mRemainSize>>

Clear ==
    /\ mReadIndex' = 0
    /\ mWriteIndex' = 0
    /\ mRemainSize' = MaxBufferSize
    /\ UNCHANGED mBuffer

-----------------------------------------------------------------------------
Init ==
    /\ mBuffer = [i \in 0..MaxBufferSize - 1 |-> NoByte]
    /\ mReadIndex = 0 /\ mWriteIndex = 0 /\ mRemainSize = MaxBufferSize
    /\ open = FALSE /\ pc = "free" /\ recvLen = 0 /\ bytes = 0
    /\ sizeAt = [p \in {} |-> 0] /\ sentEnd = 0 /\ received = 0
    /\ peerOpen = FALSE /\ sessions = 0
    /\ frontier = 0 /\ last = NoByte /\ dirty = FALSE /\ lost = FALSE

(* A FREE slot is given to a new connection.  NetBuffer is not cleared: its *)
(* indices, and any unread bytes, are those the last session left.  The     *)
(* first receive fails, unnoticed, if the peer has reset already.           *)
AcceptNewClient ==
    /\ ~open /\ pc = "free" /\ sessions < MaxSessions
    /\ sessions' = sessions + 1
    /\ open' = TRUE
    /\ frontier' = received
    /\ dirty' = (dirty \/ GetFilledBufLen > 0)
    /\ recvLen' = GetLeftBufLen
    /\ \/ peerOpen' = TRUE /\ pc' = "posted"
       \/ peerOpen' = FALSE /\ UNCHANGED pc
    /\ UNCHANGED <<buffer, bytes, sizeAt, sentEnd, received, last, lost>>

(* The same while the buffer is still in use for the former session: only  *)
(* mState is looked at.                                                    *)
AcceptWhileInUse ==
    /\ ~open /\ pc # "free" /\ Defined /\ sessions < MaxSessions
    /\ sessions' = sessions + 1
    /\ open' = TRUE
    /\ pc' = "shared"
    /\ UNCHANGED <<buffer, recvLen, bytes, history>>
    /\ UNCHANGED <<sizeAt, sentEnd, received, peerOpen>>

(* NetClient sends one whole packet. *)
ClientSend(size) ==
    /\ peerOpen /\ Defined
    /\ sentEnd + size <= MaxStream
    /\ lost \/ sentEnd + size - frontier <= Window
    /\ sizeAt' = [p \in DOMAIN sizeAt \cup {sentEnd} |->
                      IF p = sentEnd THEN size ELSE sizeAt[p]]
    /\ sentEnd' = sentEnd + size
    /\ UNCHANGED <<buffer, io, open, received, peerOpen, sessions, history>>

(* The peer closes or vanishes: what the server can still receive ends at  *)
(* `cut', anywhere in the unreceived stream, even inside a packet.         *)
ClientClose(cut) ==
    /\ peerOpen /\ Defined
    /\ peerOpen' = FALSE
    /\ sentEnd' = cut
    /\ sizeAt' = Restrict(sizeAt, {p \in DOMAIN sizeAt : p < cut})
    /\ UNCHANGED <<buffer, io, open, received, sessions, history>>

(* The kernel completes the posted receive with n > 0 bytes, which it has  *)
(* copied to BufWritePtr.                                                  *)
RecvComplete(n) ==
    /\ pc = "posted"
    /\ n <= recvLen
    /\ mBuffer' = [i \in 0..MaxBufferSize - 1 |->
                       IF i \in mWriteIndex .. mWriteIndex + n - 1
                       THEN received + (i - mWriteIndex)
                       ELSE mBuffer[i]]
    /\ received' = received + n
    /\ bytes' = n
    /\ pc' = "completed"
    /\ UNCHANGED <<mReadIndex, mWriteIndex, mRemainSize, recvLen>>
    /\ UNCHANGED <<open, sizeAt, sentEnd, peerOpen, sessions, history>>

(* It completes it with 0 bytes, or as failed: the stream has ended, the   *)
(* socket was closed, or data is there but there was no room for it.       *)
RecvCompleteEmpty ==
    /\ pc = "posted"
    /\ \/ ~peerOpen /\ received = sentEnd
       \/ recvLen = 0 /\ received < sentEnd
    /\ bytes' = 0
    /\ pc' = "completed"
    /\ UNCHANGED <<buffer, recvLen, stream, history>>

\* Session::Disconnect and what it cuts off: bytes not yet received.
Hangup ==
    /\ open' = FALSE
    /\ peerOpen' = FALSE
    /\ sentEnd' = received
    /\ sizeAt' = Restrict(sizeAt, {p \in DOMAIN sizeAt : p < received})
    /\ UNCHANGED <<received, sessions>>

(* A failed completion, or one without bytes, disconnects the slot...      *)
HandleEmptyRecv ==
    /\ pc = "completed" /\ bytes = 0
    /\ pc' = "free"
    /\ Hangup
    /\ UNCHANGED <<buffer, recvLen, bytes, history>>

(* ...and some bytes are taken into the buffer. *)
HandleRecv ==
    /\ pc = "completed" /\ bytes > 0
    /\ ShiftWritePtr(bytes)
    /\ bytes' = 0
    /\ pc' = IF Overruns(bytes) THEN "wild" ELSE "process"
    /\ UNCHANGED <<recvLen, stream, history>>

(* The slot is disconnected by someone else than the handler of an empty   *)
(* receive: by a refused login, from within ProcessPackets, or by the      *)
(* worker that handles a failed or short SEND.  A receive under way, and a *)
(* handler that works on the buffer, are not stopped.                      *)
DisconnectElsewhere ==
    /\ open /\ Defined
    /\ Hangup
    /\ UNCHANGED <<buffer, io, history>>

\* The bytes at mReadIndex are the packet the session expects next.
InOrder == ByteAt(mReadIndex) = frontier /\ frontier \in DOMAIN sizeAt

(* One iteration of ProcessPackets: what stands at mReadIndex is dispatched *)
(* as a packet of `size' bytes.                                             *)
ProcessPacket(size) ==
    /\ pc = "process"
    /\ Readable(size)
    /\ mReadIndex + size >= -MaxBack
    /\ BufReadPtr(size)
    /\ last' = IF dirty THEN last ELSE ByteAt(mReadIndex)
    /\ \/ InOrder /\ frontier' = frontier + size /\ UNCHANGED lost
       \/ ~InOrder /\ lost' = TRUE /\ UNCHANGED frontier
    /\ UNCHANGED <<io, stream, dirty>>

(* The same, for bytes that are no packet: their type byte may be unknown, *)
(* and then the whole buffer is dropped.                                   *)
ProcessUnknownPacket(size) ==
    /\ pc = "process"
    /\ Readable(size)
    /\ ~InOrder
    /\ Clear
    /\ lost' = TRUE
    /\ UNCHANGED <<io, stream, frontier, dirty, last>>

\* Mutant: the receive is posted with all free bytes, contiguous or not.
RecvMsgAllFree ==
    /\ pc = "process"
    /\ Unreadable
    /\ recvLen' = mRemainSize
    /\ pc' = "posted"
    /\ UNCHANGED <<buffer, bytes, stream, history>>

(* Session::RecvMsg: with nothing readable left, Reset(OP::RECV) points    *)
(* the next receive at what follows mWriteIndex.  On a closed socket, and  *)
(* perhaps on one whose peer is gone, WSARecv fails and nobody looks.      *)
RecvMsg ==
    /\ pc = "process"
    /\ Unreadable
    /\ recvLen' = GetLeftBufLen
    /\ \/ open /\ pc' = "posted"
       \/ ~peerOpen /\ pc' = "free"
    /\ UNCHANGED <<buffer, bytes, stream, history>>

-----------------------------------------------------------------------------
(* The model's bounds are used up and the slot is free, or it stops here.  *)
Quiet ==
    /\ \/ ~open /\ pc = "free" /\ sessions = MaxSessions
       \/ ~Defined
    /\ UNCHANGED vars

Worker == \/ HandleEmptyRecv
          \/ HandleRecv
          \/ \E size \in Bytes : ProcessPacket(size) \/ ProcessUnknownPacket(size)
          \/ RecvMsg

Kernel == \/ \E n \in 1..(sentEnd - received) : RecvComplete(n)
          \/ RecvCompleteEmpty

Client == \/ \E size \in Sizes : ClientSend(size)
          \/ \E cut \in received..sentEnd : ClientClose(cut)

Next == \/ AcceptNewClient \/ AcceptWhileInUse \/ DisconnectElsewhere
        \/ Client \/ Kernel \/ Worker \/ Quiet

Spec == Init /\ [][Next]_vars

(* The network delivers what was sent and the six worker threads keep      *)
(* taking completions; clients owe nothing.                                *)
FairSpec == Spec /\ WF_vars(Kernel) /\ WF_vars(Worker)

-----------------------------------------------------------------------------
TypeOK ==
    /\ mBuffer \in [0..MaxBufferSize - 1 -> Int]
    /\ mReadIndex \in Int /\ mWriteIndex \in Nat /\ mRemainSize \in Int
    /\ pc \in {"free", "posted", "completed", "process", "wild", "shared"}
    /\ recvLen \in Nat /\ bytes \in Nat
    /\ DOMAIN sizeAt \subseteq Nat
    /\ sizeAt \in [DOMAIN sizeAt -> Sizes]
    /\ sentEnd \in Nat /\ received \in Nat /\ sessions \in Nat
    /\ open \in BOOLEAN
    /\ peerOpen \in BOOLEAN /\ dirty \in BOOLEAN /\ lost \in BOOLEAN
    /\ frontier \in Int /\ last \in Int

(* mRemainSize, kept by its own additions and subtractions, always agrees  *)
(* with the two indices, which stay in order, through compactions, Clear   *)
(* and slot reuse, and whatever byte is taken for a size (ShiftWritePtr,   *)
(* BufReadPtr).  The read index leaves the array only where bytes that are *)
(* no packet were taken for one.                                           *)
IndicesAgree ==
    pc # "shared" =>
        /\ mReadIndex <= mWriteIndex
        /\ mRemainSize = MaxBufferSize - (mWriteIndex - mReadIndex)
        /\ mReadIndex < 0 => lost

(* The kernel never writes outside the buffer, and what it wrote is never  *)
(* refused by ShiftWritePtr's "Unable to shift" return: the length posted  *)
(* by RecvMsg is still the room left when the completion is handled.  The  *)
(* write index leaves the array, so that the next length would be a huge   *)
(* one, only after bytes that are no packet were taken for one.            *)
NeverOverflows ==
    pc # "shared" =>
        /\ pc = "completed" => bytes <= GetLeftBufLen
        /\ mWriteIndex > MaxBufferSize => lost

(* The write index reaches the end of the array, or passes it, only if     *)
(* every byte of the array is unread: compaction leaves no free byte       *)
(* unusable at the moment it runs (ShiftWritePtr).                         *)
EndMeansFull ==
    [][pc' # "shared" /\ mWriteIndex < MaxBufferSize /\ mWriteIndex' >= MaxBufferSize
           => mRemainSize' <= 0]_vars

(* A client that never leaves a full buffer unprocessed always finds a     *)
(* receive with room, so no 0-byte completion disconnects it.              *)
HealthyNeverDropped ==
    pc = "posted" /\ Window < MaxBufferSize /\ ~dirty => recvLen > 0

(* Every dispatch takes the packet at the frontier - each packet of the    *)
(* session once, in order, whole - unless some session of the slot began   *)
(* with bytes of the one before it unread in NetBuffer, or before the one  *)
(* before it had let go of the buffer.                                     *)
LostOnlyAfterDirtyClose == pc # "shared" /\ lost => dirty

(* A packet that was sent is dispatched, or its connection ends. *)
SentIsDispatched ==
    \A p \in 0..MaxStream :
        p \in DOMAIN sizeAt ~> (frontier > p \/ ~peerOpen)
=============================================================================
