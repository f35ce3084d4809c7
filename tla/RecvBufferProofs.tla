-------------------------- MODULE RecvBufferProofs --------------------------
(***************************************************************************)
(* Theorems about RecvBuffer, for every buffer size, every set of packet   *)
(* sizes and every number of sessions.                                     *)
(*                                                                         *)
(* IndexInv is inductive on its own.  ContentInv says where in the stream  *)
(* every unread byte of the buffer comes from, FramingInv that the read    *)
(* index stands on a packet boundary, RoomInv that the write index is off  *)
(* the end of the array; each is inductive relative to the ones before it. *)
(***************************************************************************)
EXTENDS MCRecvBuffer, TLAPS

PostedInv ==
    /\ pc = "posted" => recvLen = MaxBufferSize - mWriteIndex
    /\ pc = "completed" => bytes <= MaxBufferSize - mWriteIndex
    /\ pc \notin {"completed", "shared"} => bytes = 0

AgreeInv ==
    /\ mReadIndex <= mWriteIndex
    /\ mRemainSize = MaxBufferSize - (mWriteIndex - mReadIndex)
    /\ mReadIndex < 0 => lost
    /\ mWriteIndex > MaxBufferSize => pc = "wild"
    /\ pc = "wild" => lost

IndexInv == TypeOK /\ AgreeInv /\ PostedInv

(* What the proofs below use of IndexInv, as plain arithmetic. *)
LEMMA IndexFacts ==
    ASSUME IndexInv
    PROVE  /\ MaxBufferSize \in Nat /\ MaxBufferSize > 0
           /\ mReadIndex \in Int /\ mWriteIndex \in Nat /\ mRemainSize \in Int
           /\ received \in Nat /\ bytes \in Nat /\ recvLen \in Nat
           /\ mReadIndex <= mWriteIndex
           /\ mRemainSize = MaxBufferSize - (mWriteIndex - mReadIndex)
           /\ mBuffer \in [0..MaxBufferSize - 1 -> Int]
           /\ pc # "wild" => mWriteIndex <= MaxBufferSize
           /\ ~lost => mReadIndex \in Nat /\ mWriteIndex <= MaxBufferSize
<1>1. /\ MaxBufferSize \in Nat /\ MaxBufferSize > 0
      /\ mReadIndex \in Int /\ mWriteIndex \in Nat /\ mRemainSize \in Int
      /\ received \in Nat /\ bytes \in Nat /\ recvLen \in Nat
      /\ mBuffer \in [0..MaxBufferSize - 1 -> Int]
  BY BufferAssumption DEF BufferAssumption, IndexInv, TypeOK
<1> QED
  BY <1>1 DEF IndexInv, AgreeInv

(* Every byte the code may look at is an integer of the model. *)
LEMMA ByteFacts ==
    ASSUME IndexInv, NEW i \in Int
    PROVE  ByteAt(i) \in Int
BY IndexFacts DEF ByteAt, NoByte

LEMMA SizeFacts ==
    /\ \A size \in Sizes : size \in Nat /\ size > 0
    /\ \A size \in Bytes : size \in Int
BY BufferAssumption, SizesAssumption, BytesAssumption
   DEF BufferAssumption, SizesAssumption, BytesAssumption

(* Bytes that are dispatched in order have the size of a packet. *)
LEMMA InOrderSize ==
    ASSUME NEW size \in Bytes, Readable(size), InOrder, IndexInv
    PROVE  size = sizeAt[frontier] /\ size \in Nat /\ size > 0
<1>1. size \in PeekNextPacketSize
  BY Zenon DEF Readable
<1>2. size = sizeAt[frontier] /\ frontier \in DOMAIN sizeAt
  BY <1>1 DEF PeekNextPacketSize, InOrder
<1>3. sizeAt[frontier] \in Sizes
  BY <1>2 DEF IndexInv, TypeOK
<1> QED
  BY <1>2, <1>3, SizeFacts

(* A receive that fits keeps the indices of BufferQueue in agreement, and  *)
(* inside the array if the read index is.                                  *)
LEMMA ShiftIndices ==
    ASSUME IndexInv, pc # "wild", bytes <= GetLeftBufLen, ShiftWritePtr(bytes)
    PROVE  /\ mBuffer' \in [0..MaxBufferSize - 1 -> Int]
           /\ mReadIndex' \in Int /\ mWriteIndex' \in Nat /\ mRemainSize' \in Int
           /\ mReadIndex' <= mWriteIndex'
           /\ mRemainSize' = MaxBufferSize - (mWriteIndex' - mReadIndex')
           /\ mReadIndex' < 0 => mReadIndex < 0
           /\ mWriteIndex' > MaxBufferSize => Overruns(bytes)
           /\ Overruns(bytes) => mReadIndex < 0
<1> DEFINE n == bytes
<1>0. /\ MaxBufferSize \in Nat /\ MaxBufferSize > 0 /\ n \in Nat
      /\ mReadIndex \in Int /\ mWriteIndex \in Nat /\ mRemainSize \in Int
      /\ mReadIndex <= mWriteIndex /\ mWriteIndex <= MaxBufferSize
      /\ mRemainSize = MaxBufferSize - (mWriteIndex - mReadIndex)
      /\ mBuffer \in [0..MaxBufferSize - 1 -> Int]
  BY IndexFacts
<1>1. /\ GetLeftBufLen = MaxBufferSize - mWriteIndex
      /\ GetFilledBufLen = mWriteIndex - mReadIndex
      /\ ~(GetLeftBufLen < n)
  BY <1>0 DEF GetLeftBufLen, GetFilledBufLen
<1>2. mRemainSize' = mRemainSize - n
  BY <1>1 DEF ShiftWritePtr
<1>3. Overruns(n) => mReadIndex < 0
  BY <1>0, <1>1 DEF Overruns
<1>4. CASE GetLeftBufLen = n
  <2>1. Compact(n)
    BY <1>1, <1>4 DEF ShiftWritePtr
  <2>2. /\ mBuffer' = MovedToFront(GetFilledBufLen + n)
        /\ mReadIndex' = 0
        /\ mWriteIndex' = (mWriteIndex - mReadIndex) + n
    BY <1>1, <2>1 DEF Compact
  <2>3. \A i \in 0..MaxBufferSize - 1 : ByteAt(i + mReadIndex) \in Int
    BY <1>0, ByteFacts
  <2>4. mBuffer' \in [0..MaxBufferSize - 1 -> Int]
    BY <2>2, <2>3, <1>0 DEF MovedToFront
  <2>5. mWriteIndex' > MaxBufferSize => Overruns(n)
    BY <1>0, <1>1, <1>4, <2>2 DEF Overruns
  <2>6. /\ mReadIndex' <= mWriteIndex'
        /\ mRemainSize' = MaxBufferSize - (mWriteIndex' - mReadIndex')
        /\ mWriteIndex' \in Nat /\ mRemainSize' \in Int /\ mReadIndex' \in Int
        /\ ~(mReadIndex' < 0)
    BY <1>1, <1>2, <1>4, <2>2, <1>0
  <2> QED
    BY <1>3, <2>4, <2>5, <2>6
<1>5. CASE GetLeftBufLen # n
  <2>1. /\ mWriteIndex' = mWriteIndex + n
        /\ mBuffer' = mBuffer /\ mReadIndex' = mReadIndex
    BY <1>1, <1>5 DEF ShiftWritePtr
  <2>2. /\ mReadIndex' <= mWriteIndex' /\ ~(mWriteIndex' > MaxBufferSize)
        /\ mRemainSize' = MaxBufferSize - (mWriteIndex' - mReadIndex')
        /\ mWriteIndex' \in Nat /\ mRemainSize' \in Int /\ mReadIndex' \in Int
    BY <1>1, <1>2, <1>5, <2>1, <1>0
  <2> QED
    BY <1>3, <2>1, <2>2, <1>0
<1> QED
  BY <1>4, <1>5

LEMMA IndexInvInit == Init => IndexInv
<1> SUFFICES ASSUME Init
             PROVE  IndexInv
  OBVIOUS
<1>1. MaxBufferSize \in Nat /\ MaxBufferSize > 0
  BY BufferAssumption DEF BufferAssumption
<1>2. mBuffer \in [0..MaxBufferSize - 1 -> Int]
  BY <1>1 DEF Init, NoByte
<1>3. DOMAIN sizeAt \subseteq Nat /\ sizeAt \in [DOMAIN sizeAt -> Sizes]
  BY DEF Init
<1>4. AgreeInv /\ PostedInv
  BY <1>1 DEF Init, AgreeInv, PostedInv
<1>5. open \in BOOLEAN /\ peerOpen \in BOOLEAN /\ dirty \in BOOLEAN /\ lost \in BOOLEAN
  BY Zenon DEF Init
<1>6. /\ mReadIndex = 0 /\ mWriteIndex = 0 /\ mRemainSize = MaxBufferSize
      /\ recvLen = 0 /\ bytes = 0
      /\ sentEnd = 0 /\ received = 0 /\ sessions = 0
      /\ frontier = 0 /\ last = NoByte
  BY Zenon DEF Init
<1>7. /\ mReadIndex \in Int /\ mWriteIndex \in Nat /\ mRemainSize \in Int
      /\ recvLen \in Nat /\ bytes \in Nat
      /\ sentEnd \in Nat /\ received \in Nat /\ sessions \in Nat
      /\ frontier \in Int /\ last \in Int
  BY <1>1, <1>6 DEF NoByte
<1>8. pc \in {"free", "posted", "completed", "process", "wild", "shared"}
  BY DEF Init
<1> QED
  BY <1>2, <1>3, <1>4, <1>5, <1>7, <1>8 DEF IndexInv, TypeOK

LEMMA IndexInvNext == IndexInv /\ [Next]_vars => IndexInv'
<1> SUFFICES ASSUME IndexInv, [Next]_vars
             PROVE  IndexInv'
  OBVIOUS
<1>0. MaxBufferSize \in Nat /\ MaxBufferSize > 0
  BY BufferAssumption DEF BufferAssumption
<1> USE <1>0 DEF IndexInv, TypeOK, AgreeInv, PostedInv
<1>1. CASE AcceptNewClient
  <2>1. /\ UNCHANGED <<buffer, bytes, sizeAt, sentEnd, received, last, lost>>
        /\ pc = "free" /\ pc' \in {"free", "posted"}
        /\ recvLen' = MaxBufferSize - mWriteIndex
        /\ sessions' = sessions + 1 /\ frontier' = received
    BY <1>1 DEF AcceptNewClient, GetLeftBufLen
  <2>2. peerOpen' \in BOOLEAN /\ dirty' \in BOOLEAN /\ open' \in BOOLEAN
    BY <1>1, Zenon DEF AcceptNewClient
  <2>3. TypeOK'
    BY <2>1, <2>2 DEF buffer
  <2>4. AgreeInv' /\ PostedInv'
    BY <2>1 DEF buffer
  <2> QED
    BY <2>3, <2>4
<1>2. CASE \E size \in Sizes : ClientSend(size)
  <2> PICK size \in Sizes : ClientSend(size)
    BY <1>2
  <2>1. size \in Nat
    BY SizeFacts
  <2>2. DOMAIN sizeAt' \subseteq Nat /\ sizeAt' \in [DOMAIN sizeAt' -> Sizes]
    BY DEF ClientSend
  <2>3. sentEnd' \in Nat
    BY <2>1 DEF ClientSend
  <2> QED
    BY <2>2, <2>3 DEF ClientSend, buffer, io, history
<1>3. CASE \E cut \in received..sentEnd : ClientClose(cut)
  <2> PICK cut \in received..sentEnd : ClientClose(cut)
    BY <1>3
  <2>1. DOMAIN sizeAt' \subseteq Nat /\ sizeAt' \in [DOMAIN sizeAt' -> Sizes]
    BY DEF ClientClose, Restrict
  <2>2. sentEnd' \in Nat
    BY DEF ClientClose
  <2> QED
    BY <2>1, <2>2 DEF ClientClose, buffer, io, history
<1>4. CASE \E n \in 1..(sentEnd - received) : RecvComplete(n)
  <2> PICK n \in 1..(sentEnd - received) : RecvComplete(n)
    BY <1>4
  <2>0. mBuffer' = [i \in 0..MaxBufferSize - 1 |->
                       IF i \in mWriteIndex .. mWriteIndex + n - 1
                       THEN received + (i - mWriteIndex)
                       ELSE mBuffer[i]]
    BY Zenon DEF RecvComplete
  <2>1. mBuffer' \in [0..MaxBufferSize - 1 -> Int]
    <3>1. \A i \in 0..MaxBufferSize - 1 :
              /\ mBuffer[i] \in Int
              /\ received + (i - mWriteIndex) \in Int
      <4>1. /\ mBuffer \in [0..MaxBufferSize - 1 -> Int]
            /\ mWriteIndex \in Int /\ received \in Int
        OBVIOUS
      <4> HIDE DEF IndexInv, TypeOK, IndicesAgree, PostedInv
      <4> QED
        BY <4>1
    <3> HIDE DEF IndexInv, TypeOK, IndicesAgree, PostedInv
    <3> QED
      BY <2>0, <3>1
  <2>2. n \in Nat /\ bytes' = n /\ pc' = "completed" /\ UNCHANGED history
    BY DEF RecvComplete
  <2>3. /\ UNCHANGED <<mReadIndex, mWriteIndex, mRemainSize, recvLen>>
        /\ UNCHANGED <<open, sizeAt, sentEnd, peerOpen, sessions>>
        /\ received' = received + n /\ n <= recvLen /\ pc = "posted"
    BY DEF RecvComplete
  <2>4. received' \in Nat
    BY <2>2, <2>3
  <2>5. TypeOK'
    BY <2>1, <2>2, <2>3, <2>4 DEF history
  <2>6. AgreeInv' /\ PostedInv'
    BY <2>2, <2>3 DEF history
  <2> QED
    BY <2>5, <2>6
<1>5. CASE RecvCompleteEmpty
  <2>1. /\ UNCHANGED <<buffer, recvLen, stream, history>>
        /\ bytes' = 0 /\ pc' = "completed"
    BY <1>5 DEF RecvCompleteEmpty
  <2>2. TypeOK'
    BY <2>1 DEF buffer, stream, history
  <2>3. AgreeInv' /\ PostedInv'
    BY <1>5, <2>1 DEF buffer, history, RecvCompleteEmpty
  <2> QED
    BY <2>2, <2>3
<1>6. CASE HandleEmptyRecv
  <2>1. /\ UNCHANGED <<buffer, recvLen, bytes, received, sessions, history>>
        /\ bytes = 0 /\ pc' = "free" /\ peerOpen' = FALSE /\ sentEnd' = received
        /\ open' = FALSE /\ pc = "completed"
    BY <1>6 DEF HandleEmptyRecv, Hangup
  <2>2. DOMAIN sizeAt' \subseteq Nat /\ sizeAt' \in [DOMAIN sizeAt' -> Sizes]
    BY <1>6 DEF HandleEmptyRecv, Hangup, Restrict
  <2>3. TypeOK'
    BY <2>1, <2>2 DEF buffer, history
  <2>4. AgreeInv' /\ PostedInv'
    BY <2>1 DEF buffer, history
  <2> QED
    BY <2>3, <2>4
<1>7. CASE HandleRecv
  <2>1. bytes <= GetLeftBufLen /\ ShiftWritePtr(bytes) /\ pc # "wild"
    BY <1>7 DEF HandleRecv, GetLeftBufLen
  <2>2. /\ mBuffer' \in [0..MaxBufferSize - 1 -> Int]
        /\ mReadIndex' \in Int /\ mWriteIndex' \in Nat /\ mRemainSize' \in Int
        /\ mReadIndex' <= mWriteIndex'
        /\ mRemainSize' = MaxBufferSize - (mWriteIndex' - mReadIndex')
        /\ mReadIndex' < 0 => mReadIndex < 0
        /\ mWriteIndex' > MaxBufferSize => Overruns(bytes)
        /\ Overruns(bytes) => mReadIndex < 0
    BY <2>1, ShiftIndices
  <2>3. /\ pc' = IF Overruns(bytes) THEN "wild" ELSE "process"
        /\ bytes' = 0 /\ UNCHANGED <<recvLen, stream, history>>
    BY <1>7 DEF HandleRecv
  <2>4. TypeOK'
    BY <2>2, <2>3 DEF stream, history
  <2>5. AgreeInv' /\ PostedInv'
    BY <2>2, <2>3 DEF history
  <2> QED
    BY <2>4, <2>5
<1>8. CASE \E size \in Bytes : ProcessPacket(size)
  <2> PICK size \in Bytes : ProcessPacket(size)
    BY <1>8
  <2>1. /\ mReadIndex < mWriteIndex /\ size <= mWriteIndex - mReadIndex
        /\ size \in Int /\ pc = "process"
    BY SizeFacts DEF ProcessPacket, Readable, GetFilledBufLen
  <2>2. ByteAt(mReadIndex) \in Int
    BY ByteFacts
  <2>3. /\ InOrder => size > 0
        /\ InOrder \/ lost'
        /\ lost => lost'
        /\ lost' \in BOOLEAN
    <3>1. InOrder => size > 0
      BY InOrderSize DEF ProcessPacket
    <3>2. (InOrder \/ lost') /\ (lost => lost') /\ lost' \in BOOLEAN
      <4>1. lost \in BOOLEAN
        OBVIOUS
      <4>2. (InOrder /\ lost' = lost) \/ lost' = TRUE
        BY Zenon DEF ProcessPacket
      <4> HIDE DEF IndexInv, TypeOK, AgreeInv, PostedInv
      <4> QED
        BY <4>1, <4>2
    <3> QED
      BY <3>1, <3>2
  <2>4. /\ mReadIndex' = mReadIndex + size /\ mRemainSize' = mRemainSize + size
        /\ mWriteIndex' = mWriteIndex /\ mBuffer' = mBuffer
    BY DEF ProcessPacket, BufReadPtr
  <2>5. frontier' \in Int /\ last' \in Int
    BY <2>1, <2>2 DEF ProcessPacket
  <2>6. /\ UNCHANGED <<io, stream, dirty>>
    BY DEF ProcessPacket
  <2>7. TypeOK'
    <3>1. /\ mReadIndex' \in Int /\ mWriteIndex' \in Nat /\ mRemainSize' \in Int
          /\ mBuffer' \in [0..MaxBufferSize - 1 -> Int]
      BY <2>1, <2>4
    <3>2. /\ pc' \in {"free", "posted", "completed", "process", "wild", "shared"}
          /\ recvLen' \in Nat /\ bytes' \in Nat
      BY <2>6 DEF io
    <3>3. /\ DOMAIN sizeAt' \subseteq Nat
          /\ sizeAt' \in [DOMAIN sizeAt' -> Sizes]
          /\ sentEnd' \in Nat /\ received' \in Nat /\ sessions' \in Nat
      BY <2>6 DEF stream
    <3>4. open' \in BOOLEAN /\ peerOpen' \in BOOLEAN /\ dirty' \in BOOLEAN
      BY <2>6 DEF stream
    <3> QED
      BY <2>3, <2>5, <3>1, <3>2, <3>3, <3>4
  <2>8. mReadIndex' < 0 => lost'
    BY <2>1, <2>3, <2>4
  <2>9. AgreeInv'
    BY <2>1, <2>4, <2>6, <2>8 DEF io
  <2>10. PostedInv'
    BY <2>4, <2>6 DEF io
  <2> QED
    BY <2>7, <2>9, <2>10
<1>9. CASE \E size \in Bytes : ProcessUnknownPacket(size)
  <2> PICK size \in Bytes : ProcessUnknownPacket(size)
    BY <1>9
  <2>1. /\ mReadIndex' = 0 /\ mWriteIndex' = 0 /\ mRemainSize' = MaxBufferSize
        /\ mBuffer' = mBuffer /\ lost' /\ lost' \in BOOLEAN /\ pc = "process"
        /\ UNCHANGED <<io, stream, frontier, dirty, last>>
    BY DEF ProcessUnknownPacket, Clear
  <2>2. TypeOK'
    BY <2>1 DEF io, stream
  <2>3. AgreeInv' /\ PostedInv'
    BY <2>1 DEF io
  <2> QED
    BY <2>2, <2>3
<1>10. CASE RecvMsg
  <2>1. /\ UNCHANGED <<buffer, bytes, stream, history>>
        /\ recvLen' = MaxBufferSize - mWriteIndex
        /\ pc = "process" /\ pc' \in {"posted", "free"}
    BY <1>10 DEF RecvMsg, GetLeftBufLen
  <2>2. TypeOK'
    BY <2>1 DEF buffer, stream, history
  <2>3. AgreeInv' /\ PostedInv'
    BY <2>1 DEF buffer, history
  <2> QED
    BY <2>2, <2>3
<1>11. CASE Quiet \/ UNCHANGED vars
  BY <1>11 DEF Quiet, vars, buffer, io, stream, history
<1>12. CASE AcceptWhileInUse
  <2>1. /\ UNCHANGED <<buffer, recvLen, bytes, history>>
        /\ UNCHANGED <<sizeAt, sentEnd, received, peerOpen>>
        /\ sessions' = sessions + 1 /\ open' = TRUE /\ pc' = "shared"
        /\ pc # "wild"
    BY <1>12 DEF AcceptWhileInUse, Defined
  <2>2. TypeOK'
    BY <2>1 DEF buffer, history
  <2>3. AgreeInv' /\ PostedInv'
    BY <2>1 DEF buffer, history
  <2> QED
    BY <2>2, <2>3
<1>13. CASE DisconnectElsewhere
  <2>1. /\ UNCHANGED <<buffer, io, history, received, sessions>>
        /\ peerOpen' = FALSE /\ sentEnd' = received /\ open' = FALSE
    BY <1>13 DEF DisconnectElsewhere, Hangup
  <2>2. DOMAIN sizeAt' \subseteq Nat /\ sizeAt' \in [DOMAIN sizeAt' -> Sizes]
    BY <1>13 DEF DisconnectElsewhere, Hangup, Restrict
  <2>3. TypeOK'
    BY <2>1, <2>2 DEF buffer, io, history
  <2>4. AgreeInv' /\ PostedInv'
    BY <2>1 DEF buffer, io, history
  <2> QED
    BY <2>3, <2>4
<1> QED
  BY <1>1, <1>2, <1>3, <1>4, <1>5, <1>6, <1>7, <1>8, <1>9, <1>10, <1>11,
     <1>12, <1>13
     DEF Next, Client, Kernel, Worker

(* mRemainSize agrees with the indices in every state, and the read index  *)
(* stands before the array only after bytes that are no packet were taken  *)
(* for one (BufferQueue).                                                  *)
THEOREM IndicesAlwaysAgree == Spec => [](TypeOK /\ IndicesAgree)
<1>1. IndexInv => TypeOK /\ IndicesAgree
  BY DEF IndexInv, AgreeInv, IndicesAgree
<1> QED
  BY IndexInvInit, IndexInvNext, <1>1, PTL DEF Spec

LEMMA IndexInvAlways == Spec => []IndexInv
BY IndexInvInit, IndexInvNext, PTL DEF Spec

(* No completion ever carries more bytes than the buffer has room for, and *)
(* the write index leaves the array only after bytes that are no packet    *)
(* were taken for one (RecvMsg, ShiftWritePtr, BufReadPtr).                *)
THEOREM NoOverflow == Spec => []NeverOverflows
<1>1. IndexInv => NeverOverflows
  BY DEF IndexInv, AgreeInv, PostedInv, NeverOverflows, GetLeftBufLen
<1> QED
  BY IndexInvAlways, <1>1, PTL

-----------------------------------------------------------------------------
(* Until bytes are taken for a packet that are none, the bytes from        *)
(* mReadIndex on, those of a completion not yet handled included, are the  *)
(* last ones received, in order.                                           *)
Pending == mWriteIndex + bytes

ContentInv ==
    ~lost => \A i \in 0..MaxBufferSize - 1 :
        mReadIndex <= i /\ i < Pending => mBuffer[i] = received - (Pending - i)

(* Once lost, always lost; once dirty, always dirty. *)
LEMMA LostStays == [Next]_vars /\ lost => lost'
BY DEF Next, Client, Kernel, Worker, AcceptNewClient, AcceptWhileInUse,
   DisconnectElsewhere, ClientSend, ClientClose,
   RecvComplete, RecvCompleteEmpty, HandleEmptyRecv, HandleRecv, RecvMsg,
   ProcessPacket, ProcessUnknownPacket, Quiet, vars, history

LEMMA DirtyStays == [Next]_vars /\ dirty => dirty'
BY DEF Next, Client, Kernel, Worker, AcceptNewClient, AcceptWhileInUse,
   DisconnectElsewhere, ClientSend, ClientClose,
   RecvComplete, RecvCompleteEmpty, HandleEmptyRecv, HandleRecv, RecvMsg,
   ProcessPacket, ProcessUnknownPacket, Quiet, vars, history

LEMMA ContentInvNext ==
    IndexInv /\ ContentInv /\ [Next]_vars => ContentInv'
<1> SUFFICES ASSUME IndexInv, ContentInv, [Next]_vars, ~lost'
             PROVE  ContentInv'
  BY DEF ContentInv
<1>l. ~lost
  BY LostStays, Zenon
<1>0. /\ MaxBufferSize \in Nat /\ MaxBufferSize > 0
      /\ mReadIndex \in Nat /\ mWriteIndex \in Nat /\ mRemainSize \in Int
      /\ received \in Nat /\ bytes \in Nat
      /\ mReadIndex <= mWriteIndex /\ mWriteIndex <= MaxBufferSize
      /\ mRemainSize = MaxBufferSize - (mWriteIndex - mReadIndex)
      /\ mBuffer \in [0..MaxBufferSize - 1 -> Int]
  BY IndexFacts, <1>l
<1>1. CASE UNCHANGED <<mBuffer, mReadIndex, mWriteIndex, bytes, received>>
  BY <1>1, <1>l DEF ContentInv, Pending
<1>2. ASSUME NEW n \in 1..(sentEnd - received), RecvComplete(n)
      PROVE  ContentInv'
  <2>1. bytes = 0 /\ n \in Nat
    BY <1>0, <1>2 DEF RecvComplete, IndexInv, PostedInv, TypeOK
  <2>2. /\ mReadIndex' = mReadIndex /\ mWriteIndex' = mWriteIndex
        /\ bytes' = n /\ received' = received + n
    BY <1>2 DEF RecvComplete
  <2>3. \A i \in 0..MaxBufferSize - 1 :
            mBuffer'[i] = IF mWriteIndex <= i /\ i < mWriteIndex + n
                          THEN received + (i - mWriteIndex)
                          ELSE mBuffer[i]
    BY <1>0, <1>2, <2>1 DEF RecvComplete
  <2>4. Pending' = mWriteIndex + n
    BY <2>2 DEF Pending
  <2>5. ASSUME NEW i \in 0..MaxBufferSize - 1, mReadIndex' <= i, i < Pending'
        PROVE  mBuffer'[i] = received' - (Pending' - i)
    <3>1. CASE mWriteIndex <= i
      BY <1>0, <2>1, <2>2, <2>3, <2>4, <2>5, <3>1
    <3>2. CASE i < mWriteIndex
      <4>1. mBuffer[i] = received - (mWriteIndex - i)
        BY <1>0, <2>1, <2>2, <2>5, <3>2, <1>l DEF ContentInv, Pending
      <4> QED
        BY <1>0, <2>1, <2>2, <2>3, <2>4, <3>2, <4>1
    <3> QED
      BY <1>0, <3>1, <3>2
  <2> QED
    BY <2>5 DEF ContentInv
<1>3. CASE HandleRecv
  <2>1. /\ bytes <= GetLeftBufLen /\ ShiftWritePtr(bytes)
        /\ bytes' = 0 /\ received' = received
    BY <1>3 DEF HandleRecv, IndexInv, PostedInv, GetLeftBufLen, stream
  <2>2. /\ GetLeftBufLen = MaxBufferSize - mWriteIndex
        /\ GetFilledBufLen = mWriteIndex - mReadIndex
        /\ ~(GetLeftBufLen < bytes)
    BY <1>0, <2>1 DEF GetLeftBufLen, GetFilledBufLen
  <2>3. CASE GetLeftBufLen = bytes
    <3>1. Compact(bytes)
      BY <2>1, <2>2, <2>3 DEF ShiftWritePtr
    <3>2. /\ mBuffer' = MovedToFront(GetFilledBufLen + bytes)
          /\ mReadIndex' = 0
          /\ mWriteIndex' = (mWriteIndex - mReadIndex) + bytes
      BY <2>2, <3>1 DEF Compact
    <3> SUFFICES ASSUME NEW i \in 0..MaxBufferSize - 1,
                        i < (mWriteIndex - mReadIndex) + bytes
                 PROVE  mBuffer'[i] =
                            received - ((mWriteIndex - mReadIndex) + bytes - i)
      BY <1>0, <2>1, <3>2 DEF ContentInv, Pending
    <3>3. /\ i + mReadIndex \in 0..MaxBufferSize - 1 /\ i + mReadIndex \in DOMAIN mBuffer
          /\ mReadIndex <= i + mReadIndex
          /\ i + mReadIndex < mWriteIndex + bytes
      BY <1>0, <2>2, <2>3
    <3>4. mBuffer'[i] = mBuffer[i + mReadIndex]
      BY <1>0, <2>2, <3>2, <3>3 DEF MovedToFront, ByteAt
    <3>5. mBuffer[i + mReadIndex] =
              received - ((mWriteIndex + bytes) - (i + mReadIndex))
      BY <3>3, <1>l DEF ContentInv, Pending
    <3> QED
      BY <1>0, <3>4, <3>5
  <2>4. CASE GetLeftBufLen # bytes
    <3>1. /\ mWriteIndex' = mWriteIndex + bytes
          /\ mBuffer' = mBuffer /\ mReadIndex' = mReadIndex
      BY <1>0, <2>1, <2>2, <2>4 DEF ShiftWritePtr
    <3>2. Pending' = Pending
      BY <1>0, <2>1, <3>1 DEF Pending
    <3> QED
      BY <2>1, <3>1, <3>2, <1>l DEF ContentInv
  <2> QED
    BY <2>3, <2>4
<1>4. ASSUME NEW size \in Bytes, ProcessPacket(size)
      PROVE  ContentInv'
  <2>0. InOrder
    BY <1>4, Zenon DEF ProcessPacket
  <2>1. /\ mReadIndex' = mReadIndex + size /\ size \in Nat
        /\ mWriteIndex' = mWriteIndex /\ mBuffer' = mBuffer
        /\ bytes' = bytes /\ received' = received
    BY <1>4, <2>0, InOrderSize DEF ProcessPacket, BufReadPtr, io, stream
  <2>2. Pending' = Pending
    BY <2>1 DEF Pending
  <2>3. \A i \in 0..MaxBufferSize - 1 : mReadIndex' <= i => mReadIndex <= i
    BY <1>0, <2>1
  <2> QED
    BY <2>1, <2>2, <2>3, <1>l DEF ContentInv
<1>5. ASSUME NEW size \in Bytes, ProcessUnknownPacket(size)
      PROVE  FALSE
  BY <1>5, Zenon DEF ProcessUnknownPacket
<1> QED
  <2>1. CASE \/ AcceptNewClient \/ AcceptWhileInUse \/ DisconnectElsewhere
             \/ Client \/ RecvCompleteEmpty
             \/ HandleEmptyRecv \/ RecvMsg \/ Quiet \/ UNCHANGED vars
    <3>1. RecvCompleteEmpty => bytes' = bytes
      BY DEF RecvCompleteEmpty, IndexInv, PostedInv
    <3>2. UNCHANGED <<mBuffer, mReadIndex, mWriteIndex, bytes, received>>
      BY <2>1, <3>1 DEF AcceptNewClient, AcceptWhileInUse, DisconnectElsewhere,
         Hangup, Client, ClientSend, ClientClose,
         RecvCompleteEmpty, HandleEmptyRecv, RecvMsg, Quiet,
         vars, buffer, io, stream
    <3> QED
      BY <1>1, <3>2
  <2> QED
    BY <1>2, <1>3, <1>4, <1>5, <2>1 DEF Next, Kernel, Worker

-----------------------------------------------------------------------------
(* While no session has ended inside a packet, the read index stands at    *)
(* the first byte of the next packet in the stream, and every packet from  *)
(* there on ends where the next one starts or where the stream ends.       *)
Consumed == received - (Pending - mReadIndex)

ChainInv ==
    \A p \in DOMAIN sizeAt :
        p >= frontier =>
            \/ p + sizeAt[p] \in DOMAIN sizeAt
            \/ p + sizeAt[p] = sentEnd
            \/ p + sizeAt[p] > sentEnd /\ ~peerOpen

StreamInv ==
    /\ received <= sentEnd
    /\ \A p \in DOMAIN sizeAt : p < sentEnd
    /\ ~open => received = sentEnd /\ ~peerOpen

FramingInv ==
    ~dirty => /\ ~lost
              /\ frontier = Consumed
              /\ frontier \in DOMAIN sizeAt \/ frontier >= sentEnd
              /\ sentEnd - frontier <= Window
              /\ ChainInv

(* The receive a clean session posts always has room (RecvMsg). *)
RoomInv == ~dirty /\ Window < MaxBufferSize => mWriteIndex < MaxBufferSize

CleanInv == IndexInv /\ ContentInv /\ StreamInv /\ FramingInv /\ RoomInv

LEMMA StreamInvNext ==
    IndexInv /\ StreamInv /\ [Next]_vars => StreamInv'
<1> SUFFICES ASSUME IndexInv, StreamInv, [Next]_vars
             PROVE  StreamInv'
  OBVIOUS
<1>0. /\ received \in Nat /\ sentEnd \in Nat /\ DOMAIN sizeAt \subseteq Nat
  BY DEF IndexInv, TypeOK
<1>1. CASE AcceptNewClient \/ AcceptWhileInUse
  BY <1>1 DEF AcceptNewClient, AcceptWhileInUse, StreamInv
<1>2. ASSUME NEW size \in Sizes, ClientSend(size)
      PROVE  StreamInv'
  <2>1. /\ sentEnd' = sentEnd + size /\ size \in Nat /\ size > 0
        /\ received' = received /\ open' = open /\ peerOpen
        /\ DOMAIN sizeAt' = DOMAIN sizeAt \cup {sentEnd}
    BY <1>2, SizeFacts DEF ClientSend
  <2>2. \A p \in DOMAIN sizeAt' : p < sentEnd'
    BY <1>0, <2>1 DEF StreamInv
  <2> QED
    BY <1>0, <2>1, <2>2 DEF StreamInv
<1>3. ASSUME NEW cut \in received..sentEnd, ClientClose(cut)
      PROVE  StreamInv'
  <2>1. /\ sentEnd' = cut /\ cut \in Nat /\ received <= cut
        /\ received' = received /\ open' = open /\ peerOpen
        /\ DOMAIN sizeAt' = {p \in DOMAIN sizeAt : p < cut}
    BY <1>0, <1>3 DEF ClientClose, Restrict
  <2> QED
    BY <2>1 DEF StreamInv
<1>4. ASSUME NEW n \in 1..(sentEnd - received), RecvComplete(n)
      PROVE  StreamInv'
  BY <1>0, <1>4 DEF RecvComplete, StreamInv
<1>5. CASE HandleEmptyRecv \/ DisconnectElsewhere
  <2>1. /\ sentEnd' = received /\ received' = received /\ ~peerOpen'
        /\ DOMAIN sizeAt' = {p \in DOMAIN sizeAt : p < received}
    BY <1>5 DEF HandleEmptyRecv, DisconnectElsewhere, Hangup, Restrict
  <2> QED
    BY <1>0, <2>1 DEF StreamInv
<1>6. CASE \/ RecvCompleteEmpty \/ HandleRecv \/ RecvMsg \/ Quiet \/ UNCHANGED vars
           \/ \E size \in Bytes : ProcessPacket(size) \/ ProcessUnknownPacket(size)
  BY <1>6 DEF RecvCompleteEmpty, HandleRecv, RecvMsg, Quiet, ProcessPacket,
     ProcessUnknownPacket, vars, stream, io, StreamInv
<1> QED
  BY <1>1, <1>2, <1>3, <1>4, <1>5, <1>6 DEF Next, Client, Kernel, Worker

(* Cutting the stream at a position not yet received keeps it framed. *)
LEMMA CutKeepsFraming ==
    ASSUME IndexInv, StreamInv, FramingInv, ~dirty, ~peerOpen',
           NEW cut \in received..sentEnd, sentEnd' = cut,
           sizeAt' = Restrict(sizeAt, {p \in DOMAIN sizeAt : p < cut}),
           frontier' = frontier
    PROVE  /\ frontier' \in DOMAIN sizeAt' \/ frontier' >= sentEnd'
           /\ sentEnd' - frontier' <= Window
           /\ ChainInv'
<1>0. /\ received \in Nat /\ sentEnd \in Nat /\ frontier \in Int
      /\ DOMAIN sizeAt \subseteq Nat /\ sizeAt \in [DOMAIN sizeAt -> Nat]
  BY SizeFacts DEF IndexInv, TypeOK
<1>1. /\ DOMAIN sizeAt' = {p \in DOMAIN sizeAt : p < cut}
      /\ \A p \in DOMAIN sizeAt' : sizeAt'[p] = sizeAt[p]
  BY DEF Restrict
<1>2. cut \in Nat /\ cut <= sentEnd
  BY <1>0
<1>3. frontier' \in DOMAIN sizeAt' \/ frontier' >= sentEnd'
  BY <1>0, <1>1, <1>2 DEF FramingInv
<1>4. sentEnd' - frontier' <= Window
  BY <1>0, <1>2, BoundsAssumption DEF BoundsAssumption, FramingInv
<1>5. ASSUME NEW p \in DOMAIN sizeAt', p >= frontier'
      PROVE  \/ p + sizeAt'[p] \in DOMAIN sizeAt'
             \/ p + sizeAt'[p] = sentEnd'
             \/ p + sizeAt'[p] > sentEnd' /\ ~peerOpen'
  <2>1. /\ p \in DOMAIN sizeAt /\ p >= frontier /\ sizeAt'[p] = sizeAt[p]
        /\ p + sizeAt[p] \in Nat
    BY <1>0, <1>1, <1>5
  <2>2. \/ p + sizeAt[p] \in DOMAIN sizeAt
        \/ p + sizeAt[p] >= sentEnd
    BY <1>0, <2>1 DEF FramingInv, ChainInv
  <2>3. CASE p + sizeAt[p] < cut
    BY <1>0, <1>1, <1>2, <2>1, <2>2, <2>3
  <2>4. CASE p + sizeAt[p] >= cut
    BY <1>2, <2>1, <2>4
  <2> QED
    BY <1>2, <2>1, <2>3, <2>4
<1> QED
  BY <1>3, <1>4, <1>5 DEF ChainInv

(* A receive that fits adds its bytes to the unread ones. *)
LEMMA ShiftKeepsUnread ==
    ASSUME IndexInv, bytes <= MaxBufferSize - mWriteIndex, ShiftWritePtr(bytes)
    PROVE  mWriteIndex' - mReadIndex' = (mWriteIndex - mReadIndex) + bytes
<1>1. /\ mReadIndex \in Int /\ mWriteIndex \in Nat /\ bytes \in Nat
      /\ MaxBufferSize \in Nat
      /\ GetLeftBufLen = MaxBufferSize - mWriteIndex
      /\ GetFilledBufLen = mWriteIndex - mReadIndex
  BY IndexFacts DEF GetLeftBufLen, GetFilledBufLen
<1>2. ~(GetLeftBufLen < bytes)
  BY <1>1
<1>3. CASE GetLeftBufLen = bytes
  <2>1. Compact(bytes)
    BY <1>1, <1>3 DEF ShiftWritePtr
  <2>2. mReadIndex' = 0 /\ mWriteIndex' = (mWriteIndex - mReadIndex) + bytes
    BY <1>1, <2>1 DEF Compact
  <2> QED
    BY <1>1, <2>2
<1>4. CASE GetLeftBufLen # bytes
  <2>1. mReadIndex' = mReadIndex /\ mWriteIndex' = mWriteIndex + bytes
    BY <1>2, <1>4 DEF ShiftWritePtr
  <2> QED
    BY <1>1, <2>1
<1> QED
  BY <1>3, <1>4

(* What ProcessPackets reads at mReadIndex is the byte at the frontier.    *)
LEMMA ReadableAtFrontier ==
    ASSUME IndexInv, ContentInv, StreamInv, FramingInv, ~dirty, pc = "process",
           NEW size \in Bytes, Readable(size)
    PROVE  InOrder /\ frontier < received
<1>0. ~lost
  BY DEF FramingInv
<1>1. /\ mReadIndex \in Nat /\ mWriteIndex \in Nat /\ received \in Nat
      /\ MaxBufferSize \in Nat /\ mWriteIndex <= MaxBufferSize
      /\ GetFilledBufLen = mWriteIndex - mReadIndex
      /\ DOMAIN mBuffer = 0..MaxBufferSize - 1
  BY <1>0, IndexFacts DEF GetFilledBufLen
<1>2. bytes = 0 /\ Pending = mWriteIndex
  BY <1>1 DEF IndexInv, PostedInv, Pending
<1>3. ~(GetFilledBufLen < 1)
  BY DEF Readable
<1>4. mReadIndex < mWriteIndex /\ mReadIndex \in 0..MaxBufferSize - 1
  BY <1>1, <1>3
<1>5. mBuffer[mReadIndex] = received - (mWriteIndex - mReadIndex)
  BY <1>0, <1>1, <1>2, <1>4 DEF ContentInv
<1>6. frontier = received - (mWriteIndex - mReadIndex)
  BY <1>2 DEF FramingInv, Consumed
<1>7. ByteAt(mReadIndex) = frontier /\ frontier < received
  BY <1>1, <1>4, <1>5, <1>6 DEF ByteAt
<1>8. frontier \in DOMAIN sizeAt
  <2>1. sentEnd \in Nat /\ frontier \in Int /\ received <= sentEnd
    BY DEF StreamInv, IndexInv, TypeOK
  <2>2. frontier \in DOMAIN sizeAt \/ frontier >= sentEnd
    BY DEF FramingInv
  <2> QED
    BY <1>1, <1>7, <2>1, <2>2
<1> QED
  BY <1>7, <1>8 DEF InOrder

LEMMA FramingInvNext ==
    IndexInv /\ ContentInv /\ StreamInv /\ FramingInv /\ [Next]_vars
        => FramingInv'
<1> SUFFICES ASSUME IndexInv, ContentInv, StreamInv, FramingInv, [Next]_vars,
                    ~dirty'
             PROVE  FramingInv'
  BY DEF FramingInv
<1>1. ~dirty
  BY DirtyStays, Zenon
<1>0. /\ received \in Nat /\ sentEnd \in Nat /\ frontier \in Int
      /\ mReadIndex \in Nat /\ mWriteIndex \in Nat /\ bytes \in Nat
      /\ mReadIndex <= mWriteIndex /\ mWriteIndex <= MaxBufferSize
      /\ DOMAIN sizeAt \subseteq Nat /\ sizeAt \in [DOMAIN sizeAt -> Nat]
  <2>1. ~lost
    BY <1>1 DEF FramingInv
  <2> QED
    BY <2>1, SizeFacts, IndexFacts DEF IndexInv, TypeOK
<1>2. /\ ~lost /\ frontier = Consumed
      /\ frontier \in DOMAIN sizeAt \/ frontier >= sentEnd
      /\ sentEnd - frontier <= Window
      /\ ChainInv
  BY <1>1 DEF FramingInv
<1>3. Window \in Nat
  BY BoundsAssumption DEF BoundsAssumption
<1>4. CASE AcceptNewClient
  <2>1. /\ received' = received /\ sentEnd' = sentEnd /\ sizeAt' = sizeAt
        /\ frontier' = received /\ lost' = lost
        /\ Consumed' = Consumed
        /\ dirty' = (dirty \/ GetFilledBufLen > 0)
    BY <1>0, <1>2, <1>4 DEF AcceptNewClient, Consumed, Pending, buffer
  <2>2. received = sentEnd /\ bytes = 0
    BY <1>4 DEF AcceptNewClient, StreamInv, IndexInv, PostedInv
  <2>3. mReadIndex = mWriteIndex
    <3>1. ~(GetFilledBufLen > 0)
      BY <2>1, Zenon
    <3>2. GetFilledBufLen = mWriteIndex - mReadIndex
      BY IndexFacts DEF GetFilledBufLen
    <3> QED
      BY <1>0, <3>1, <3>2
  <2>4. Consumed = received
    BY <1>0, <2>2, <2>3 DEF Consumed, Pending
  <2>5. ChainInv'
    BY <1>0, <2>1, <2>2 DEF ChainInv, StreamInv
  <2> QED
    BY <1>0, <1>2, <1>3, <2>1, <2>2, <2>4, <2>5 DEF FramingInv
<1>5. ASSUME NEW size \in Sizes, ClientSend(size)
      PROVE  FramingInv'
  <2>1. /\ sentEnd' = sentEnd + size /\ size \in Nat /\ size > 0
        /\ received' = received /\ peerOpen
        /\ frontier' = frontier /\ lost' = lost /\ Consumed' = Consumed
        /\ mReadIndex' = mReadIndex /\ mWriteIndex' = mWriteIndex
        /\ DOMAIN sizeAt' = DOMAIN sizeAt \cup {sentEnd}
        /\ sizeAt'[sentEnd] = size
        /\ \A p \in DOMAIN sizeAt : p # sentEnd => sizeAt'[p] = sizeAt[p]
        /\ sentEnd + size - frontier <= Window
    BY <1>2, <1>5, SizeFacts
       DEF ClientSend, io, buffer, history, Consumed, Pending
  <2>2. \A p \in DOMAIN sizeAt : p < sentEnd
    BY DEF StreamInv
  <2>3. frontier' \in DOMAIN sizeAt' \/ frontier' >= sentEnd'
    <3>1. frontier <= received
      BY <1>0, <1>2 DEF Consumed, Pending
    <3>2. frontier <= sentEnd
      BY <1>0, <3>1 DEF StreamInv
    <3> QED
      BY <1>0, <1>2, <2>1, <3>2
  <2>4. ASSUME NEW p \in DOMAIN sizeAt', p >= frontier'
        PROVE  \/ p + sizeAt'[p] \in DOMAIN sizeAt'
               \/ p + sizeAt'[p] = sentEnd'
    <3>1. CASE p = sentEnd
      BY <2>1, <3>1
    <3>2. CASE p # sentEnd
      <4>1. /\ p \in DOMAIN sizeAt /\ p >= frontier /\ sizeAt'[p] = sizeAt[p]
        BY <2>1, <2>4, <3>2
      <4>2. p + sizeAt[p] \in DOMAIN sizeAt \/ p + sizeAt[p] = sentEnd
        BY <1>2, <2>1, <4>1 DEF ChainInv
      <4> QED
        BY <2>1, <4>1, <4>2
    <3> QED
      BY <3>1, <3>2
  <2>5. ChainInv'
    BY <2>4 DEF ChainInv
  <2>6. sentEnd' - frontier' <= Window
    BY <1>0, <1>3, <2>1
  <2>7. ~lost' /\ frontier' = Consumed'
    BY <1>2, <2>1
  <2> QED
    BY <2>3, <2>5, <2>6, <2>7 DEF FramingInv
<1>6. ASSUME NEW cut \in received..sentEnd, ClientClose(cut)
      PROVE  FramingInv'
  <2>1. /\ sentEnd' = cut /\ ~peerOpen' /\ frontier' = frontier
        /\ sizeAt' = Restrict(sizeAt, {p \in DOMAIN sizeAt : p < cut})
        /\ lost' = lost /\ Consumed' = Consumed
        /\ mReadIndex' = mReadIndex /\ mWriteIndex' = mWriteIndex
    BY <1>6 DEF ClientClose, io, buffer, history, Consumed, Pending
  <2>2. /\ frontier' \in DOMAIN sizeAt' \/ frontier' >= sentEnd'
        /\ sentEnd' - frontier' <= Window
        /\ ChainInv'
    BY <1>1, <2>1, CutKeepsFraming
  <2> QED
    BY <1>2, <2>1, <2>2 DEF FramingInv
<1>7. ASSUME NEW n \in 1..(sentEnd - received), RecvComplete(n)
      PROVE  FramingInv'
  <2>1. /\ bytes' = n /\ received' = received + n /\ bytes = 0 /\ n \in Nat
        /\ mReadIndex' = mReadIndex /\ mWriteIndex' = mWriteIndex
        /\ sizeAt' = sizeAt /\ sentEnd' = sentEnd /\ peerOpen' = peerOpen
        /\ frontier' = frontier /\ lost' = lost /\ pc' = "completed"
    BY <1>0, <1>7 DEF RecvComplete, history, IndexInv, PostedInv
  <2>2. Consumed' = Consumed
    BY <1>0, <2>1 DEF Consumed, Pending
  <2> QED
    BY <1>2, <2>1, <2>2 DEF FramingInv, ChainInv
<1>8. CASE HandleEmptyRecv \/ DisconnectElsewhere
  <2>1. /\ sentEnd' = received /\ ~peerOpen' /\ frontier' = frontier
        /\ sizeAt' = Restrict(sizeAt, {p \in DOMAIN sizeAt : p < received})
        /\ lost' = lost /\ Consumed' = Consumed
    BY <1>8 DEF HandleEmptyRecv, DisconnectElsewhere, Hangup, buffer, io,
       history, Consumed, Pending
  <2>2. received \in received..sentEnd
    BY <1>0 DEF StreamInv
  <2>3. /\ frontier' \in DOMAIN sizeAt' \/ frontier' >= sentEnd'
        /\ sentEnd' - frontier' <= Window
        /\ ChainInv'
    BY <1>1, <2>1, <2>2, CutKeepsFraming
  <2> QED
    BY <1>2, <2>1, <2>3 DEF FramingInv
<1>9. CASE HandleRecv
  <2>1. /\ bytes' = 0 /\ received' = received
        /\ sizeAt' = sizeAt /\ sentEnd' = sentEnd /\ peerOpen' = peerOpen
        /\ frontier' = frontier /\ lost' = lost
        /\ ShiftWritePtr(bytes) /\ bytes <= MaxBufferSize - mWriteIndex
    BY <1>9 DEF HandleRecv, stream, history, IndexInv, PostedInv
  <2>2. mWriteIndex' - mReadIndex' = (mWriteIndex - mReadIndex) + bytes
    BY <1>0, <2>1, ShiftKeepsUnread
  <2>3. /\ IndexInv' /\ mWriteIndex' \in Nat /\ mReadIndex' \in Int
    BY IndexInvNext DEF IndexInv, TypeOK
  <2>4. Consumed' = Consumed
    BY <1>0, <2>1, <2>2, <2>3 DEF Consumed, Pending
  <2> QED
    BY <1>2, <2>1, <2>4 DEF FramingInv, ChainInv
<1>10. ASSUME NEW size \in Bytes, ProcessPacket(size)
       PROVE  FramingInv'
  <2>1. InOrder /\ frontier < received
    BY <1>1, <1>10, ReadableAtFrontier DEF ProcessPacket
  <2>2. frontier \in DOMAIN sizeAt
    BY <2>1 DEF InOrder
  <2>3. size = sizeAt[frontier] /\ size \in Nat /\ frontier \in Nat
    BY <1>0, <1>10, <2>1, <2>2, InOrderSize DEF ProcessPacket
  <2>9. ~lost'
    BY <1>2, <1>10, <2>1, Zenon DEF ProcessPacket
  <2>4. /\ frontier' = frontier + size
        /\ mReadIndex' = mReadIndex + size /\ mWriteIndex' = mWriteIndex
        /\ bytes' = bytes
        /\ received' = received /\ sentEnd' = sentEnd /\ sizeAt' = sizeAt
        /\ peerOpen' = peerOpen
    BY <1>10, <2>1 DEF ProcessPacket, BufReadPtr, io, stream
  <2>5. frontier' = Consumed'
    BY <1>0, <1>2, <2>3, <2>4 DEF Consumed, Pending
  <2>6. frontier' \in DOMAIN sizeAt' \/ frontier' >= sentEnd'
    BY <1>0, <1>2, <2>2, <2>3, <2>4 DEF ChainInv
  <2>7. sentEnd' - frontier' <= Window
    BY <1>0, <1>2, <1>3, <2>3, <2>4
  <2>8. ChainInv'
    BY <1>0, <1>2, <2>3, <2>4 DEF ChainInv
  <2> QED
    BY <2>4, <2>5, <2>6, <2>7, <2>8, <2>9 DEF FramingInv
<1>11. ASSUME NEW size \in Bytes, ProcessUnknownPacket(size)
       PROVE  FALSE
  BY <1>11, <1>1, ReadableAtFrontier DEF ProcessUnknownPacket
<1>12. CASE \/ RecvCompleteEmpty \/ RecvMsg \/ AcceptWhileInUse
            \/ Quiet \/ UNCHANGED vars
  <2>1. RecvCompleteEmpty => bytes' = bytes
    BY DEF RecvCompleteEmpty, IndexInv, PostedInv
  <2>2. /\ mReadIndex' = mReadIndex /\ mWriteIndex' = mWriteIndex
        /\ bytes' = bytes /\ received' = received /\ sentEnd' = sentEnd
        /\ sizeAt' = sizeAt /\ peerOpen' = peerOpen
        /\ frontier' = frontier /\ lost' = lost
    BY <1>12, <2>1 DEF RecvCompleteEmpty, RecvMsg, AcceptWhileInUse, Quiet,
       vars, buffer, io, stream, history
  <2>3. Consumed' = Consumed
    BY <2>2 DEF Consumed, Pending
  <2> QED
    BY <1>2, <2>2, <2>3 DEF FramingInv, ChainInv
<1> QED
  BY <1>4, <1>5, <1>6, <1>7, <1>8, <1>9, <1>10, <1>11, <1>12
     DEF Next, Client, Kernel, Worker

LEMMA RoomInvNext ==
    IndexInv /\ ContentInv /\ StreamInv /\ FramingInv /\ RoomInv /\ [Next]_vars
        => RoomInv'
<1> SUFFICES ASSUME IndexInv, StreamInv, FramingInv, RoomInv, [Next]_vars,
                    ~dirty', Window < MaxBufferSize
             PROVE  mWriteIndex' < MaxBufferSize
  BY DEF RoomInv
<1>1. ~dirty
  BY DirtyStays, Zenon
<1>0. /\ MaxBufferSize \in Nat /\ MaxBufferSize > 0
      /\ mReadIndex \in Nat /\ mWriteIndex \in Nat /\ bytes \in Nat
      /\ received \in Nat /\ sentEnd \in Nat /\ frontier \in Int
      /\ GetLeftBufLen = MaxBufferSize - mWriteIndex
      /\ GetFilledBufLen = mWriteIndex - mReadIndex
      /\ Window \in Nat
  <2>1. ~lost
    BY <1>1 DEF FramingInv
  <2> QED
    BY <2>1, IndexFacts, BoundsAssumption
       DEF IndexInv, TypeOK, BoundsAssumption, GetLeftBufLen, GetFilledBufLen
<1>2. mWriteIndex < MaxBufferSize
  BY <1>1 DEF RoomInv
<1>3. CASE HandleRecv
  <2>1. ShiftWritePtr(bytes) /\ bytes <= MaxBufferSize - mWriteIndex
    BY <1>3 DEF HandleRecv, IndexInv, PostedInv
  <2>2. ~(GetLeftBufLen < bytes)
    BY <1>0, <2>1
  <2>3. (mWriteIndex - mReadIndex) + bytes < MaxBufferSize
    <3>1. frontier = received - ((mWriteIndex + bytes) - mReadIndex)
      BY <1>1 DEF FramingInv, Consumed, Pending
    <3>2. received - frontier <= Window
      BY <1>0, <1>1 DEF FramingInv, StreamInv
    <3> QED
      BY <1>0, <3>1, <3>2
  <2>4. CASE GetLeftBufLen = bytes
    <3>1. Compact(bytes)
      BY <2>2, <2>4, <1>0, <2>1 DEF ShiftWritePtr
    <3>2. mWriteIndex' = (mWriteIndex - mReadIndex) + bytes
      BY <1>0, <3>1 DEF Compact
    <3> QED
      BY <2>3, <3>2
  <2>5. CASE GetLeftBufLen # bytes
    <3>1. mWriteIndex' = mWriteIndex + bytes
      BY <2>1, <2>2, <2>5 DEF ShiftWritePtr
    <3> QED
      BY <1>0, <2>1, <2>5, <3>1
  <2> QED
    BY <2>4, <2>5
<1>4. CASE \E size \in Bytes : ProcessUnknownPacket(size)
  BY <1>0, <1>4 DEF ProcessUnknownPacket, Clear
<1>5. CASE \/ AcceptNewClient \/ AcceptWhileInUse \/ DisconnectElsewhere \/ Client \/ Kernel \/ HandleEmptyRecv \/ RecvMsg
           \/ (\E size \in Bytes : ProcessPacket(size))
           \/ Quiet \/ UNCHANGED vars
  <2>1. mWriteIndex' = mWriteIndex
    BY <1>5 DEF AcceptNewClient, AcceptWhileInUse, DisconnectElsewhere, Client, ClientSend, ClientClose, Kernel,
       RecvComplete, RecvCompleteEmpty, HandleEmptyRecv, RecvMsg,
       ProcessPacket, BufReadPtr, Quiet, vars, buffer
  <2> QED
    BY <1>2, <2>1
<1> QED
  BY <1>3, <1>4, <1>5 DEF Next, Worker

LEMMA CleanInvInit == Init => CleanInv
<1> SUFFICES ASSUME Init
             PROVE  CleanInv
  OBVIOUS
<1>1. /\ MaxBufferSize \in Nat /\ MaxBufferSize > 0 /\ Window \in Nat
  BY BufferAssumption, BoundsAssumption DEF BufferAssumption, BoundsAssumption
<1>2. /\ mReadIndex = 0 /\ mWriteIndex = 0 /\ bytes = 0 /\ received = 0
      /\ sentEnd = 0 /\ frontier = 0
  BY Zenon DEF Init
<1>3. DOMAIN sizeAt = {}
  BY DEF Init
<1>4. ~lost /\ ~peerOpen
  BY Zenon DEF Init
<1>5. Pending = 0 /\ Consumed = 0
  BY <1>2 DEF Pending, Consumed
<1>6. ContentInv
  BY <1>1, <1>2, <1>5 DEF ContentInv
<1>7. StreamInv
  BY <1>2, <1>3, <1>4 DEF StreamInv
<1>8. FramingInv
  BY <1>1, <1>2, <1>3, <1>4, <1>5 DEF FramingInv, ChainInv
<1>9. RoomInv
  BY <1>1, <1>2 DEF RoomInv
<1> QED
  BY IndexInvInit, <1>6, <1>7, <1>8, <1>9 DEF CleanInv

LEMMA CleanInvAlways == Spec => []CleanInv
<1>1. CleanInv /\ [Next]_vars => CleanInv'
  BY IndexInvNext, ContentInvNext, StreamInvNext, FramingInvNext, RoomInvNext
     DEF CleanInv
<1> QED
  BY CleanInvInit, <1>1, PTL DEF Spec

(* Each packet of a session is dispatched once, in order and whole, unless *)
(* some session of the slot began with unread bytes of the one before it,  *)
(* or before that one had let go of the buffer (ProcessPackets; NetBuffer  *)
(* is not cleared by Disconnect).                                          *)
THEOREM FramingKept == Spec => []LostOnlyAfterDirtyClose
<1>1. CleanInv => LostOnlyAfterDirtyClose
  BY DEF CleanInv, FramingInv, LostOnlyAfterDirtyClose
<1> QED
  BY CleanInvAlways, <1>1, PTL

(* If no client ever leaves a buffer's worth of bytes unprocessed, every   *)
(* receive of a clean slot is posted with room, so that a 0-byte           *)
(* completion always means that the peer is gone (RecvMsg, the RECV case). *)
THEOREM HealthyKept == Spec => []HealthyNeverDropped
<1>1. CleanInv => HealthyNeverDropped
  <2> SUFFICES ASSUME CleanInv, pc = "posted", Window < MaxBufferSize, ~dirty
               PROVE  recvLen > 0
    BY DEF HealthyNeverDropped
  <2>1. recvLen = MaxBufferSize - mWriteIndex /\ mWriteIndex < MaxBufferSize
    BY DEF CleanInv, IndexInv, PostedInv, RoomInv
  <2>2. MaxBufferSize \in Nat /\ mWriteIndex \in Nat
    BY IndexFacts DEF CleanInv
  <2> QED
    BY <2>1, <2>2
<1> QED
  BY CleanInvAlways, <1>1, PTL

(* The write index reaches the end of the array, or passes it, only when   *)
(* every byte of it is unread (ShiftWritePtr).                             *)
THEOREM EndMeansFullAlways == Spec => EndMeansFull
<1>1. IndexInv /\ [Next]_vars
        => (pc' # "shared" /\ mWriteIndex < MaxBufferSize /\ mWriteIndex' >= MaxBufferSize
               => mRemainSize' <= 0)
  <2> SUFFICES ASSUME IndexInv, [Next]_vars,
                      mWriteIndex' >= MaxBufferSize, mWriteIndex < MaxBufferSize
               PROVE  mRemainSize' <= 0
    OBVIOUS
  <2>0. /\ MaxBufferSize \in Nat /\ MaxBufferSize > 0
        /\ mReadIndex \in Int /\ mWriteIndex \in Nat /\ bytes \in Nat
        /\ mRemainSize = MaxBufferSize - (mWriteIndex - mReadIndex)
        /\ GetLeftBufLen = MaxBufferSize - mWriteIndex
        /\ GetFilledBufLen = mWriteIndex - mReadIndex
    BY IndexFacts DEF GetLeftBufLen, GetFilledBufLen
  <2>1. HandleRecv
    <3>1. CASE \/ AcceptNewClient \/ AcceptWhileInUse \/ DisconnectElsewhere
               \/ Client \/ Kernel \/ HandleEmptyRecv \/ RecvMsg
               \/ (\E size \in Bytes : ProcessPacket(size))
               \/ Quiet \/ UNCHANGED vars
      <4>1. mWriteIndex' = mWriteIndex
        BY <3>1 DEF AcceptNewClient, AcceptWhileInUse, DisconnectElsewhere,
           Client, ClientSend, ClientClose, Kernel,
           RecvComplete, RecvCompleteEmpty, HandleEmptyRecv, RecvMsg,
           ProcessPacket, BufReadPtr, Quiet, vars, buffer
      <4> QED
        BY <2>0, <4>1
    <3>2. CASE \E size \in Bytes : ProcessUnknownPacket(size)
      BY <2>0, <3>2 DEF ProcessUnknownPacket, Clear
    <3> QED
      BY <3>1, <3>2 DEF Next, Worker
  <2>2. ShiftWritePtr(bytes) /\ bytes <= MaxBufferSize - mWriteIndex
    BY <2>1 DEF HandleRecv, IndexInv, PostedInv
  <2>3. ~(GetLeftBufLen < bytes)
    BY <2>0, <2>2
  <2>4. GetLeftBufLen = bytes
    <3>1. CASE GetLeftBufLen # bytes
      <4>1. mWriteIndex' = mWriteIndex + bytes
        BY <2>2, <2>3, <3>1 DEF ShiftWritePtr
      <4> QED
        BY <2>0, <2>2, <3>1, <4>1
    <3> QED
      BY <3>1
  <2>5. mRemainSize' = mRemainSize - bytes /\ Compact(bytes)
    BY <2>0, <2>2, <2>3, <2>4 DEF ShiftWritePtr
  <2>6. mWriteIndex' = (mWriteIndex - mReadIndex) + bytes
    BY <2>0, <2>5 DEF Compact
  <2> QED
    BY <2>0, <2>4, <2>5, <2>6
<1> QED
  BY IndexInvAlways, <1>1, PTL DEF Spec, EndMeansFull
-----------------------------------------------------------------------------
(* The refinement of PacketStream.  Packets of a clean slot do not overlap *)
(* from the frontier on, and the frontier is past what was dispatched: so  *)
(* the packet at the frontier is the least that is undelivered.            *)
PacketsInv ==
    ~dirty => /\ last < frontier
              /\ \A p, q \in DOMAIN sizeAt :
                     frontier <= p /\ p < q => p + sizeAt[p] <= q

EndInv == sentEnd <= MaxStream

OrderInv == CleanInv /\ PacketsInv /\ EndInv

(* What the proofs below use of CleanInv, as plain arithmetic. *)
LEMMA CleanFacts ==
    ASSUME CleanInv
    PROVE  /\ received \in Nat /\ sentEnd \in Nat /\ frontier \in Int
           /\ last \in Int /\ received <= sentEnd
           /\ MaxStream \in Nat
           /\ DOMAIN sizeAt \subseteq Nat
           /\ \A p \in DOMAIN sizeAt : sizeAt[p] \in Nat /\ sizeAt[p] > 0
           /\ \A p \in DOMAIN sizeAt : p < sentEnd
           /\ ~dirty => frontier <= received
<1>1. /\ received \in Nat /\ sentEnd \in Nat /\ frontier \in Int /\ last \in Int
      /\ DOMAIN sizeAt \subseteq Nat /\ sizeAt \in [DOMAIN sizeAt -> Sizes]
  BY DEF CleanInv, IndexInv, TypeOK
<1>2. received <= sentEnd /\ \A p \in DOMAIN sizeAt : p < sentEnd
  BY DEF CleanInv, StreamInv
<1>3. ~dirty => frontier <= received
  <2>1. /\ mReadIndex \in Int /\ mWriteIndex \in Nat /\ bytes \in Nat
        /\ mReadIndex <= mWriteIndex
    BY IndexFacts DEF CleanInv
  <2> QED
    BY <1>1, <2>1 DEF CleanInv, FramingInv, Consumed, Pending
<1> QED
  BY <1>1, <1>2, <1>3, SizeFacts, BoundsAssumption DEF BoundsAssumption

(* A packet dispatched from a clean slot is the one at the frontier, and   *)
(* all of it has been received.                                            *)
LEMMA DispatchAtFrontier ==
    ASSUME CleanInv, ~dirty, NEW size \in Bytes, ProcessPacket(size)
    PROVE  /\ frontier \in DOMAIN sizeAt /\ size = sizeAt[frontier]
           /\ size \in Nat /\ size > 0
           /\ frontier + size <= sentEnd
           /\ frontier' = frontier + size /\ last' = frontier
           /\ sizeAt' = sizeAt /\ sentEnd' = sentEnd /\ dirty' = dirty
           /\ pc = "process" /\ pc' = "process"
<1>0. /\ received \in Nat /\ sentEnd \in Nat /\ frontier \in Int
      /\ received <= sentEnd
      /\ mReadIndex \in Int /\ mWriteIndex \in Nat
  BY CleanFacts, IndexFacts DEF CleanInv
<1>1. InOrder /\ frontier < received
  BY ReadableAtFrontier DEF ProcessPacket, CleanInv
<1>2. frontier \in DOMAIN sizeAt
  BY <1>1 DEF InOrder
<1>3. size = sizeAt[frontier] /\ size \in Nat /\ size > 0
  BY <1>1, InOrderSize DEF ProcessPacket, CleanInv
<1>4. frontier + size <= sentEnd
  <2>1. bytes = 0 /\ GetFilledBufLen = mWriteIndex - mReadIndex
    BY IndexFacts DEF ProcessPacket, CleanInv, IndexInv, PostedInv, GetFilledBufLen
  <2>2. frontier = received - (mWriteIndex - mReadIndex)
    BY <1>0, <2>1 DEF CleanInv, FramingInv, Consumed, Pending
  <2>3. size <= GetFilledBufLen
    BY Zenon DEF ProcessPacket, Readable
  <2> QED
    BY <1>0, <1>3, <2>1, <2>2, <2>3
<1>5. frontier' = frontier + size /\ last' = frontier
  BY <1>1 DEF ProcessPacket, InOrder
<1> QED
  BY <1>2, <1>3, <1>4, <1>5 DEF ProcessPacket, stream, io

LEMMA OrderInvInit == Init => OrderInv
<1> SUFFICES ASSUME Init
             PROVE  OrderInv
  OBVIOUS
<1>1. frontier = 0 /\ last = NoByte /\ sentEnd = 0
  BY Zenon DEF Init
<1>2. DOMAIN sizeAt = {}
  BY DEF Init
<1> QED
  BY <1>1, <1>2, CleanInvInit, BoundsAssumption
     DEF OrderInv, PacketsInv, EndInv, NoByte, BoundsAssumption

(* Steps that change neither the stream nor what is delivered. *)
LEMMA OthersKeepStream ==
    ASSUME Kernel \/ HandleRecv \/ RecvMsg \/ Quiet \/ UNCHANGED vars
    PROVE  /\ UNCHANGED <<sizeAt, sentEnd, frontier, last, dirty>>
           /\ pc = "shared" <=> pc' = "shared"
BY DEF Kernel, RecvComplete, RecvCompleteEmpty, HandleRecv, RecvMsg,
   Quiet, vars, stream, history, io

(* No byte of a clean slot is taken for a packet of unknown type. *)
LEMMA NothingUnknown ==
    ASSUME CleanInv, ~dirty, NEW size \in Bytes, ProcessUnknownPacket(size)
    PROVE  FALSE
BY ReadableAtFrontier DEF ProcessUnknownPacket, CleanInv

(* The ways a stream is cut: the peer closes, or the slot is disconnected. *)
Cut(cut) ==
    /\ cut \in received..sentEnd
    /\ sentEnd' = cut
    /\ sizeAt' = Restrict(sizeAt, {p \in DOMAIN sizeAt : p < cut})
    /\ UNCHANGED <<frontier, last, dirty>>
    /\ pc = "shared" <=> pc' = "shared"

LEMMA CutFacts ==
    ASSUME CleanInv, NEW cut, Cut(cut)
    PROVE  /\ cut \in Nat /\ cut <= sentEnd /\ sentEnd' = cut
           /\ DOMAIN sizeAt' = {p \in DOMAIN sizeAt : p < cut}
           /\ \A p \in DOMAIN sizeAt' : sizeAt'[p] = sizeAt[p]
           /\ frontier' = frontier /\ last' = last
<1>1. received \in Nat /\ sentEnd \in Nat
  BY CleanFacts
<1> QED
  BY <1>1 DEF Cut, Restrict

LEMMA ClosesCut ==
    ASSUME CleanInv
    PROVE  /\ \A cut \in received..sentEnd : ClientClose(cut) => Cut(cut)
           /\ HandleEmptyRecv \/ DisconnectElsewhere => Cut(received)
<1>1. received \in received..sentEnd
  BY CleanFacts
<1> QED
  BY <1>1 DEF ClientClose, HandleEmptyRecv, DisconnectElsewhere, Hangup, Cut,
     history, io

(* The next session begins where the former one ended. *)
LEMMA BeginFacts ==
    ASSUME CleanInv, AcceptNewClient \/ AcceptWhileInUse
    PROVE  /\ sizeAt' = sizeAt /\ sentEnd' = sentEnd /\ last' = last
           /\ received = sentEnd
           /\ frontier' = received \/ UNCHANGED <<frontier, dirty>>
           /\ AcceptNewClient => frontier' = received
BY DEF AcceptNewClient, AcceptWhileInUse, CleanInv, StreamInv, history

LEMMA OrderInvNext == OrderInv /\ CleanInv' /\ [Next]_vars => OrderInv'
<1> SUFFICES ASSUME CleanInv, PacketsInv, EndInv, [Next]_vars
             PROVE  PacketsInv' /\ EndInv'
  BY DEF OrderInv
<1>0. /\ received \in Nat /\ sentEnd \in Nat /\ frontier \in Int
      /\ last \in Int /\ received <= sentEnd /\ MaxStream \in Nat
      /\ DOMAIN sizeAt \subseteq Nat
      /\ \A p \in DOMAIN sizeAt : sizeAt[p] \in Nat /\ sizeAt[p] > 0
      /\ \A p \in DOMAIN sizeAt : p < sentEnd
      /\ ~dirty => frontier <= received
  BY CleanFacts
<1>1. EndInv'
  <2>1. ASSUME NEW size \in Sizes, ClientSend(size)
        PROVE  sentEnd' <= MaxStream
    BY <2>1 DEF ClientSend
  <2>2. ASSUME NEW cut, Cut(cut)
        PROVE  sentEnd' <= MaxStream
    <3>1. cut \in Nat /\ cut <= sentEnd /\ sentEnd' = cut
      BY <2>2, CutFacts
    <3>2. sentEnd <= MaxStream
      BY DEF EndInv
    <3> QED
      BY <1>0, <3>1, <3>2
  <2>3. CASE UNCHANGED sentEnd
    BY <2>3 DEF EndInv
  <2> QED
    BY <2>1, <2>2, <2>3, ClosesCut
       DEF Next, Client, Kernel, Worker, AcceptNewClient, AcceptWhileInUse, RecvComplete,
           RecvCompleteEmpty, HandleRecv, RecvMsg, ProcessPacket,
           ProcessUnknownPacket, Quiet, vars, stream, EndInv
<1>2. CASE dirty
  <2>1. dirty'
    BY <1>2, DirtyStays, Zenon
  <2> QED
    BY <1>1, <2>1, Zenon DEF PacketsInv
<1>3. CASE ~dirty
  <2>0. /\ last < frontier /\ frontier <= sentEnd
        /\ \A p, q \in DOMAIN sizeAt :
               frontier <= p /\ p < q => p + sizeAt[p] <= q
    BY <1>0, <1>3 DEF PacketsInv
  <2>1. ASSUME NEW size \in Sizes, ClientSend(size)
        PROVE  PacketsInv'
    <3>1. /\ DOMAIN sizeAt' = DOMAIN sizeAt \cup {sentEnd}
          /\ \A p \in DOMAIN sizeAt : sizeAt'[p] = sizeAt[p]
          /\ last' = last /\ frontier' = frontier /\ peerOpen
      BY <1>0, <2>1 DEF ClientSend, history
    <3>2. ASSUME NEW p \in DOMAIN sizeAt', NEW q \in DOMAIN sizeAt',
                 frontier <= p, p < q
          PROVE  p + sizeAt'[p] <= q
      <4>1. p \in DOMAIN sizeAt /\ sizeAt'[p] = sizeAt[p]
        BY <1>0, <3>1, <3>2
      <4>2. CASE q \in DOMAIN sizeAt
        BY <2>0, <3>2, <4>1, <4>2
      <4>3. CASE q = sentEnd
        <5>1. p + sizeAt[p] \in DOMAIN sizeAt \/ p + sizeAt[p] = sentEnd
          BY <1>3, <3>1, <3>2, <4>1 DEF CleanInv, FramingInv, ChainInv
        <5> QED
          BY <1>0, <4>1, <4>3, <5>1
      <4> QED
        BY <3>1, <4>2, <4>3
    <3> QED
      BY <2>0, <3>1, <3>2 DEF PacketsInv
  <2>2. ASSUME NEW cut, Cut(cut)
        PROVE  PacketsInv'
    <3>1. /\ DOMAIN sizeAt' \subseteq DOMAIN sizeAt
          /\ \A p \in DOMAIN sizeAt' : sizeAt'[p] = sizeAt[p]
          /\ last' = last /\ frontier' = frontier
      BY <2>2, CutFacts
    <3> QED
      BY <2>0, <3>1 DEF PacketsInv
  <2>3. ASSUME NEW size \in Bytes, ProcessPacket(size)
        PROVE  PacketsInv'
    <3>1. /\ frontier' = frontier + size /\ last' = frontier
          /\ sizeAt' = sizeAt /\ size \in Nat /\ size > 0
      BY <1>3, <2>3, DispatchAtFrontier
    <3> QED
      BY <1>0, <2>0, <3>1 DEF PacketsInv
  <2>4. CASE Kernel \/ HandleRecv \/ RecvMsg \/ Quiet \/ UNCHANGED vars
    <3>1. sizeAt' = sizeAt /\ frontier' = frontier /\ last' = last
      BY <2>4, OthersKeepStream
    <3> QED
      BY <1>1, <2>0, <3>1 DEF PacketsInv
  <2>5. CASE AcceptNewClient \/ AcceptWhileInUse
    <3>1. /\ sizeAt' = sizeAt /\ last' = last /\ received = sentEnd
          /\ frontier' = received \/ frontier' = frontier
      BY <2>5, BeginFacts
    <3>2. /\ frontier <= frontier' /\ frontier' \in Int
          /\ \A p \in DOMAIN sizeAt : p \in Int
      BY <1>0, <1>3, <3>1
    <3>3. last' < frontier'
      BY <1>0, <2>0, <3>1, <3>2
    <3>4. ASSUME NEW p \in DOMAIN sizeAt', NEW q \in DOMAIN sizeAt',
                 frontier' <= p, p < q
          PROVE  p + sizeAt'[p] <= q
      BY <1>0, <2>0, <3>1, <3>2, <3>4
    <3> QED
      BY <1>1, <3>3, <3>4 DEF PacketsInv
  <2> QED
    BY <1>1, <1>3, <2>1, <2>2, <2>3, <2>4, <2>5, ClosesCut, NothingUnknown
       DEF Next, Client, Worker
<1> QED
  BY <1>1, <1>2, <1>3

LEMMA OrderInvAlways == Spec => []OrderInv
<1>1. CleanInv /\ [Next]_vars => CleanInv'
  BY IndexInvNext, ContentInvNext, StreamInvNext, FramingInvNext, RoomInvNext
     DEF CleanInv
<1>2. OrderInv => CleanInv
  BY DEF OrderInv
<1> QED
  BY OrderInvInit, OrderInvNext, <1>1, <1>2, PTL DEF Spec

(* While the promise holds. *)
Clean == ~dirty /\ pc # "shared"

(* A packet sent is a Send. *)
LEMMA SendIsSend ==
    ASSUME OrderInv, Clean, NEW size \in Sizes, ClientSend(size)
    PROVE  sentEnd \in 0..MaxStream /\ Abstract!Send(sentEnd)
<1>c. ~dirty
  BY DEF Clean
<1>0. /\ sentEnd \in Nat /\ frontier \in Int /\ last \in Int
      /\ MaxStream \in Nat /\ sentEnd <= MaxStream
      /\ last < frontier /\ frontier <= sentEnd
      /\ DOMAIN sizeAt \subseteq Nat
      /\ \A p \in DOMAIN sizeAt : sizeAt[p] \in Nat
      /\ \A p \in DOMAIN sizeAt : p < sentEnd
  BY <1>c, CleanFacts DEF OrderInv, PacketsInv, EndInv
<1>1. /\ DOMAIN sizeAt' = DOMAIN sizeAt \cup {sentEnd}
      /\ \A p \in DOMAIN sizeAt : sizeAt'[p] = sizeAt[p]
      /\ sizeAt'[sentEnd] = size /\ size \in Nat /\ sentEnd' = sentEnd + size
      /\ last' = last /\ frontier' = frontier /\ dirty' = dirty /\ peerOpen
      /\ pc' = pc
  BY <1>0, SizeFacts DEF ClientSend, history, io
<1>2. \A p \in DOMAIN sizeAt : frontier <= p => p + sizeAt[p] <= sentEnd
  <2> TAKE p \in DOMAIN sizeAt
  <2> HAVE frontier <= p
  <2>1. p + sizeAt[p] \in DOMAIN sizeAt \/ p + sizeAt[p] = sentEnd
    BY <1>c, <1>0, <1>1 DEF OrderInv, CleanInv, FramingInv, ChainInv
  <2> QED
    BY <1>0, <2>1
<1>3. Undelivered = {p \in DOMAIN sizeAt : frontier <= p}
  BY <1>0, <1>2 DEF Undelivered
<1>4. Undelivered' = {p \in DOMAIN sizeAt' : frontier <= p}
  <2>1. \A p \in DOMAIN sizeAt' : frontier <= p => p + sizeAt'[p] <= sentEnd'
    BY <1>0, <1>1, <1>2
  <2>2. \A p \in DOMAIN sizeAt' : p \in Int
    BY <1>0, <1>1
  <2> QED
    BY <1>0, <1>1, <2>1, <2>2 DEF Undelivered
<1>5. Undelivered' = Undelivered \cup {sentEnd}
  BY <1>0, <1>1, <1>3, <1>4
<1>6. \A q \in Undelivered : q < sentEnd
  BY <1>0, <1>3
<1> QED
  BY <1>0, <1>1, <1>5, <1>6 DEF Abstract!Send

(* A packet dispatched is a Deliver. *)
LEMMA DispatchIsDeliver ==
    ASSUME OrderInv, Clean, NEW size \in Bytes, ProcessPacket(size)
    PROVE  frontier \in 0..MaxStream /\ Abstract!Deliver(frontier)
<1>c. ~dirty
  BY DEF Clean
<1>0. /\ sentEnd \in Nat /\ frontier \in Int
      /\ MaxStream \in Nat /\ sentEnd <= MaxStream
      /\ DOMAIN sizeAt \subseteq Nat
      /\ \A p \in DOMAIN sizeAt : sizeAt[p] \in Nat
      /\ \A p, q \in DOMAIN sizeAt :
             frontier <= p /\ p < q => p + sizeAt[p] <= q
  BY <1>c, CleanFacts DEF OrderInv, PacketsInv, EndInv
<1>1. /\ frontier \in DOMAIN sizeAt /\ size = sizeAt[frontier]
      /\ frontier + size <= sentEnd /\ size \in Nat /\ size > 0
      /\ frontier' = frontier + size /\ last' = frontier
      /\ sizeAt' = sizeAt /\ sentEnd' = sentEnd /\ dirty' = dirty
      /\ pc = "process" /\ pc' = "process"
  BY <1>c, DispatchAtFrontier DEF OrderInv
<1>2. frontier \in Undelivered /\ \A q \in Undelivered : frontier <= q
  BY <1>0, <1>1 DEF Undelivered
<1>3. \A p \in DOMAIN sizeAt : p >= frontier + size <=> p >= frontier /\ p # frontier
  BY <1>0, <1>1
<1>4. Undelivered' = Undelivered \ {frontier}
  BY <1>0, <1>1, <1>3 DEF Undelivered
<1>5. frontier \in 0..MaxStream
  BY <1>0, <1>1
<1> QED
  BY <1>1, <1>2, <1>4, <1>5 DEF Abstract!Deliver

(* A cut is a Break: at the packet that it falls in, if there is one that  *)
(* had been sent whole, else at the cut itself.                            *)
LEMMA CutIsBreak ==
    ASSUME OrderInv, Clean, NEW cut, Cut(cut)
    PROVE  \E p \in 0..MaxStream : Abstract!Break(p)
<1>c. ~dirty
  BY DEF Clean
<1>0. /\ sentEnd \in Nat /\ frontier \in Int
      /\ MaxStream \in Nat /\ sentEnd <= MaxStream
      /\ DOMAIN sizeAt \subseteq Nat
      /\ \A p \in DOMAIN sizeAt : sizeAt[p] \in Nat /\ sizeAt[p] > 0
      /\ \A p \in DOMAIN sizeAt : p < sentEnd
      /\ \A p, q \in DOMAIN sizeAt :
             frontier <= p /\ p < q => p + sizeAt[p] <= q
  BY <1>c, CleanFacts DEF OrderInv, PacketsInv, EndInv
<1>1. /\ cut \in Nat /\ cut <= sentEnd /\ sentEnd' = cut
      /\ DOMAIN sizeAt' = {p \in DOMAIN sizeAt : p < cut}
      /\ \A p \in DOMAIN sizeAt' : sizeAt'[p] = sizeAt[p]
      /\ frontier' = frontier /\ last' = last
  BY CutFacts DEF OrderInv
<1>2. (~dirty /\ pc # "shared")' = (~dirty /\ pc # "shared")
  BY DEF Cut
<1>3. Undelivered' = {p \in Undelivered : p < cut /\ p + sizeAt[p] <= cut}
  <2>1. ASSUME NEW p \in Undelivered'
        PROVE  p \in Undelivered /\ p < cut /\ p + sizeAt[p] <= cut
    BY <1>0, <1>1 DEF Undelivered
  <2>2. ASSUME NEW p \in Undelivered, p < cut, p + sizeAt[p] <= cut
        PROVE  p \in Undelivered'
    BY <1>0, <1>1, <2>2 DEF Undelivered
  <2> QED
    BY <2>1, <2>2
<1>4. CASE \E p \in Undelivered : p < cut /\ p + sizeAt[p] > cut
  <2> PICK p \in Undelivered : p < cut /\ p + sizeAt[p] > cut
    BY <1>4
  <2>1. p \in DOMAIN sizeAt /\ p \in 0..MaxStream /\ frontier <= p
    BY <1>0 DEF Undelivered
  <2>2. \A q \in Undelivered : q < cut /\ q + sizeAt[q] <= cut <=> q < p
    <3> TAKE q \in Undelivered
    <3>1. q \in DOMAIN sizeAt /\ frontier <= q /\ q \in Nat /\ sizeAt[q] \in Nat
      BY <1>0 DEF Undelivered
    <3>2. q < p => q + sizeAt[q] <= p
      BY <1>0, <2>1, <3>1
    <3>3. p < q => p + sizeAt[p] <= q
      BY <1>0, <2>1, <3>1
    <3> QED
      BY <1>0, <1>1, <2>1, <3>1, <3>2, <3>3
  <2>3. Undelivered' = {q \in Undelivered : q < p}
    BY <1>3, <2>2
  <2> QED
    BY <1>1, <1>2, <2>1, <2>3 DEF Abstract!Break
<1>5. CASE \A p \in Undelivered : p < cut => p + sizeAt[p] <= cut
  <2>1. cut \in 0..MaxStream
    BY <1>0, <1>1
  <2>2. Undelivered' = {q \in Undelivered : q < cut}
    BY <1>3, <1>5
  <2> QED
    BY <1>1, <1>2, <2>1, <2>2 DEF Abstract!Break
<1>6. \A p \in Undelivered : p + sizeAt[p] \in Nat
  BY <1>0 DEF Undelivered
<1> QED
  BY <1>1, <1>4, <1>5, <1>6

(* The beginning of the next session is a Break at the very start of what  *)
(* is still to be delivered: nothing.                                      *)
LEMMA BeginIsBreak ==
    ASSUME OrderInv, Clean, AcceptNewClient
    PROVE  0 \in 0..MaxStream /\ Abstract!Break(0)
<1>0. /\ sentEnd \in Nat /\ MaxStream \in Nat /\ DOMAIN sizeAt \subseteq Nat
      /\ \A p \in DOMAIN sizeAt : p < sentEnd
  BY CleanFacts DEF OrderInv
<1>1. sizeAt' = sizeAt /\ last' = last /\ frontier' = sentEnd
  BY BeginFacts DEF OrderInv
<1>2. Undelivered' = {}
  BY <1>0, <1>1 DEF Undelivered
<1>3. {p \in Undelivered : p < 0} = {}
  BY <1>0 DEF Undelivered
<1>4. Undelivered' = {p \in Undelivered : p < 0}
  BY <1>2, <1>3
<1>5. 0 \in 0..MaxStream
  BY <1>0
<1>6. (~dirty /\ pc # "shared")' \in {~dirty /\ pc # "shared", FALSE}
  BY Zenon DEF Clean
<1> QED
  BY <1>1, <1>4, <1>5, <1>6, Zenon DEF Abstract!Break

(* A slot accepted while its buffer is in use is a Break behind all.       *)
LEMMA SharingIsBreak ==
    ASSUME OrderInv, Clean, AcceptWhileInUse
    PROVE  MaxStream \in 0..MaxStream /\ Abstract!Break(MaxStream)
<1>0. /\ sentEnd \in Nat /\ MaxStream \in Nat /\ DOMAIN sizeAt \subseteq Nat
      /\ \A p \in DOMAIN sizeAt : p < sentEnd
      /\ sentEnd <= MaxStream
  BY CleanFacts DEF OrderInv, EndInv
<1>1. /\ UNCHANGED <<sizeAt, sentEnd, frontier, last>>
      /\ pc' = "shared"
  BY DEF AcceptWhileInUse, history
<1>2. Undelivered' = {p \in Undelivered : p < MaxStream}
  BY <1>0, <1>1 DEF Undelivered
<1>3. MaxStream \in 0..MaxStream
  BY <1>0
<1>4. (~dirty /\ pc # "shared")' \in {~dirty /\ pc # "shared", FALSE}
  BY <1>1, Zenon
<1> QED
  BY <1>1, <1>2, <1>3, <1>4, Zenon DEF Abstract!Break

(* Until a session begins with unread bytes of the one before it, or       *)
(* before that one let go of the buffer, the receive path of a slot is an  *)
(* ordered stream of packets that loses only a suffix, when a connection   *)
(* ends: each is dispatched once, in the order in which they were sent,    *)
(* however TCP cut the stream and wherever the buffer was compacted        *)
(* (BufferQueue, RecvMsg, ProcessPackets).                                 *)
THEOREM ReceiveImplementsPacketStream == Spec => RefinesPacketStream
<1>1. Init => Abstract!Init
  <2> SUFFICES ASSUME Init
               PROVE  Abstract!Init
    OBVIOUS
  <2>1. DOMAIN sizeAt = {}
    BY DEF Init
  <2>2. last = -1 /\ ~dirty
    BY Zenon DEF Init, NoByte
  <2>3. pc # "shared"
    BY DEF Init
  <2> QED
    BY <2>1, <2>2, <2>3 DEF Abstract!Init, Undelivered
<1>2. OrderInv /\ [Next]_vars
        => [Abstract!Next]_<<Undelivered, last, ~dirty /\ pc # "shared">>
  <2> SUFFICES ASSUME OrderInv, [Next]_vars
               PROVE  \/ Abstract!Next
                      \/ UNCHANGED <<Undelivered, last, ~dirty /\ pc # "shared">>
    OBVIOUS
  <2>1. CASE dirty
    BY <2>1, DirtyStays DEF Abstract!Next, Abstract!Void
  <2>2. CASE pc = "shared"
    <3>1. pc' = "shared"
      BY <2>2 DEF Next, Client, Kernel, Worker, AcceptNewClient, AcceptWhileInUse,
         DisconnectElsewhere, ClientSend, ClientClose, RecvComplete,
         RecvCompleteEmpty, HandleEmptyRecv, HandleRecv, RecvMsg, Defined,
         ProcessPacket, ProcessUnknownPacket, Quiet, vars, io
    <3> QED
      BY <2>2, <3>1 DEF Abstract!Next, Abstract!Void
  <2>3. CASE Clean
    <3>1. ASSUME NEW size \in Sizes, ClientSend(size)
          PROVE  Abstract!Next
      BY <2>3, <3>1, SendIsSend DEF Abstract!Next
    <3>2. ASSUME NEW size \in Bytes, ProcessPacket(size)
          PROVE  Abstract!Next
      BY <2>3, <3>2, DispatchIsDeliver DEF Abstract!Next
    <3>3. ASSUME NEW cut, Cut(cut)
          PROVE  Abstract!Next
      BY <2>3, <3>3, CutIsBreak DEF Abstract!Next
    <3>4. CASE Kernel \/ HandleRecv \/ RecvMsg \/ Quiet \/ UNCHANGED vars
      BY <3>4, OthersKeepStream DEF Undelivered
    <3>5. CASE AcceptNewClient \/ AcceptWhileInUse
      BY <2>3, <3>5, BeginIsBreak, SharingIsBreak DEF Abstract!Next
    <3>6. ~dirty
      BY <2>3 DEF Clean
    <3> QED
      BY <3>1, <3>2, <3>3, <3>4, <3>5, <3>6, ClosesCut, NothingUnknown
         DEF Next, Client, Worker, OrderInv
  <2> QED
    BY <2>1, <2>2, <2>3 DEF Clean
<1> QED
  BY OrderInvAlways, <1>1, <1>2, PTL
     DEF Spec, RefinesPacketStream, Abstract!Spec, Abstract!vars
=============================================================================
