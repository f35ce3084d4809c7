---------------------------- MODULE MCRecvBuffer ----------------------------
(***************************************************************************)
(* RecvBuffer on small instances, and the refinement of PacketStream.      *)
(***************************************************************************)
EXTENDS RecvBuffer

\* The sizes of the packets, and three chars that are none of them.
SomeBytes == Sizes \cup {-3, 0, 127}

\* The packets a client has sent whole that no worker has dispatched yet.
Undelivered == {p \in DOMAIN sizeAt : p >= frontier /\ p + sizeAt[p] <= sentEnd}

Abstract == INSTANCE PacketStream
                WITH Position <- 0..MaxStream,
                     pending <- Undelivered, delivered <- last, valid <- ~dirty /\ pc # "shared"

(* Until a session ends with part of a packet in the buffer, NetBuffer and *)
(* the handler around it implement the reliable ordered packet stream: the *)
(* bytes ProcessPackets reads at mReadIndex are those of the next packet   *)
(* sent, however TCP cut the stream and wherever the buffer was compacted. *)
RefinesPacketStream == Abstract!Spec
=============================================================================
