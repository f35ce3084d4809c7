------------------------ MODULE AsioConnectionProofs ------------------------
(***************************************************************************)
(* Proofs, for any number of clients and messages, that a queue of         *)
(* messages has one write under way, that no connection is destroyed while *)
(* its socket is open, that every read finds what it is for, that messages *)
(* arrive once and in order, and that a broadcast reaches or drops each    *)
(* connection.  Five invariants, each on top of those before: Inv (the     *)
(* writes of an end), Lists (the list of connections), Framing (what is on *)
(* the wires), Streams (where each message sent is), Settling (which of    *)
(* the messages of a client were sent on, and to whom).                    *)
(***************************************************************************)
EXTENDS AsioConnection, SequenceTheorems, FiniteSetTheorems, TLAPS

Reads ==
    [part : {"none", "validation", "header"}, open : BOOLEAN, msgTempIn : Messages \cup {None}]
        \cup [part : {"body"}, open : BOOLEAN, msgTempIn : Messages]
Writes == [part : Parts, open : BOOLEAN]
Owned == [remote : Clients, msg : Messages]

(* Types, as far as the writes depend on them.                             *)
Types ==
    /\ socket \in [Ends -> {"none", "open", "closed"}]
    /\ wire \in [Ends -> Seq(Units)]
    /\ jobs \in [Ends -> Seq(Messages)]
    /\ messagesOut \in [Ends -> Seq(Messages)]
    /\ reading \in [Ends -> Reads]
    /\ writing \in [Ends -> SUBSET Writes]
    /\ messagesIn \in Seq(Owned)
    /\ broadcast.msg \in Messages \cup {None}

\* The writes of messages at e that are under way.
MessageWrites(e) == {op \in writing[e] : op.part \in {"header", "body"}}

(* An end that has no socket yet has nothing to do, and no queued message  *)
(* comes from it; a server's end is read as long as it is connected.       *)
Unused(e) ==
    socket[e] = "none" => /\ jobs[e] = <<>> /\ messagesOut[e] = <<>>
                          /\ writing[e] = {} /\ reading[e] = NoRead
RemotesUsed == \A i \in DOMAIN messagesIn : socket[Server(messagesIn[i].remote)] # "none"

\* The handlers of e that are to come are to find it.
Sound(e) == IsConnected(e) /\ (e[2] = "server" => e[1] \notin late)

Busy(e) ==
    \A op \in MessageWrites(e) : messagesOut[e] # <<>> /\ MessageWrites(e) = {op}

GoesOn(e) ==
    /\ messagesOut[e] # <<>> => MessageWrites(e) # {}
    /\ reading[e] = NoRead => Op("validation", TRUE) \in writing[e] /\ e[2] = "client"

Inv ==
    /\ Types /\ RemotesUsed
    /\ \A e \in Ends : Unused(e) /\ Busy(e) /\ (Sound(e) => GoesOn(e))

LEMMA EndFacts ==
    /\ \A c \in Clients : Server(c) \in Ends /\ Client(c) \in Ends
    /\ \A e \in Ends : /\ Peer(e) \in Ends /\ Peer(e) # e
                       /\ e = <<e[1], e[2]>> /\ e[1] \in Clients
                       /\ e[2] = "server" => e = Server(e[1]) /\ Peer(e) = Client(e[1])
                       /\ e[2] # "server" => e = Client(e[1]) /\ Peer(e) = Server(e[1])
    /\ \A c, d \in Clients : Server(c) # Client(d)
BY DEF Ends, Server, Client, Peer

LEMMA NoReadType == NoRead \in Reads
BY DEF NoRead, Read, Reads

LEMMA InvInit == Init => Inv
<1> SUFFICES ASSUME Init
             PROVE  Inv
  OBVIOUS
<1>1. Types
  BY NoReadType DEF Init, Types, Silent
<1>2. RemotesUsed
  BY DEF Init, RemotesUsed
<1>3. ASSUME NEW e \in Ends
      PROVE  Unused(e) /\ Busy(e) /\ (Sound(e) => GoesOn(e))
  BY DEF Init, Busy, MessageWrites, Unused, Sound, IsConnected
<1> QED
  BY <1>1, <1>2, <1>3 DEF Inv

-----------------------------------------------------------------------------
(* What the parts of a handler keep.                                       *)

Same(e) == /\ socket'[e] = socket[e] /\ jobs'[e] = jobs[e]
           /\ messagesOut'[e] = messagesOut[e]
           /\ writing'[e] = writing[e] /\ reading'[e] = reading[e]

LEMMA OneEnd ==
    ASSUME Inv, NEW e \in Ends, Types', RemotesUsed', late \subseteq late',
           \A f \in Ends \ {e} : Same(f),
           Unused(e)', Busy(e)', Sound(e)' => GoesOn(e)'
    PROVE  Inv'
<1>1. ASSUME NEW f \in Ends, f # e
      PROVE  Unused(f)' /\ Busy(f)' /\ (Sound(f)' => GoesOn(f)')
  <2>1. Same(f) /\ Unused(f) /\ Busy(f) /\ (Sound(f) => GoesOn(f))
    BY <1>1 DEF Inv
  <2>2. Unused(f)'
    BY <2>1 DEF Same, Unused
  <2>3. Sound(f)' => Sound(f)
    BY <2>1 DEF Same, Sound, IsConnected
  <2>4. GoesOn(f) => GoesOn(f)'
    BY <2>1 DEF Same, GoesOn, MessageWrites
  <2>5. Busy(f)'
    BY <2>1 DEF Same, Busy, MessageWrites
  <2> QED
    BY <2>1, <2>2, <2>3, <2>4, <2>5
<1> QED
  BY <1>1 DEF Inv

LEMMA StartWriteFacts ==
    ASSUME Types, NEW e \in Ends, NEW part \in Parts, NEW m \in Messages,
           NEW others \in SUBSET Writes, StartWrite(e, part, m, others)
    PROVE  /\ writing' \in [Ends -> SUBSET Writes] /\ wire' \in [Ends -> Seq(Units)]
           /\ writing'[e] = others \cup {Op(part, IsConnected(e))}
           /\ \A f \in Ends \ {e} : writing'[f] = writing[f]
<1>1. Op(part, IsConnected(e)) \in Writes
  BY DEF Op, Writes, IsConnected
<1>2. Peer(e) \in Ends
  BY EndFacts
<1>3. <<part, m>> \in Units
  BY DEF Units
<1>4. Append(wire[Peer(e)], <<part, m>>) \in Seq(Units)
  BY <1>2, <1>3 DEF Types
<1>5. wire' \in [Ends -> Seq(Units)]
  BY <1>2, <1>4 DEF StartWrite, Types
<1> QED
  BY <1>1, <1>5 DEF StartWrite, Types

LEMMA StartReadFacts ==
    ASSUME Types, NEW e \in Ends, NEW part \in Parts, NEW m \in Messages \cup {None},
           part = "body" => m \in Messages, StartRead(e, part, m)
    PROVE  /\ reading' \in [Ends -> Reads]
           /\ reading'[e] # NoRead
           /\ \A f \in Ends \ {e} : reading'[f] = reading[f]
<1>1. Read(part, IsConnected(e), m) \in Reads
  BY DEF Read, Reads, IsConnected, Parts
<1>2. Read(part, IsConnected(e), m) # NoRead
  BY DEF Read, NoRead, Parts
<1> QED
  BY <1>1, <1>2 DEF StartRead, Types

LEMMA PostFacts ==
    ASSUME Types, NEW e, NEW m \in Messages, Post(e, m)
    PROVE  /\ jobs' \in [Ends -> Seq(Messages)]
           /\ \A f \in Ends \ {e} : jobs'[f] = jobs[f]
<1>1. \A f \in Ends : Append(jobs[f], m) \in Seq(Messages)
  BY DEF Types
<1> QED
  BY <1>1 DEF Post, Types

\* A socket that is closed makes nothing of its end sound.
LEMMA CloseKeepsInv ==
    ASSUME Inv, NEW e \in Ends, NEW read \in Reads, NEW writes \in SUBSET Writes,
           Close(e, read, writes), writes \subseteq writing[e], socket[e] # "none",
           UNCHANGED <<messagesIn, broadcast, late>>
    PROVE  Inv'
<1> USE DEF Inv, Types
<1>0. <<>> \in Seq(Units) /\ <<>> \in Seq(Messages)
  OBVIOUS
<1>1. socket' \in [Ends -> {"none", "open", "closed"}] /\ socket'[e] = "closed"
      /\ \A f \in Ends \ {e} : socket'[f] = socket[f]
  BY DEF Close
<1>2. Types' /\ \A f \in Ends \ {e} : Same(f)
  <2>1. /\ \/ reading' = [reading EXCEPT ![e] = NoRead]
           \/ reading' = [reading EXCEPT ![e] = read]
        /\ \/ writing' = [writing EXCEPT ![e] = {}]
           \/ writing' = [writing EXCEPT ![e] = writes]
        /\ wire' = wire \/ wire' = [wire EXCEPT ![e] = <<>>]
        /\ jobs' = jobs \/ jobs' = [jobs EXCEPT ![e] = <<>>]
        /\ messagesOut' = messagesOut \/ messagesOut' = [messagesOut EXCEPT ![e] = <<>>]
    <3> HIDE DEF Inv, Types
    <3>1. CASE /\ reading' = [reading EXCEPT ![e] = NoRead]
               /\ writing' = [writing EXCEPT ![e] = {}]
               /\ wire' = [wire EXCEPT ![e] = <<>>]
               /\ jobs' = [jobs EXCEPT ![e] = <<>>]
               /\ messagesOut' = [messagesOut EXCEPT ![e] = <<>>]
      BY <3>1
    <3>2. CASE /\ reading' = [reading EXCEPT ![e] = read]
               /\ writing' = [writing EXCEPT ![e] = writes]
               /\ UNCHANGED <<wire, jobs, messagesOut>>
      BY <3>2
    <3> QED
      BY <3>1, <3>2 DEF Close
  <2>2. reading' \in [Ends -> Reads] /\ \A f \in Ends \ {e} : reading'[f] = reading[f]
    <3>1. reading \in [Ends -> Reads]
      OBVIOUS
    <3> HIDE DEF Inv, Types
    <3> QED
      BY <2>1, <3>1, NoReadType
  <2>3. writing' \in [Ends -> SUBSET Writes] /\ \A f \in Ends \ {e} : writing'[f] = writing[f]
    BY <2>1
  <2>4. wire' \in [Ends -> Seq(Units)]
    BY <1>0, <2>1
  <2>5. jobs' \in [Ends -> Seq(Messages)] /\ \A f \in Ends \ {e} : jobs'[f] = jobs[f]
    BY <1>0, <2>1
  <2>6. messagesOut' \in [Ends -> Seq(Messages)]
        /\ \A f \in Ends \ {e} : messagesOut'[f] = messagesOut[f]
    BY <1>0, <2>1
  <2> QED
    <3>1. \A f \in Ends \ {e} : Same(f)
      <4> HIDE DEF Inv, Types
      <4> QED
        BY <1>1, <2>2, <2>3, <2>5, <2>6 DEF Same
    <3>2. messagesIn' \in Seq(Owned) /\ broadcast'.msg \in Messages \cup {None}
      OBVIOUS
    <3>3. Types'
      <4> HIDE DEF Inv
      <4> QED
        BY <1>1, <2>2, <2>3, <2>4, <2>5, <2>6, <3>2
    <3> QED
      BY <3>1, <3>3
<1>3. RemotesUsed'
  <2>1. ASSUME NEW i \in DOMAIN messagesIn
        PROVE  socket'[Server(messagesIn[i].remote)] # "none"
    <3>1. messagesIn[i] \in Owned
      OBVIOUS
    <3>2. Server(messagesIn[i].remote) \in Ends
      BY <3>1, EndFacts DEF Owned
    <3> QED
      BY <1>1, <3>2 DEF RemotesUsed
  <2> QED
    BY <2>1 DEF RemotesUsed
<1>4. Unused(e)' /\ (Sound(e)' => GoesOn(e)')
  BY <1>1 DEF Unused, Sound, IsConnected
<1>5. Busy(e)'
  <2>1. Busy(e)
    OBVIOUS
  <2>2. \/ writing'[e] = {}
        \/ writing'[e] \subseteq writing[e] /\ messagesOut'[e] = messagesOut[e]
    BY DEF Close
  <2> QED
    BY <2>1, <2>2 DEF Busy, MessageWrites
<1> QED
  BY <1>2, <1>3, <1>4, <1>5, OneEnd

-----------------------------------------------------------------------------
(* Handlers.                                                               *)

\* What a handler leaves alone that runs at e and neither opens nor closes.
LEMMA RemotesKept ==
    ASSUME Inv, UNCHANGED socket,
           \/ UNCHANGED messagesIn
           \/ messagesIn # <<>> /\ messagesIn' = Tail(messagesIn)
           \/ \E r \in Owned : /\ messagesIn' = Append(messagesIn, r)
                               /\ socket[Server(r.remote)] # "none"
    PROVE  RemotesUsed' /\ messagesIn' \in Seq(Owned)
<1> USE DEF Inv, Types, RemotesUsed
<1>1. CASE UNCHANGED messagesIn
  BY <1>1
<1>2. CASE messagesIn # <<>> /\ messagesIn' = Tail(messagesIn)
  <2>1. \A i \in DOMAIN Tail(messagesIn) :
            i + 1 \in DOMAIN messagesIn /\ Tail(messagesIn)[i] = messagesIn[i + 1]
    BY <1>2
  <2> QED
    BY <1>2, <2>1
<1>3. ASSUME NEW r \in Owned, messagesIn' = Append(messagesIn, r),
             socket[Server(r.remote)] # "none"
      PROVE  RemotesUsed' /\ messagesIn' \in Seq(Owned)
  <2>1. \A i \in DOMAIN messagesIn' :
            \/ messagesIn'[i] = r
            \/ i \in DOMAIN messagesIn /\ messagesIn'[i] = messagesIn[i]
    BY <1>3
  <2> QED
    BY <1>3, <2>1
<1> QED
  BY <1>1, <1>2, <1>3

LEMMA SendKeepsInv ==
    ASSUME Inv, NEW e \in Ends, Send(e)
    PROVE  Inv'
<1> USE DEF Inv, Types
<1>0. jobs[e] # <<>> /\ jobs[e] \in Seq(Messages) /\ messagesOut[e] \in Seq(Messages)
  <2>1. jobs[e] # <<>>
    BY DEF Send
  <2>2. jobs[e] \in Seq(Messages)
    OBVIOUS
  <2>3. messagesOut[e] \in Seq(Messages)
    OBVIOUS
  <2> QED
    BY <2>1, <2>2, <2>3
<1> DEFINE m == Head(jobs[e])
           out == Append(messagesOut[e], m)
<1>1. m \in Messages /\ Tail(jobs[e]) \in Seq(Messages)
  <2> HIDE DEF Inv, Types
  <2> QED
    BY <1>0
<1>2. out \in Seq(Messages) /\ out # <<>>
  <2> HIDE DEF Inv, Types, m
  <2> QED
    BY <1>0, <1>1, AppendProperties
<1> HIDE DEF m, out
<1>3. /\ jobs' = [jobs EXCEPT ![e] = Tail(jobs[e])]
      /\ messagesOut' = [messagesOut EXCEPT ![e] = out]
      /\ UNCHANGED <<socket, reading, messagesIn, broadcast, late>>
      /\ IF messagesOut[e] = <<>> THEN StartWrite(e, "header", m, writing[e])
                                  ELSE UNCHANGED <<writing, wire>>
  BY DEF Send, m, out, mains, history
<1>4. /\ jobs' \in [Ends -> Seq(Messages)] /\ messagesOut' \in [Ends -> Seq(Messages)]
      /\ messagesOut'[e] # <<>>
      /\ \A f \in Ends \ {e} : jobs'[f] = jobs[f] /\ messagesOut'[f] = messagesOut[f]
  BY <1>1, <1>2, <1>3
<1>5. socket[e] # "none" /\ Unused(e)'
  BY <1>0, <1>3 DEF Unused
<1>6. RemotesUsed'
  BY <1>3, RemotesKept
<1>7. Busy(e) /\ writing[e] \in SUBSET Writes
  OBVIOUS
<1>8. CASE messagesOut[e] = <<>>
  <2>1. "header" \in Parts
    BY DEF Parts
  <2>2. /\ writing' \in [Ends -> SUBSET Writes] /\ wire' \in [Ends -> Seq(Units)]
        /\ writing'[e] = writing[e] \cup {Op("header", IsConnected(e))}
        /\ \A f \in Ends \ {e} : writing'[f] = writing[f]
    BY <1>1, <1>3, <1>7, <1>8, <2>1, StartWriteFacts
  <2>3. Types' /\ \A f \in Ends \ {e} : Same(f)
    BY <1>3, <1>4, <2>2 DEF Same
  <2>4. MessageWrites(e)' = {Op("header", IsConnected(e))}
    BY <1>7, <1>8, <2>2 DEF Busy, MessageWrites, Op
  <2>5. Busy(e)'
    BY <1>4, <2>4 DEF Busy
  <2>6. Sound(e)' => GoesOn(e)'
    BY <1>3, <2>2, <2>4 DEF Sound, IsConnected, GoesOn
  <2> QED
    BY <1>3, <1>5, <1>6, <2>3, <2>5, <2>6, OneEnd
<1>9. CASE messagesOut[e] # <<>>
  <2>1. UNCHANGED <<writing, wire>>
    BY <1>3, <1>9
  <2>2. Types' /\ \A f \in Ends \ {e} : Same(f)
    BY <1>3, <1>4, <2>1 DEF Same
  <2>3. Busy(e)' /\ (Sound(e)' => GoesOn(e)')
    BY <1>3, <1>4, <1>7, <1>9, <2>1 DEF Sound, IsConnected, GoesOn, Busy, MessageWrites
  <2> QED
    BY <1>3, <1>5, <1>6, <2>2, <2>3, OneEnd
<1> QED
  BY <1>8, <1>9

\* A write that goes on with the next part or the next message.
LEMMA NextWrite ==
    ASSUME Inv, NEW e \in Ends, NEW op \in MessageWrites(e), NEW part \in {"header", "body"},
           NEW m \in Messages, StartWrite(e, part, m, Others(e, op)),
           UNCHANGED <<socket, jobs, reading, messagesIn, broadcast, late>>,
           messagesOut' \in [Ends -> Seq(Messages)], messagesOut'[e] # <<>>,
           \A f \in Ends \ {e} : messagesOut'[f] = messagesOut[f]
    PROVE  Inv'
<1> USE DEF Inv, Types
<1>1. Busy(e) /\ Unused(e) /\ (Sound(e) => GoesOn(e)) /\ writing[e] \in SUBSET Writes
  OBVIOUS
<1>2. Others(e, op) \in SUBSET Writes /\ part \in Parts
  BY <1>1 DEF Others, Parts
<1>3. /\ writing' \in [Ends -> SUBSET Writes] /\ wire' \in [Ends -> Seq(Units)]
      /\ writing'[e] = Others(e, op) \cup {Op(part, IsConnected(e))}
      /\ \A f \in Ends \ {e} : writing'[f] = writing[f]
  BY <1>2, StartWriteFacts
<1>4. Types' /\ \A f \in Ends \ {e} : Same(f)
  BY <1>3 DEF Same
<1>5. MessageWrites(e)' = {Op(part, IsConnected(e))}
  BY <1>1, <1>3 DEF Busy, MessageWrites, Others, Op
<1>6. Busy(e)'
  BY <1>5 DEF Busy
<1>7. Unused(e)'
  BY <1>1 DEF Unused, MessageWrites
<1>8. ASSUME Sound(e)'
      PROVE  GoesOn(e)'
  <2>1. GoesOn(e)
    BY <1>1, <1>8 DEF Sound, IsConnected
  <2>2. Op("validation", TRUE) \in writing[e] => Op("validation", TRUE) \in writing'[e]
    BY <1>3 DEF MessageWrites, Others, Op
  <2> QED
    BY <1>5, <2>1, <2>2 DEF GoesOn
<1>9. RemotesUsed'
  BY RemotesKept
<1> QED
  BY <1>4, <1>6, <1>7, <1>8, <1>9, OneEnd

LEMMA WrittenKeepsInv ==
    ASSUME Inv, NEW e \in Ends, NEW op \in MessageWrites(e), Written(e, op),
           UNCHANGED <<socket, jobs, messagesIn, broadcast, late>>
    PROVE  Inv'
<1> USE DEF Inv, Types
<1>1. Busy(e) /\ Unused(e) /\ (Sound(e) => GoesOn(e)) /\ writing[e] \in SUBSET Writes
  OBVIOUS
<1>2. messagesOut[e] \in Seq(Messages) /\ messagesOut[e] # <<>>
  BY <1>1 DEF Busy
<1> DEFINE rest == Tail(messagesOut[e])
<1>3. rest \in Seq(Messages)
  BY <1>2
<1>4. /\ messagesOut' = [messagesOut EXCEPT ![e] = rest] /\ UNCHANGED reading
      /\ rest # <<>> => StartWrite(e, "header", Head(rest), Others(e, op))
      /\ rest = <<>> => writing' = [writing EXCEPT ![e] = Others(e, op)] /\ UNCHANGED wire
  BY DEF Written
<1>5. rest # <<>> => Head(rest) \in Messages
  BY <1>3
<1> HIDE DEF rest
<1>6. /\ messagesOut' \in [Ends -> Seq(Messages)] /\ messagesOut'[e] = rest
      /\ \A f \in Ends \ {e} : messagesOut'[f] = messagesOut[f]
  BY <1>3, <1>4
<1>7. CASE rest # <<>>
  BY <1>4, <1>5, <1>6, <1>7, NextWrite
<1>8. CASE rest = <<>>
  <2>1. /\ writing' \in [Ends -> SUBSET Writes] /\ writing'[e] = writing[e] \ {op}
        /\ \A f \in Ends \ {e} : writing'[f] = writing[f]
    BY <1>1, <1>4, <1>8 DEF Others
  <2>2. Types' /\ \A f \in Ends \ {e} : Same(f)
    BY <1>4, <1>6, <1>8, <2>1 DEF Same
  <2>3. MessageWrites(e)' = {}
    BY <1>1, <2>1 DEF Busy, MessageWrites
  <2>4. Busy(e)' /\ Unused(e)'
    BY <1>1, <2>3 DEF Busy, Unused, MessageWrites
  <2>5. ASSUME Sound(e)'
        PROVE  GoesOn(e)'
    <3>1. GoesOn(e)
      BY <1>1, <2>5 DEF Sound, IsConnected
    <3>2. Op("validation", TRUE) \in writing[e] => Op("validation", TRUE) \in writing'[e]
      BY <2>1 DEF MessageWrites, Op
    <3> QED
      BY <1>4, <1>6, <1>8, <3>1, <3>2 DEF GoesOn
  <2>6. RemotesUsed'
    BY RemotesKept
  <2> QED
    BY <2>2, <2>4, <2>5, <2>6, OneEnd
<1> QED
  BY <1>7, <1>8

LEMMA WritesKeepInv ==
    ASSUME Inv, NEW e \in Ends, NEW op \in writing[e], WriteHeader(e, op) \/ WriteBody(e, op)
    PROVE  Inv'
<1>1. op \in MessageWrites(e)
  BY DEF WriteHeader, WriteBody, MessageWrites
<1>2. UNCHANGED <<socket, jobs, messagesIn, broadcast, late>>
  BY DEF WriteHeader, WriteBody, mains, history
<1>3. CASE Written(e, op)
  BY <1>1, <1>2, <1>3, WrittenKeepsInv
<1>4. CASE ~Written(e, op)
  <2>1. /\ StartWrite(e, "body", Head(messagesOut[e]), Others(e, op))
        /\ UNCHANGED <<messagesOut, reading>>
    BY <1>4 DEF WriteHeader, WriteBody
  <2>2. messagesOut[e] \in Seq(Messages) /\ messagesOut[e] # <<>>
    BY <1>1 DEF Inv, Types, Busy
  <2>3. Head(messagesOut[e]) \in Messages
    BY <2>2
  <2>4. messagesOut' \in [Ends -> Seq(Messages)] /\ messagesOut'[e] # <<>>
        /\ \A f \in Ends \ {e} : messagesOut'[f] = messagesOut[f]
    BY <2>1, <2>2 DEF Inv, Types
  <2> QED
    BY <1>1, <1>2, <2>1, <2>3, <2>4, NextWrite
<1> QED
  BY <1>3, <1>4

LEMMA WriteValidationKeepsInv ==
    ASSUME Inv, NEW e \in Ends, NEW op \in writing[e], WriteValidation(e, op)
    PROVE  Inv'
<1> USE DEF Inv, Types
<1>1. Busy(e) /\ Unused(e) /\ (Sound(e) => GoesOn(e)) /\ writing[e] \in SUBSET Writes
  OBVIOUS
<1>2. UNCHANGED <<socket, wire, jobs, messagesOut, messagesIn, broadcast, late>>
  BY DEF WriteValidation, mains, history
<1>3. op.part = "validation" /\ writing' = [writing EXCEPT ![e] = writing[e] \ {op}]
  BY DEF WriteValidation, Others
<1>4. /\ writing' \in [Ends -> SUBSET Writes] /\ writing'[e] = writing[e] \ {op}
      /\ \A f \in Ends \ {e} : writing'[f] = writing[f]
  BY <1>1, <1>3
<1>5. MessageWrites(e)' = MessageWrites(e)
  BY <1>3, <1>4 DEF MessageWrites
<1>6. Busy(e)' /\ Unused(e)'
  BY <1>1, <1>2, <1>5 DEF Busy, Unused
<1>7. RemotesUsed'
  BY <1>2, RemotesKept
<1>8. CASE e[2] = "client"
  <2>1. StartRead(e, "header", None)
    BY <1>8 DEF WriteValidation
  <2>2. /\ reading' \in [Ends -> Reads] /\ reading'[e] # NoRead
        /\ \A f \in Ends \ {e} : reading'[f] = reading[f]
    BY <2>1, StartReadFacts DEF Parts
  <2>3. Types' /\ \A f \in Ends \ {e} : Same(f)
    BY <1>2, <1>4, <2>2 DEF Same
  <2>4. Sound(e)' => GoesOn(e)'
    BY <1>1, <1>2, <1>5, <2>2 DEF Sound, IsConnected, GoesOn
  <2> QED
    BY <1>2, <1>6, <1>7, <2>3, <2>4, OneEnd
<1>9. CASE e[2] # "client"
  <2>1. UNCHANGED reading
    BY <1>9 DEF WriteValidation
  <2>2. Types' /\ \A f \in Ends \ {e} : Same(f)
    BY <1>2, <1>4, <2>1 DEF Same
  <2>3. Sound(e)' => GoesOn(e)'
    BY <1>1, <1>2, <1>5, <1>9, <2>1 DEF Sound, IsConnected, GoesOn
  <2> QED
    BY <1>2, <1>6, <1>7, <2>2, <2>3, OneEnd
<1> QED
  BY <1>8, <1>9

\* A read that ends and starts the next, and touches no write.
LEMMA NextRead ==
    ASSUME Inv, NEW e \in Ends, NEW part \in Parts, NEW m \in Messages \cup {None},
           part = "body" => m \in Messages, StartRead(e, part, m), socket[e] # "none",
           wire' \in [Ends -> Seq(Units)], messagesIn' \in Seq(Owned), RemotesUsed',
           UNCHANGED <<socket, jobs, messagesOut, writing, broadcast, late>>
    PROVE  Inv'
<1> USE DEF Inv, Types
<1>1. /\ reading' \in [Ends -> Reads] /\ reading'[e] # NoRead
      /\ \A f \in Ends \ {e} : reading'[f] = reading[f]
  BY StartReadFacts
<1>2. Types' /\ \A f \in Ends \ {e} : Same(f)
  BY <1>1 DEF Same
<1>3. Busy(e)' /\ Unused(e)' /\ (Sound(e)' => GoesOn(e)')
  BY <1>1 DEF Busy, Unused, Sound, IsConnected, GoesOn, MessageWrites
<1> QED
  BY <1>2, <1>3, OneEnd

LEMMA ArrivesFacts ==
    ASSUME Inv, NEW e \in Ends, NEW part, Arrives(e, part)
    PROVE  /\ socket[e] # "none"
           /\ Head(wire[e])[2] \in Messages
           /\ Tail(wire[e]) \in Seq(Units)
           /\ Take(e) => wire' \in [Ends -> Seq(Units)]
<1> USE DEF Inv, Types
<1>1. Unused(e) /\ reading[e].open
  BY DEF Arrives
<1>2. ~NoRead.open
  BY DEF NoRead, Read
<1>3. socket[e] # "none"
  BY <1>1, <1>2 DEF Unused
<1>4. wire[e] \in Seq(Units) /\ wire[e] # <<>>
  BY DEF Arrives
<1>5. Head(wire[e]) \in Units /\ Tail(wire[e]) \in Seq(Units)
  BY <1>4
<1>6. Head(wire[e])[2] \in Messages
  BY <1>5 DEF Units
<1> QED
  BY <1>3, <1>5, <1>6 DEF Take

LEMMA ServerReadKeepsInv ==
    ASSUME Inv, NEW e \in Ends, ServerReadValidation(e)
    PROVE  Inv'
<1>1. Arrives(e, "validation") /\ UNCHANGED <<messagesIn, broadcast, late>>
  BY DEF ServerReadValidation, mains, history
<1>2. socket[e] # "none" /\ (Take(e) => wire' \in [Ends -> Seq(Units)])
  BY <1>1, ArrivesFacts
<1>3. CASE Close(e, NoRead, writing[e])
  <2>1. writing[e] \in SUBSET Writes
    BY DEF Inv, Types
  <2> QED
    BY <1>1, <1>2, <1>3, <2>1, NoReadType, CloseKeepsInv
<1>4. CASE ~Close(e, NoRead, writing[e])
  <2>1. /\ StartRead(e, "header", None) /\ Take(e)
        /\ UNCHANGED <<socket, jobs, messagesOut, writing>>
    BY <1>4 DEF ServerReadValidation
  <2>2. messagesIn' \in Seq(Owned) /\ RemotesUsed'
    BY <1>1, <2>1, RemotesKept
  <2>3. "header" \in Parts /\ None \in Messages \cup {None}
    BY DEF Parts
  <2> QED
    BY <1>1, <1>2, <2>1, <2>2, <2>3, NextRead
<1> QED
  BY <1>3, <1>4

LEMMA ClientReadKeepsInv ==
    ASSUME Inv, NEW e \in Ends, ClientReadValidation(e)
    PROVE  Inv'
<1> USE DEF Inv, Types
<1>1. /\ e[2] = "client" /\ Arrives(e, "validation")
      /\ reading' = [reading EXCEPT ![e] = NoRead]
      /\ UNCHANGED <<socket, jobs, messagesOut, messagesIn, broadcast, late>>
  BY DEF ClientReadValidation, mains, history
<1>2. PICK answer \in {"solution", "wrong"} :
         LET there == Append(wire[Peer(e)], Handshake(answer, e[1])) IN
         /\ wire' = [wire EXCEPT ![e] = Tail(@),
                                 ![Peer(e)] = IF socket[Peer(e)] = "closed" THEN @ ELSE there]
         /\ writing' = [writing EXCEPT ![e] = @ \cup {Op("validation", TRUE)}]
  BY DEF ClientReadValidation
<1>3. wire' \in [Ends -> Seq(Units)]
  <2>1. Handshake(answer, e[1]) \in Units
    <3>1. Message(answer, e[1], 0) \in Messages
      BY EndFacts, AsioAssumption DEF Message, Messages, Kinds, Handshakes, AsioAssumption
    <3> QED
      BY <3>1 DEF Handshake, Units, Parts
  <2>2. Peer(e) \in Ends
    BY EndFacts
  <2>3. Tail(wire[e]) \in Seq(Units) /\ wire[Peer(e)] \in Seq(Units)
    BY <1>1, <2>2, ArrivesFacts
  <2>4. Append(wire[Peer(e)], Handshake(answer, e[1])) \in Seq(Units)
    BY <2>1, <2>3
  <2>5. [wire EXCEPT ![e] = Tail(@)] \in [Ends -> Seq(Units)]
    BY <2>3
  <2>6. \A w \in [Ends -> Seq(Units)], s \in Seq(Units) :
            [w EXCEPT ![Peer(e)] = s] \in [Ends -> Seq(Units)]
    OBVIOUS
  <2>7. Peer(e) # e
    BY EndFacts
  <2> QED
    BY <1>2, <2>3, <2>4, <2>5, <2>6, <2>7
<1>4. /\ writing' \in [Ends -> SUBSET Writes]
      /\ writing'[e] = writing[e] \cup {Op("validation", TRUE)}
      /\ \A f \in Ends \ {e} : writing'[f] = writing[f]
  <2>1. Op("validation", TRUE) \in Writes
    BY DEF Op, Writes, Parts
  <2> QED
    BY <1>2, <2>1
<1>5. /\ reading' \in [Ends -> Reads]
      /\ \A f \in Ends \ {e} : reading'[f] = reading[f]
  BY <1>1, NoReadType
<1>6. Types' /\ \A f \in Ends \ {e} : Same(f)
  BY <1>1, <1>3, <1>4, <1>5 DEF Same
<1>7. MessageWrites(e)' = MessageWrites(e)
  BY <1>4 DEF MessageWrites, Op
<1>8. socket[e] # "none"
  BY <1>1, ArrivesFacts
<1>9. Busy(e)' /\ Unused(e)'
  BY <1>1, <1>7, <1>8 DEF Busy, Unused
<1>10. Sound(e)' => GoesOn(e)'
  BY <1>1, <1>4, <1>7 DEF Sound, IsConnected, GoesOn
<1>11. RemotesUsed'
  BY <1>1, RemotesKept
<1> QED
  BY <1>1, <1>6, <1>9, <1>10, <1>11, OneEnd

LEMMA IncomingKeepsInv ==
    ASSUME Inv, NEW e \in Ends, NEW m \in Messages, AddIncomingMessageQueue(e, m),
           socket[e] # "none", wire' \in [Ends -> Seq(Units)],
           UNCHANGED <<socket, jobs, messagesOut, writing, broadcast, late>>
    PROVE  Inv'
<1>1. messagesIn' \in Seq(Owned) /\ RemotesUsed'
  <2>1. CASE e[2] = "server"
    <3> DEFINE r == [remote |-> e[1], msg |-> m]
    <3>1. r \in Owned /\ Server(r.remote) = e
      BY <2>1, EndFacts DEF Owned
    <3>2. messagesIn' = Append(messagesIn, r)
      BY <2>1 DEF AddIncomingMessageQueue
    <3> QED
      BY <3>1, <3>2, RemotesKept
  <2>2. CASE e[2] # "server"
    BY <2>2, RemotesKept DEF AddIncomingMessageQueue
  <2> QED
    BY <2>1, <2>2
<1>2. StartRead(e, "header", None)
  BY DEF AddIncomingMessageQueue
<1>3. "header" \in Parts /\ None \in Messages \cup {None}
  BY DEF Parts
<1> QED
  BY <1>1, <1>2, <1>3, NextRead

LEMMA ReadHeaderKeepsInv ==
    ASSUME Inv, NEW e \in Ends, ReadHeader(e)
    PROVE  Inv'
<1> DEFINE m == Head(wire[e])[2]
<1>1. /\ Arrives(e, "header") /\ Take(e)
      /\ UNCHANGED <<socket, jobs, messagesOut, writing, broadcast, late>>
  BY DEF ReadHeader, mains
<1>2. socket[e] # "none" /\ m \in Messages /\ wire' \in [Ends -> Seq(Units)]
  BY <1>1, ArrivesFacts
<1>3. \/ StartRead(e, "body", m) /\ UNCHANGED messagesIn
      \/ AddIncomingMessageQueue(e, m)
  BY DEF ReadHeader
<1> HIDE DEF m
<1>4. CASE StartRead(e, "body", m) /\ UNCHANGED messagesIn
  <2>1. messagesIn' \in Seq(Owned) /\ RemotesUsed'
    BY <1>1, <1>4, RemotesKept
  <2>2. "body" \in Parts
    BY DEF Parts
  <2> QED
    BY <1>1, <1>2, <1>4, <2>1, <2>2, NextRead
<1>5. CASE AddIncomingMessageQueue(e, m)
  BY <1>1, <1>2, <1>5, IncomingKeepsInv
<1> QED
  BY <1>3, <1>4, <1>5

LEMMA ReadBodyKeepsInv ==
    ASSUME Inv, NEW e \in Ends, ReadBody(e)
    PROVE  Inv'
<1>1. /\ Arrives(e, "body") /\ Take(e)
      /\ AddIncomingMessageQueue(e, reading[e].msgTempIn)
      /\ UNCHANGED <<socket, jobs, messagesOut, writing, broadcast, late>>
  BY DEF ReadBody, mains
<1>2. socket[e] # "none" /\ wire' \in [Ends -> Seq(Units)]
  BY <1>1, ArrivesFacts
<1>3. reading[e] \in Reads /\ reading[e].part = "body"
  BY <1>1 DEF Inv, Types, Arrives
<1>4. reading[e].msgTempIn \in Messages
  BY <1>3 DEF Reads
<1> QED
  BY <1>1, <1>2, <1>4, IncomingKeepsInv

LEMMA FailuresKeepInv ==
    ASSUME Inv, NEW e \in Ends,
           ReadFails(e) \/ (\E op \in writing[e] : WriteFails(e, op)) \/
           (e[2] = "client" /\ Leave(e[1]))
    PROVE  Inv'
<1> USE DEF Inv, Types
<1>1. /\ Unused(e) /\ writing[e] \in SUBSET Writes /\ reading[e] \in Reads
      /\ NoRead \in Reads /\ {} \in SUBSET Writes
  BY NoReadType
<1>2. CASE ReadFails(e)
  <2>1. Close(e, NoRead, writing[e]) /\ socket[e] # "none"
        /\ UNCHANGED <<messagesIn, broadcast, late>>
    BY <1>1, <1>2 DEF ReadFails, Unused, mains, history
  <2> QED
    BY <1>1, <2>1, CloseKeepsInv
<1>3. ASSUME NEW op \in writing[e], WriteFails(e, op)
      PROVE  Inv'
  <2>1. Close(e, reading[e], writing[e] \ {op}) /\ socket[e] # "none"
        /\ UNCHANGED <<messagesIn, broadcast, late>>
    BY <1>1, <1>3 DEF WriteFails, Others, Unused, mains, history
  <2>2. writing[e] \ {op} \in SUBSET Writes /\ writing[e] \ {op} \subseteq writing[e]
    BY <1>1
  <2> QED
    BY <1>1, <2>1, <2>2, CloseKeepsInv
<1>4. CASE e[2] = "client" /\ Leave(e[1])
  <2>1. e = Client(e[1])
    BY <1>4, EndFacts
  <2>2. Close(e, NoRead, {}) /\ socket[e] # "none"
        /\ UNCHANGED <<messagesIn, broadcast, late>>
    BY <1>4, <2>1 DEF Leave, IsConnected, mains, history
  <2> QED
    BY <1>1, <2>2, CloseKeepsInv
<1> QED
  BY <1>2, <1>3, <1>4

-----------------------------------------------------------------------------
(* Connections that begin and that are destroyed.                          *)

LEMMA RunsLateKeepsInv ==
    ASSUME Inv, NEW c \in Clients, RunsLate(c)
    PROVE  Inv'
<1> USE DEF Inv, Types
<1> DEFINE e == Server(c)
<1>1. e \in Ends /\ e[2] = "server" /\ e[1] = c
  BY DEF Server, Ends
<1>2. /\ socket[e] # "none" /\ late' = late \cup {c}
      /\ jobs' = [jobs EXCEPT ![e] = <<>>]
      /\ reading' = [reading EXCEPT ![e] = NoRead]
      /\ writing' = [writing EXCEPT ![e] = {}]
      /\ UNCHANGED <<socket, wire, messagesOut, messagesIn, broadcast>>
  BY DEF RunsLate, mains
<1> HIDE DEF e
<1>3. <<>> \in Seq(Messages)
  OBVIOUS
<1>4. Types' /\ \A f \in Ends \ {e} : Same(f)
  BY <1>1, <1>2, <1>3, NoReadType DEF Same
<1>5. Unused(e)' /\ Busy(e)' /\ ~Sound(e)'
  BY <1>1, <1>2 DEF Unused, Busy, MessageWrites, Sound
<1>6. RemotesUsed'
  BY <1>2, RemotesKept
<1> QED
  BY <1>1, <1>2, <1>4, <1>5, <1>6, OneEnd

LEMMA OpensRemotes ==
    ASSUME Inv, NEW e \in Ends, socket' = [socket EXCEPT ![e] = "open"],
           UNCHANGED messagesIn
    PROVE  RemotesUsed'
<1> USE DEF Inv, Types, RemotesUsed
<1>1. \A f \in Ends : socket[f] # "none" => socket'[f] # "none"
  OBVIOUS
<1>2. \A i \in DOMAIN messagesIn : messagesIn[i] \in Owned
  OBVIOUS
<1>3. \A i \in DOMAIN messagesIn : Server(messagesIn[i].remote) \in Ends
  BY <1>2, EndFacts DEF Owned
<1> QED
  BY <1>1, <1>3

LEMMA ConnectKeepsInv ==
    ASSUME Inv, NEW c \in Clients, ConnectToServer(c)
    PROVE  Inv'
<1> USE DEF Inv, Types
<1> DEFINE e == Client(c)
<1>1. e \in Ends
  BY EndFacts
<1>2. /\ socket[e] = "none" /\ socket' = [socket EXCEPT ![e] = "open"]
      /\ reading' = [reading EXCEPT ![e] = Read("validation", TRUE, None)]
      /\ UNCHANGED <<wire, jobs, messagesOut, writing, messagesIn, broadcast, late>>
  BY DEF ConnectToServer, mains, history
<1> HIDE DEF e
<1>3. Read("validation", TRUE, None) \in Reads /\ Read("validation", TRUE, None) # NoRead
  BY DEF Read, Reads, NoRead
<1>4. Types' /\ \A f \in Ends \ {e} : Same(f)
  BY <1>1, <1>2, <1>3 DEF Same
<1>5. Unused(e) /\ Busy(e)
  BY <1>1
<1>6. Unused(e)' /\ Busy(e)' /\ GoesOn(e)'
  BY <1>1, <1>2, <1>3, <1>5 DEF Unused, Busy, GoesOn, MessageWrites
<1> QED
  BY <1>1, <1>2, <1>4, <1>6, OpensRemotes, OneEnd

LEMMA AcceptKeepsInv ==
    ASSUME Inv, NEW c \in Clients, WaitForClientConnection(c)
    PROVE  Inv'
<1> USE DEF Inv, Types
<1> DEFINE e == Server(c)
           m == Message("ServerAccept", c, 0)
<1>1. e \in Ends /\ Client(c) \in Ends
  BY EndFacts
<1>2. /\ socket[e] = "none" /\ socket' = [socket EXCEPT ![e] = "open"]
      /\ Post(e, m)
      /\ writing' = [writing EXCEPT ![e] = {Op("validation", TRUE)}]
      /\ wire' = [wire EXCEPT ![Client(c)] = Append(@, Handshake("puzzle", c))]
      /\ reading' = [reading EXCEPT ![e] = Read("validation", TRUE, None)]
      /\ UNCHANGED <<messagesOut, messagesIn, broadcast, late>>
  BY DEF WaitForClientConnection
<1>3. m \in Messages
  BY AsioAssumption DEF Message, Messages, Kinds, AsioAssumption
<1> HIDE DEF e, m
<1>4. jobs' \in [Ends -> Seq(Messages)] /\ \A f \in Ends \ {e} : jobs'[f] = jobs[f]
  BY <1>1, <1>2, <1>3, PostFacts
<1>5. Read("validation", TRUE, None) \in Reads /\ Read("validation", TRUE, None) # NoRead
  BY DEF Read, Reads, NoRead
<1>6. Handshake("puzzle", c) \in Units
  <2>1. Message("puzzle", c, 0) \in Messages
    BY AsioAssumption DEF Message, Messages, Kinds, Handshakes, AsioAssumption
  <2> QED
    BY <2>1 DEF Handshake, Units, Parts
<1>7. Append(wire[Client(c)], Handshake("puzzle", c)) \in Seq(Units)
  BY <1>1, <1>6
<1>8. wire' \in [Ends -> Seq(Units)]
  BY <1>2, <1>7
<1>9. /\ writing' \in [Ends -> SUBSET Writes] /\ writing'[e] = {Op("validation", TRUE)}
      /\ \A f \in Ends \ {e} : writing'[f] = writing[f]
  <2>1. Op("validation", TRUE) \in Writes
    BY DEF Op, Writes, Parts
  <2> QED
    BY <1>1, <1>2, <2>1
<1>10. Types' /\ \A f \in Ends \ {e} : Same(f)
  BY <1>1, <1>2, <1>4, <1>5, <1>8, <1>9 DEF Same
<1>11. Unused(e) /\ messagesOut[e] = <<>>
  BY <1>1, <1>2 DEF Unused
<1>12. MessageWrites(e)' = {}
  BY <1>9 DEF MessageWrites, Op
<1>13. Unused(e)' /\ Busy(e)' /\ GoesOn(e)'
  BY <1>1, <1>2, <1>5, <1>9, <1>11, <1>12 DEF Unused, Busy, GoesOn
<1> QED
  BY <1>1, <1>2, <1>10, <1>13, OpensRemotes, OneEnd

-----------------------------------------------------------------------------
(* The main threads.                                                       *)

\* Send only posts; an end without a socket is not sent to.
LEMMA PostingKeepsInv ==
    ASSUME Inv, NEW e \in Ends, NEW m \in Messages, Post(e, m), socket[e] # "none",
           RemotesUsed', messagesIn' \in Seq(Owned), broadcast'.msg \in Messages \cup {None},
           UNCHANGED <<socket, wire, messagesOut, reading, writing, late>>
    PROVE  Inv'
<1> USE DEF Inv, Types
<1>1. jobs' \in [Ends -> Seq(Messages)] /\ \A f \in Ends \ {e} : jobs'[f] = jobs[f]
  BY PostFacts
<1>2. Types' /\ \A f \in Ends \ {e} : Same(f)
  BY <1>1 DEF Same
<1>3. Unused(e)' /\ Busy(e)' /\ (Sound(e)' => GoesOn(e)')
  BY DEF Unused, Busy, Sound, IsConnected, GoesOn, MessageWrites
<1> QED
  BY <1>2, <1>3, OneEnd

\* A step that touches no end.
LEMMA RestKeepsInv ==
    ASSUME Inv, UNCHANGED <<wires, late>>, RemotesUsed', messagesIn' \in Seq(Owned),
           broadcast'.msg \in Messages \cup {None}
    PROVE  Inv'
<1> USE DEF Inv, Types, wires
<1>1. Types'
  OBVIOUS
<1>2. ASSUME NEW f \in Ends
      PROVE  Unused(f)' /\ Busy(f)' /\ (Sound(f)' => GoesOn(f)')
  BY DEF Unused, Busy, Sound, IsConnected, GoesOn, MessageWrites
<1> QED
  BY <1>1, <1>2

LEMMA HandleIncomingKeepsInv ==
    ASSUME Inv, UNCHANGED <<wires, messagesIn, broadcast, late>>
    PROVE  Inv'
<1>1. RemotesUsed'
  BY RemotesKept DEF wires
<1> QED
  BY <1>1, RestKeepsInv DEF Inv, Types

(* What the main threads need besides: the messages given to Send, whose   *)
(* number a client puts into the next, and that broadcast is a record.     *)
Sending ==
    /\ sent \in [Ends -> Seq(Messages)]
    /\ DOMAIN broadcast = {"msg", "next", "end", "remote"}

LEMMA PostKeepsSending ==
    ASSUME Sending, NEW e, NEW m \in Messages, Post(e, m),
           UNCHANGED broadcast \/ (\E n : broadcast' = [broadcast EXCEPT !.next = n])
    PROVE  Sending'
<1>1. \A f \in Ends : Append(sent[f], m) \in Seq(Messages)
  BY DEF Sending
<1>2. sent' \in [Ends -> Seq(Messages)]
  BY <1>1 DEF Post, Sending
<1> QED
  BY <1>2 DEF Sending

LEMMA SendToServerKeepsInv ==
    ASSUME Inv, Sending, NEW c \in Clients, NEW kind \in {"ServerPing", "MessageAll"},
           SendToServer(c, kind)
    PROVE  Inv' /\ Sending'
<1> DEFINE e == Client(c)
           n == Len(sent[e]) + 1
           m == Message(kind, c, n)
<1>1. /\ Post(e, m) /\ IsConnected(e) /\ n <= MaxMessages
      /\ UNCHANGED <<socket, wire, messagesOut, reading, writing, messagesIn, broadcast, late>>
  BY DEF SendToServer, mains
<1>2. e \in Ends /\ n \in Nat
  BY EndFacts DEF Sending
<1>3. m \in Messages
  BY <1>1, <1>2, AsioAssumption DEF Message, Messages, Kinds, AsioAssumption
<1> HIDE DEF e, n, m
<1>4. RemotesUsed' /\ messagesIn' \in Seq(Owned)
  BY <1>1, RemotesKept
<1>5. socket[e] # "none" /\ broadcast'.msg \in Messages \cup {None}
  BY <1>1 DEF IsConnected, Inv, Types
<1> QED
  BY <1>1, <1>2, <1>3, <1>4, <1>5, PostingKeepsInv, PostKeepsSending

LEMMA BouncePingKeepsInv ==
    ASSUME Inv, Sending, BouncePing
    PROVE  Inv' /\ Sending'
<1> DEFINE m == Head(messagesIn)
           e == Server(m.remote)
<1>1. /\ messagesIn # <<>> /\ messagesIn' = Tail(messagesIn) /\ Post(e, m.msg)
      /\ UNCHANGED <<socket, wire, messagesOut, reading, writing, broadcast, late>>
  BY DEF BouncePing, mains
<1>2. m \in Owned /\ 1 \in DOMAIN messagesIn /\ m = messagesIn[1]
  BY <1>1 DEF Inv, Types
<1>3. e \in Ends /\ m.msg \in Messages /\ socket[e] # "none"
  BY <1>2, EndFacts DEF Inv, RemotesUsed, Owned
<1> HIDE DEF e, m
<1>4. RemotesUsed' /\ messagesIn' \in Seq(Owned)
  BY <1>1, RemotesKept
<1>5. broadcast'.msg \in Messages \cup {None}
  BY <1>1 DEF Inv, Types
<1> QED
  BY <1>1, <1>3, <1>4, <1>5, PostingKeepsInv, PostKeepsSending

LEMMA MessageAllClientsKeepsInv ==
    ASSUME Inv, Sending, MessageAllClients
    PROVE  Inv' /\ Sending'
<1> DEFINE m == Head(messagesIn)
           text == [m.msg EXCEPT !.kind = "ServerMessage"]
<1>1. /\ messagesIn # <<>> /\ messagesIn' = Tail(messagesIn)
      /\ broadcast' = [msg |-> text, next |-> 1, end |-> Len(connections), remote |-> m.remote]
      /\ UNCHANGED <<wires, late, sent>>
  BY DEF MessageAllClients
<1>2. m \in Owned
  BY <1>1 DEF Inv, Types
<1>3. text \in Messages
  BY <1>2 DEF Owned, Messages, Kinds
<1> HIDE DEF m, text
<1>4. RemotesUsed' /\ messagesIn' \in Seq(Owned)
  BY <1>1, RemotesKept DEF wires
<1>5. broadcast'.msg \in Messages \cup {None} /\ Sending'
  BY <1>1, <1>3 DEF Sending
<1> QED
  BY <1>1, <1>4, <1>5, RestKeepsInv

LEMMA VisitKeepsInv ==
    ASSUME Inv, Sending, Visit
    PROVE  Inv' /\ Sending'
<1> DEFINE c == connections[broadcast.next]
           e == Server(c)
           m == broadcast.msg
<1>1. /\ m # None /\ broadcast' = [broadcast EXCEPT !.next = broadcast.next + 1]
      /\ \/ IsConnected(e) /\ Post(e, m)
         \/ UNCHANGED <<jobs, sent>>
      /\ UNCHANGED <<socket, wire, messagesOut, reading, writing, messagesIn, late>>
  BY DEF Visit
<1>2. m \in Messages
  BY <1>1 DEF Inv, Types
<1>3. broadcast'.msg = m /\ DOMAIN broadcast' = DOMAIN broadcast
  BY <1>1 DEF Sending
<1> HIDE DEF e
<1>4. RemotesUsed' /\ messagesIn' \in Seq(Owned) /\ broadcast'.msg \in Messages \cup {None}
  BY <1>1, <1>2, <1>3, RemotesKept
<1>5. CASE UNCHANGED <<jobs, sent>>
  <2>1. UNCHANGED wires
    BY <1>1, <1>5 DEF wires
  <2> QED
    BY <1>1, <1>3, <1>4, <1>5, <2>1, RestKeepsInv DEF Sending
<1>6. CASE IsConnected(e) /\ Post(e, m)
  <2>1. Sending'
    BY <1>1, <1>2, <1>6, PostKeepsSending
  <2>2. CASE e \in Ends
    BY <1>1, <1>2, <1>4, <1>6, <2>1, <2>2, PostingKeepsInv DEF IsConnected
  <2>3. CASE e \notin Ends
    <3>1. jobs' \in [Ends -> Seq(Messages)] /\ \A f \in Ends : jobs'[f] = jobs[f]
      BY <1>2, <1>6, <2>3, PostFacts DEF Inv
    <3>2. UNCHANGED wires
      BY <1>1, <3>1 DEF wires, Inv, Types
    <3> QED
      BY <1>1, <1>4, <2>1, <3>2, RestKeepsInv
  <2> QED
    BY <2>2, <2>3
<1> QED
  BY <1>1, <1>5, <1>6

LEMMA EraseKeepsInv ==
    ASSUME Inv, Sending, Erase
    PROVE  Inv' /\ Sending'
<1>1. broadcast' = Silent /\ UNCHANGED <<wires, messagesIn, sent, late>>
  BY DEF Erase
<1>2. broadcast'.msg \in Messages \cup {None} /\ Sending'
  BY <1>1 DEF Silent, Sending
<1>3. RemotesUsed' /\ messagesIn' \in Seq(Owned)
  BY <1>1, RemotesKept DEF wires
<1> QED
  BY <1>1, <1>2, <1>3, RestKeepsInv

-----------------------------------------------------------------------------
LEMMA HandlerKeepsInv ==
    ASSUME Inv, Sending, NEW e \in Ends, Handler(e)
    PROVE  Inv' /\ Sending'
<1>1. Sending'
  <2>1. UNCHANGED <<sent, broadcast>>
    BY DEF Handler, Send, WriteHeader, WriteBody, WriteValidation, WriteFails,
           ServerReadValidation, ClientReadValidation, ReadHeader, ReadBody, ReadFails,
           mains, history
  <2> QED
    BY <2>1 DEF Sending
<1>2. CASE Send(e)
  BY <1>1, <1>2, SendKeepsInv
<1>3. ASSUME NEW op \in writing[e], WriteHeader(e, op) \/ WriteBody(e, op)
      PROVE  Inv'
  BY <1>3, WritesKeepInv
<1>4. ASSUME NEW op \in writing[e], WriteValidation(e, op)
      PROVE  Inv'
  BY <1>4, WriteValidationKeepsInv
<1>5. CASE (\E op \in writing[e] : WriteFails(e, op)) \/ ReadFails(e)
  BY <1>1, <1>5, FailuresKeepInv
<1>6. CASE ServerReadValidation(e) \/ ClientReadValidation(e)
  BY <1>1, <1>6, ServerReadKeepsInv, ClientReadKeepsInv
<1>7. CASE ReadHeader(e) \/ ReadBody(e)
  BY <1>1, <1>7, ReadHeaderKeepsInv, ReadBodyKeepsInv
<1> QED
  BY <1>1, <1>2, <1>3, <1>4, <1>5, <1>6, <1>7 DEF Handler

LEMMA InvStep ==
    ASSUME Inv, Sending, [Next]_vars
    PROVE  Inv' /\ Sending'
<1>1. ASSUME NEW e \in Ends, Handler(e)
      PROVE  Inv' /\ Sending'
  BY <1>1, HandlerKeepsInv
<1>2. CASE Update
  BY <1>2, BouncePingKeepsInv, MessageAllClientsKeepsInv, VisitKeepsInv, EraseKeepsInv
     DEF Update
<1>3. ASSUME NEW c \in Clients, ConnectToServer(c)
      PROVE  Inv' /\ Sending'
  <2>1. UNCHANGED <<sent, broadcast>>
    BY <1>3 DEF ConnectToServer, mains, history
  <2> QED
    BY <1>3, <2>1, ConnectKeepsInv DEF Sending
<1>4. ASSUME NEW c \in Clients, WaitForClientConnection(c)
      PROVE  Inv' /\ Sending'
  <2> DEFINE m == Message("ServerAccept", c, 0)
  <2>1. Post(Server(c), m) /\ UNCHANGED broadcast
    BY <1>4 DEF WaitForClientConnection
  <2>2. m \in Messages
    BY AsioAssumption DEF Message, Messages, Kinds, AsioAssumption
  <2> QED
    BY <1>4, <2>1, <2>2, AcceptKeepsInv, PostKeepsSending
<1>5. ASSUME NEW c \in Clients, RunsLate(c)
      PROVE  Inv' /\ Sending'
  <2>1. UNCHANGED <<sent, broadcast>>
    BY <1>5 DEF RunsLate, mains
  <2> QED
    BY <1>5, <2>1, RunsLateKeepsInv DEF Sending
<1>6. ASSUME NEW c \in Clients, HandleIncoming(c)
      PROVE  Inv' /\ Sending'
  <2>1. UNCHANGED <<wires, messagesIn, broadcast, late, sent>>
    BY <1>6 DEF HandleIncoming, history
  <2> QED
    BY <2>1, HandleIncomingKeepsInv DEF Sending
<1>7. ASSUME NEW c \in Clients, Leave(c)
      PROVE  Inv' /\ Sending'
  <2>1. UNCHANGED <<sent, broadcast>>
    BY <1>7 DEF Leave, mains, history
  <2>2. Client(c) \in Ends /\ Client(c)[1] = c /\ Client(c)[2] = "client"
    BY DEF Client, Ends
  <2> QED
    BY <1>7, <2>1, <2>2, FailuresKeepInv DEF Sending
<1>8. ASSUME NEW c \in Clients, NEW kind \in {"ServerPing", "MessageAll"},
             SendToServer(c, kind)
      PROVE  Inv' /\ Sending'
  BY <1>8, SendToServerKeepsInv
<1>9. CASE UNCHANGED vars
  <2>1. UNCHANGED <<wires, messagesIn, broadcast, late, sent>>
    BY <1>9 DEF vars, mains, history
  <2> QED
    BY <2>1, HandleIncomingKeepsInv DEF Sending
<1> QED
  BY <1>1, <1>2, <1>3, <1>4, <1>5, <1>6, <1>7, <1>8, <1>9 DEF Next

(* The invariant always holds.                                             *)
THEOREM InvAlways == Spec => [](Inv /\ Sending)
<1>1. Init => Inv /\ Sending
  <2>1. Init => Sending
    BY DEF Init, Sending, Silent
  <2> QED
    BY <2>1, InvInit
<1> QED
  BY <1>1, InvStep, PTL DEF Spec

-----------------------------------------------------------------------------
(* The list of connections.  Erasing keeps each client that the list has:  *)
(* the kept positions are ranked 1, 2, ... and each rank has one of them.  *)

LEMMA RankBounds ==
    ASSUME NEW S, IsFiniteSet(S), S \subseteq Nat, NEW i \in S
    PROVE  Rank(S, i) \in 1..Cardinality(S)
<1> DEFINE B == {k \in S : k <= i}
<1>1. B \subseteq S /\ i \in B
  OBVIOUS
<1>2. IsFiniteSet(B) /\ Cardinality(B) <= Cardinality(S)
  BY <1>1, FS_Subset
<1>3. Cardinality(B) \in Nat /\ Cardinality(S) \in Nat /\ Cardinality(B) # 0
  BY <1>1, <1>2, FS_CardinalityType, FS_EmptySet
<1> QED
  BY <1>2, <1>3 DEF Rank

LEMMA RanksDiffer ==
    ASSUME NEW S, IsFiniteSet(S), S \subseteq Nat, NEW i \in S, NEW j \in S, i < j
    PROVE  Rank(S, i) # Rank(S, j)
<1> DEFINE A == {k \in S : k <= i}
           B == {k \in S : k <= j}
<1>1. A \subseteq B /\ j \in B /\ j \notin A /\ B \subseteq S
  <2>1. S \in SUBSET Nat /\ i \in Nat /\ j \in Nat
    OBVIOUS
  <2>2. \A k \in A : k \in B
    BY <2>1
  <2>3. j \in B /\ j \notin A /\ B \subseteq S
    BY <2>1
  <2> HIDE DEF A, B
  <2> QED
    BY <2>2, <2>3
<1>2. IsFiniteSet(B)
  BY <1>1, FS_Subset
<1>3. Cardinality(A) < Cardinality(B)
  <2>1. A # B
    BY <1>1
  <2> HIDE DEF A, B
  <2>2. IsFiniteSet(A) /\ Cardinality(A) <= Cardinality(B)
    BY <1>1, <1>2, FS_Subset
  <2>3. Cardinality(A) \in Nat /\ Cardinality(B) \in Nat
    BY <1>2, <2>2, FS_CardinalityType
  <2>4. Cardinality(A) # Cardinality(B)
    BY <1>1, <1>2, <2>1, FS_Subset
  <2> QED
    BY <2>2, <2>3, <2>4
<1> HIDE DEF A, B
<1>4. Cardinality(A) # Cardinality(B)
  <2>1. IsFiniteSet(A)
    BY <1>1, <1>2, FS_Subset
  <2>2. Cardinality(A) \in Nat /\ Cardinality(B) \in Nat
    BY <1>2, <2>1, FS_CardinalityType
  <2> QED
    BY <1>3, <2>2
<1> QED
  BY <1>4 DEF Rank, A, B

LEMMA Ranks ==
    ASSUME NEW S, IsFiniteSet(S), S \subseteq Nat
    PROVE  /\ Cardinality(S) \in Nat
           /\ \A i \in S : Rank(S, i) \in 1..Cardinality(S)
           /\ \A i, j \in S : i # j => Rank(S, i) # Rank(S, j)
           /\ \A j \in 1..Cardinality(S) : \E i \in S : Rank(S, i) = j
<1> DEFINE n == Cardinality(S)
<1>1. n \in Nat /\ \A i \in S : Rank(S, i) \in 1..n
  BY FS_CardinalityType, RankBounds
<1>2. \A i, j \in S : i # j => Rank(S, i) # Rank(S, j)
  <2>1. \A i, j \in S : i < j => Rank(S, i) # Rank(S, j)
    BY RanksDiffer
  <2> QED
    BY <2>1
<1>3. \A j \in 1..n : \E i \in S : Rank(S, i) = j
  <2> DEFINE rank == [i \in S |-> Rank(S, i)]
  <2>1. rank \in Injection(S, 1..n)
    BY <1>1, <1>2 DEF Injection, IsInjective
  <2>2. IsFiniteSet(1..n) /\ Cardinality(1..n) = n
    BY <1>1, FS_Interval
  <2>3. rank \in Surjection(S, 1..n)
    BY <1>1, <2>1, <2>2, FS_Injection
  <2> QED
    BY <2>3 DEF Surjection
<1> QED
  BY <1>1, <1>2, <1>3

(* The elements picked are those of a sequence that has the element of     *)
(* each position at its rank.                                              *)
LEMMA Picked ==
    ASSUME NEW S, IsFiniteSet(S), S \subseteq Nat, NEW s, NEW D, \A i \in S : s[i] \in D
    PROVE  /\ Pick(s, S) \in Seq(D) /\ Len(Pick(s, S)) = Cardinality(S)
           /\ \A i \in S : /\ Rank(S, i) \in DOMAIN Pick(s, S)
                           /\ Pick(s, S)[Rank(S, i)] = s[i]
<1> DEFINE n == Cardinality(S)
           at(j) == CHOOSE i \in S : Rank(S, i) = j
<1>1. /\ n \in Nat /\ \A i \in S : Rank(S, i) \in 1..n
      /\ \A i, j \in S : i # j => Rank(S, i) # Rank(S, j)
      /\ \A j \in 1..n : \E i \in S : Rank(S, i) = j
  BY Ranks
<1>2. \A j \in 1..n : at(j) \in S /\ Rank(S, at(j)) = j
  BY <1>1
<1>3. Pick(s, S) = [j \in 1..n |-> s[at(j)]]
  BY DEF Pick
<1> HIDE DEF at
<1>4. [j \in 1..n |-> s[at(j)]] \in [1..n -> D]
  BY <1>2
<1>5. Pick(s, S) \in Seq(D) /\ DOMAIN Pick(s, S) = 1..n /\ Len(Pick(s, S)) = n
  BY <1>1, <1>3, <1>4
<1>6. \A i \in S : at(Rank(S, i)) = i
  BY <1>1, <1>2
<1> QED
  BY <1>1, <1>3, <1>5, <1>6

LEMMA KeptFinite ==
    ASSUME NEW D, NEW s \in Seq(D), NEW S, S \subseteq DOMAIN s
    PROVE  IsFiniteSet(S) /\ S \subseteq Nat /\ \A i \in S : s[i] \in D
<1>1. Len(s) \in Nat /\ DOMAIN s = 1..Len(s) /\ \A i \in DOMAIN s : s[i] \in D
  OBVIOUS
<1>2. IsFiniteSet(1..Len(s))
  BY <1>1, FS_Interval
<1> QED
  BY <1>1, <1>2, FS_Subset

LEMMA WithoutKeeps ==
    ASSUME NEW D, NEW x, NEW s \in Seq(D)
    PROVE  /\ Without(s, x) \in Seq(D)
           /\ \A d \in Range(s) : d # x => d \in Range(Without(s, x))
<1> DEFINE K == Kept(s, x)
<1>1. K \subseteq DOMAIN s
  BY DEF Kept
<1>2. /\ Without(s, x) \in Seq(D)
      /\ \A i \in K : Rank(K, i) \in DOMAIN Without(s, x) /\ Without(s, x)[Rank(K, i)] = s[i]
  BY <1>1, KeptFinite, Picked DEF Without
<1>3. \A d \in Range(s) : d # x => \E i \in K : s[i] = d
  BY DEF Range, Kept
<1> HIDE DEF K
<1> QED
  BY <1>2, <1>3 DEF Range

-----------------------------------------------------------------------------
(* A connection is in the list as long as its socket is open, so that the  *)
(* list keeps it, and it is destroyed only when it is closed.              *)

Listed(c) == IsConnected(Server(c)) => c \in Range(connections)
Lists == /\ connections \in Seq(Clients \cup {None}) /\ late \subseteq Clients
         /\ \A c \in Clients : /\ Listed(c)
                               /\ c \in late => socket[Server(c)] = "closed"

\* A step that opens no connection of the server keeps what the list keeps.
LEMMA ListsOn ==
    ASSUME Lists, connections' \in Seq(Clients \cup {None}), late' \subseteq Clients,
           \A c \in Clients : /\ IsConnected(Server(c))' =>
                                    /\ IsConnected(Server(c))
                                    /\ c \in Range(connections) => c \in Range(connections')
                              /\ c \in late' \ late => socket[Server(c)] = "closed"
                              /\ socket[Server(c)] = "closed" => socket'[Server(c)] = "closed"
    PROVE  Lists'
<1>1. ASSUME NEW c \in Clients PROVE Listed(c)'
  <2>1. Listed(c)
    BY DEF Lists
  <2> QED
    BY <2>1 DEF Listed
<1>2. ASSUME NEW c \in Clients, c \in late' PROVE socket'[Server(c)] = "closed"
  <2>1. c \in late => socket[Server(c)] = "closed"
    BY DEF Lists
  <2> QED
    BY <1>2, <2>1
<1> QED
  BY <1>1, <1>2 DEF Lists

LEMMA ClosedLists ==
    ASSUME Inv, Lists, NEW e, NEW read, NEW writes, Close(e, read, writes),
           UNCHANGED <<connections, late>>
    PROVE  Lists'
<1>1. socket \in [Ends -> {"none", "open", "closed"}] /\ \A c \in Clients : Server(c) \in Ends
  BY EndFacts DEF Inv, Types
<1>2. socket' = [socket EXCEPT ![e] = "closed"]
  BY DEF Close
<1>3. \A c \in Clients : /\ IsConnected(Server(c))' => IsConnected(Server(c))
                         /\ socket[Server(c)] = "closed" => socket'[Server(c)] = "closed"
  BY <1>1, <1>2 DEF IsConnected
<1> QED
  BY <1>3, ListsOn DEF Lists

LEMMA HandlerKeepsLists ==
    ASSUME Inv, Lists, NEW e \in Ends, Handler(e)
    PROVE  Lists'
<1>1. UNCHANGED <<connections, late>>
  BY DEF Handler, Send, WriteHeader, WriteBody, WriteValidation, WriteFails,
         ServerReadValidation, ClientReadValidation, ReadHeader, ReadBody, ReadFails,
         mains, history
<1>2. CASE UNCHANGED socket
  BY <1>1, <1>2, ListsOn DEF Lists, IsConnected
<1>3. CASE \E read, writes : Close(e, read, writes)
  BY <1>1, <1>3, ClosedLists
<1> QED
  BY <1>2, <1>3 DEF Handler, Send, WriteHeader, WriteBody, WriteValidation, WriteFails,
         ServerReadValidation, ClientReadValidation, ReadHeader, ReadBody, ReadFails

LEMMA AcceptKeepsLists ==
    ASSUME Inv, Lists, NEW c \in Clients, WaitForClientConnection(c)
    PROVE  Lists'
<1> DEFINE list == Append(connections, c)
<1>1. /\ socket[Server(c)] = "none" /\ socket' = [socket EXCEPT ![Server(c)] = "open"]
      /\ connections' = list /\ UNCHANGED late
  BY DEF WaitForClientConnection
<1>2. socket \in [Ends -> {"none", "open", "closed"}] /\ \A d \in Clients : Server(d) \in Ends
  BY EndFacts DEF Inv, Types
<1>3. connections \in Seq(Clients \cup {None}) /\ c \in Clients \cup {None}
  BY DEF Lists
<1>4. /\ list \in Seq(Clients \cup {None})
      /\ c \in Range(list) /\ \A d \in Range(connections) : d \in Range(list)
  <2>1. /\ Len(list) = Len(connections) + 1 /\ list[Len(connections) + 1] = c
        /\ \A i \in 1..Len(connections) : list[i] = connections[i]
        /\ DOMAIN list = 1..Len(list) /\ DOMAIN connections = 1..Len(connections)
        /\ Len(connections) \in Nat /\ list \in Seq(Clients \cup {None})
    BY <1>3, AppendProperties, LenProperties
  <2> HIDE DEF list
  <2>2. DOMAIN list = 1..Len(connections) + 1
    BY <2>1
  <2>3. c \in Range(list)
    BY <2>1, <2>2 DEF Range
  <2>4. ASSUME NEW d \in Range(connections) PROVE d \in Range(list)
    <3>1. PICK i \in 1..Len(connections) : d = connections[i]
      BY <2>1 DEF Range
    <3> QED
      BY <2>1, <2>2, <3>1 DEF Range
  <2> QED
    BY <2>1, <2>3, <2>4
<1> HIDE DEF list
<1>5. \A d \in Clients : Listed(d)'
  <2> TAKE d \in Clients
  <2>1. CASE d = c
    BY <1>1, <1>4, <2>1 DEF Listed
  <2>2. CASE d # c
    <3>1. Server(d) # Server(c)
      BY <2>2 DEF Server
    <3>2. Listed(d) /\ socket'[Server(d)] = socket[Server(d)]
      BY <1>1, <1>2, <3>1 DEF Lists
    <3> QED
      BY <1>1, <1>4, <3>2 DEF Listed, IsConnected
  <2> QED
    BY <2>1, <2>2
<1>6. ASSUME NEW d \in Clients, d \in late' PROVE socket'[Server(d)] = "closed"
  <2>1. socket[Server(d)] = "closed"
    BY <1>1, <1>6 DEF Lists
  <2>2. Server(d) # Server(c) /\ Server(d) \in Ends
    BY <1>1, <1>2, <2>1
  <2> QED
    BY <1>1, <1>2, <2>1, <2>2
<1> QED
  BY <1>1, <1>4, <1>5, <1>6 DEF Lists

LEMMA VisitKeepsLists ==
    ASSUME Inv, Lists, Visit
    PROVE  Lists'
<1> DEFINE n == broadcast.next
<1>1. /\ UNCHANGED <<socket, late>>
      /\ \/ UNCHANGED connections
         \/ ~IsConnected(Server(connections[n])) /\ connections' = [connections EXCEPT ![n] = None]
  BY DEF Visit
<1> HIDE DEF n
<1>2. connections' \in Seq(Clients \cup {None})
  BY <1>1 DEF Lists
<1>3. ASSUME NEW c \in Clients, IsConnected(Server(c)), c \in Range(connections)
      PROVE  c \in Range(connections')
  <2>1. CASE UNCHANGED connections
    BY <1>3, <2>1
  <2>2. CASE ~IsConnected(Server(connections[n])) /\ connections' = [connections EXCEPT ![n] = None]
    <3>1. PICK i \in DOMAIN connections : connections[i] = c
      BY <1>3 DEF Range
    <3>2. i # n /\ i \in DOMAIN connections' /\ connections'[i] = c
      BY <1>3, <2>2, <3>1
    <3> QED
      BY <3>2 DEF Range
  <2> QED
    BY <1>1, <2>1, <2>2
<1>4. \A c \in Clients : IsConnected(Server(c))' => IsConnected(Server(c))
  BY <1>1 DEF IsConnected
<1> QED
  BY <1>1, <1>2, <1>3, <1>4, ListsOn DEF Lists

LEMMA EraseKeepsLists ==
    ASSUME Inv, Lists, Erase
    PROVE  Lists'
<1>1. connections' = Without(connections, None) /\ UNCHANGED <<socket, late>>
  BY DEF Erase, wires
<1>2. \A c \in Clients : c # None
  BY AsioAssumption DEF AsioAssumption
<1>3. /\ connections' \in Seq(Clients \cup {None})
      /\ \A c \in Range(connections) : c # None => c \in Range(connections')
  BY <1>1, WithoutKeeps DEF Lists
<1>4. \A c \in Clients : IsConnected(Server(c))' => IsConnected(Server(c))
  BY <1>1 DEF IsConnected
<1> QED
  BY <1>1, <1>2, <1>3, <1>4, ListsOn DEF Lists

LEMMA RunsLateKeepsLists ==
    ASSUME Inv, Lists, NEW c \in Clients, RunsLate(c)
    PROVE  Lists'
<1>1. /\ socket[Server(c)] # "none" /\ ~Alive(Server(c)) /\ late' = late \cup {c}
      /\ UNCHANGED <<socket, connections>>
  BY DEF RunsLate, mains
<1>2. socket[Server(c)] = "closed"
  <2>1. Server(c)[1] = c /\ Server(c) \in Ends
    BY EndFacts DEF Server
  <2>2. Listed(c) /\ c \notin Range(connections)
    BY <1>1, <2>1 DEF Alive, Lists
  <2>3. ~IsConnected(Server(c))
    BY <2>2 DEF Listed
  <2> QED
    BY <1>1, <2>1, <2>3 DEF IsConnected, Inv, Types
<1>3. late' \subseteq Clients
  BY <1>1 DEF Lists
<1> QED
  BY <1>1, <1>2, <1>3, ListsOn DEF Lists, IsConnected

LEMMA ConnectKeepsLists ==
    ASSUME Inv, Lists, NEW c \in Clients, ConnectToServer(c)
    PROVE  Lists'
<1>1. socket' = [socket EXCEPT ![Client(c)] = "open"] /\ UNCHANGED <<connections, late>>
  BY DEF ConnectToServer, mains, history
<1>2. \A d \in Clients : socket'[Server(d)] = socket[Server(d)]
  BY <1>1, EndFacts DEF Inv, Types
<1> QED
  BY <1>1, <1>2, ListsOn DEF Lists, IsConnected

LEMMA ListsStep ==
    ASSUME Inv, Lists, [Next]_vars
    PROVE  Lists'
<1>1. ASSUME UNCHANGED <<socket, connections, late>>
      PROVE  Lists'
  BY <1>1, ListsOn DEF Lists, IsConnected
<1>2. ASSUME NEW e \in Ends, Handler(e)
      PROVE  Lists'
  BY <1>2, HandlerKeepsLists
<1>3. CASE Update
  <2>1. CASE BouncePing \/ MessageAllClients
    BY <1>1, <2>1 DEF BouncePing, MessageAllClients, mains, wires
  <2> QED
    BY <1>3, <2>1, VisitKeepsLists, EraseKeepsLists DEF Update
<1>4. ASSUME NEW c \in Clients, Leave(c)
      PROVE  Lists'
  BY <1>4, ClosedLists DEF Leave, mains, history
<1>5. ASSUME NEW c \in Clients,
             HandleIncoming(c) \/ \E kind \in {"ServerPing", "MessageAll"} : SendToServer(c, kind)
      PROVE  Lists'
  BY <1>1, <1>5 DEF HandleIncoming, SendToServer, wires, mains, history
<1>6. CASE UNCHANGED vars
  BY <1>1, <1>6 DEF vars, wires, mains, history
<1> QED
  BY <1>2, <1>3, <1>4, <1>5, <1>6, ConnectKeepsLists, AcceptKeepsLists, RunsLateKeepsLists DEF Next

(* The list always has the connections whose sockets are open.            *)
THEOREM ListsAlways == Spec => []Lists
<1>1. Init => Lists
  <2>1. ASSUME Init PROVE Lists
    <3>1. \A c \in Clients : ~IsConnected(Server(c))
      BY <2>1, EndFacts DEF Init, IsConnected
    <3> QED
      BY <2>1, <3>1 DEF Init, Lists, Listed
  <2> QED
    BY <2>1
<1> QED
  BY <1>1, ListsStep, InvAlways, PTL DEF Spec

(* A connection whose socket is open is never destroyed, and a handler     *)
(* that comes too late comes to one that is closed, whatever the order of  *)
(* accepts, broadcasts, erasures and closings (m_connections).             *)
THEOREM OpenIsAlwaysKept == Spec => []OpenIsKept
<1>1. ASSUME Lists, NEW c \in Clients
      PROVE  /\ IsConnected(Server(c)) => Alive(Server(c))
             /\ c \in late => socket[Server(c)] = "closed"
  <2>1. Server(c)[1] = c
    BY DEF Server
  <2>2. Listed(c) /\ (c \in late => socket[Server(c)] = "closed")
    BY <1>1 DEF Lists
  <2> QED
    BY <2>1, <2>2 DEF Listed, Alive
<1>2. Lists => OpenIsKept
  BY <1>1 DEF OpenIsKept
<1> QED
  BY <1>2, ListsAlways, PTL

(* A queue of messages has exactly one write under way, whatever number of *)
(* clients send whatever number of messages (Send, WriteHeader, WriteBody),*)
(* and an open connection past its handshake is being read.                *)
THEOREM WritesGoOn == Spec => []WritesAndReadsGoOn
<1>1. ASSUME Inv, OpenIsKept, NEW e \in Ends, IsConnected(e)
      PROVE  /\ messagesOut[e] = <<>> => MessageWrites(e) = {}
             /\ messagesOut[e] # <<>> => \E op \in MessageWrites(e) : MessageWrites(e) = {op}
             /\ reading[e] = NoRead => Op("validation", TRUE) \in writing[e]
  <2>1. Busy(e) /\ (Sound(e) => GoesOn(e))
    BY <1>1 DEF Inv
  <2>2. Sound(e)
    BY <1>1, EndFacts DEF Sound, OpenIsKept, IsConnected
  <2> QED
    BY <2>1, <2>2 DEF Busy, GoesOn
<1>2. Inv /\ OpenIsKept => WritesAndReadsGoOn
  BY <1>1 DEF WritesAndReadsGoOn, MessageWrites
<1> QED
  BY <1>2, InvAlways, OpenIsAlwaysKept, PTL

-----------------------------------------------------------------------------
(* Framing.  What must follow a unit; a wire w is chained behind a reader  *)
(* that takes r next when each unit is what the one before it, or the      *)
(* reader, wants, and NextOn is what is wanted behind the last.            *)

After(u) == IF u[1] = "header" /\ HasBody(u[2]) THEN <<"body", u[2]>> ELSE <<"header", None>>
Fits(u, x) == u[1] = x[1] /\ (x[1] = "body" => u[2] = x[2])
Wanted(w, r, i) == IF i = 1 THEN r ELSE After(w[i - 1])
Chain(w, r) == \A i \in DOMAIN w : Fits(w[i], Wanted(w, r, i))
NextOn(w, r) == Wanted(w, r, Len(w) + 1)

LEMMA EmptyChain == \A r : Chain(<<>>, r) /\ NextOn(<<>>, r) = r
BY DEF Chain, NextOn, Wanted

LEMMA ChainAppended ==
    ASSUME NEW w \in Seq(Units), NEW r, NEW u \in Units, Chain(w, r), Fits(u, NextOn(w, r))
    PROVE  Chain(Append(w, u), r) /\ NextOn(Append(w, u), r) = After(u)
<1> DEFINE v == Append(w, u)
<1>1. /\ Len(w) \in Nat /\ Len(v) = Len(w) + 1 /\ DOMAIN w = 1..Len(w) /\ DOMAIN v = 1..Len(v)
      /\ v[Len(w) + 1] = u /\ \A i \in 1..Len(w) : v[i] = w[i]
  BY AppendProperties, LenProperties
<1> HIDE DEF v
<1>2. \A i \in 1..Len(w) + 1 : Wanted(v, r, i) = Wanted(w, r, i)
  BY <1>1 DEF Wanted
<1>3. \A i \in DOMAIN v : Fits(v[i], Wanted(v, r, i))
  BY <1>1, <1>2 DEF Chain, NextOn
<1>4. Wanted(v, r, Len(v) + 1) = After(u)
  BY <1>1 DEF Wanted
<1> QED
  BY <1>3, <1>4 DEF Chain, NextOn, v

LEMMA ChainTaken ==
    ASSUME NEW w \in Seq(Units), w # <<>>, NEW r, Chain(w, r)
    PROVE  /\ Fits(Head(w), r)
           /\ Chain(Tail(w), After(Head(w)))
           /\ NextOn(Tail(w), After(Head(w))) = NextOn(w, r)
<1> DEFINE v == Tail(w)
           s == After(Head(w))
<1>1. /\ Len(w) \in Nat /\ Len(w) > 0 /\ Len(v) = Len(w) - 1
      /\ DOMAIN w = 1..Len(w) /\ DOMAIN v = 1..Len(v)
      /\ Head(w) = w[1] /\ \A i \in 1..Len(v) : v[i] = w[i + 1]
  BY HeadTailProperties, LenProperties
<1>2. Fits(Head(w), r)
  BY <1>1 DEF Chain, Wanted
<1>3. s = After(w[1])
  BY <1>1
<1> HIDE DEF v, s
<1>4. \A i \in 1..Len(w) : Wanted(v, s, i) = Wanted(w, r, i + 1)
  <2> TAKE i \in 1..Len(w)
  <2>1. CASE i = 1
    BY <1>1, <1>3, <2>1 DEF Wanted
  <2>2. CASE i # 1
    <3>1. i - 1 \in 1..Len(v) /\ (i - 1) + 1 = i /\ i + 1 # 1 /\ (i + 1) - 1 = i
      BY <1>1, <2>2
    <3> QED
      BY <1>1, <2>2, <3>1 DEF Wanted
  <2> QED
    BY <2>1, <2>2
<1>5. \A i \in DOMAIN v : Fits(v[i], Wanted(v, s, i))
  <2> TAKE i \in DOMAIN v
  <2>1. i \in 1..Len(w) /\ i + 1 \in DOMAIN w /\ v[i] = w[i + 1]
    BY <1>1
  <2> QED
    BY <1>4, <2>1 DEF Chain
<1>6. Wanted(v, s, Len(v) + 1) = Wanted(w, r, Len(w) + 1)
  BY <1>1, <1>4
<1> QED
  BY <1>2, <1>5, <1>6 DEF Chain, NextOn, v, s

-----------------------------------------------------------------------------
(* What the reader at e takes next and what the writer at p puts next.     *)

Reader(e) == IF reading[e].part = "validation" THEN <<"validation", None>>
             ELSE IF reading[e].part = "body" THEN <<"body", reading[e].msgTempIn>>
             ELSE <<"header", None>>

Begun(p) == socket[p] # "none" /\ (p[2] = "client" => reading[p].part # "validation")
HeaderOut(p) == \E op \in writing[p] : op.part = "header"
Writer(p) == IF ~Begun(p) THEN <<"validation", None>>
             ELSE IF HeaderOut(p) THEN After(<<"header", Head(messagesOut[p])>>)
             ELSE <<"header", None>>

Readable(e) == IsConnected(e) \/ reading[e] # NoRead
Linked(e) == IsConnected(e) /\ socket[Peer(e)] # "closed"

Frame(e) == /\ Readable(e) => Chain(wire[e], Reader(e))
            /\ Linked(e) => NextOn(wire[e], Reader(e)) = Writer(Peer(e))

LEMMA FrameKept ==
    ASSUME NEW e \in Ends, Frame(e), wire'[e] = wire[e],
           Readable(e)' => Readable(e) /\ Reader(e)' = Reader(e),
           Linked(e)' => Linked(e) /\ Writer(Peer(e))' = Writer(Peer(e))
    PROVE  Frame(e)'
<1>1. Linked(e)' => Readable(e)'
  BY DEF Linked, Readable
<1> QED
  BY <1>1 DEF Frame

LEMMA FrameAppended ==
    ASSUME NEW e \in Ends, Frame(e), wire[e] \in Seq(Units), NEW u \in Units,
           wire'[e] = Append(wire[e], u), Linked(e), Fits(u, Writer(Peer(e))),
           Reader(e)' = Reader(e), Writer(Peer(e))' = After(u)
    PROVE  Frame(e)'
<1>1. Chain(wire[e], Reader(e)) /\ NextOn(wire[e], Reader(e)) = Writer(Peer(e))
  BY DEF Frame, Linked, Readable
<1> QED
  BY <1>1, ChainAppended DEF Frame

LEMMA FrameTaken ==
    ASSUME NEW e \in Ends, Frame(e), wire[e] \in Seq(Units), wire[e] # <<>>,
           wire'[e] = Tail(wire[e]), Readable(e), Reader(e)' = After(Head(wire[e])),
           Linked(e)' => Linked(e) /\ Writer(Peer(e))' = Writer(Peer(e))
    PROVE  Frame(e)'
<1>1. Chain(wire[e], Reader(e))
  BY DEF Frame
<1> QED
  BY <1>1, ChainTaken DEF Frame

-----------------------------------------------------------------------------
(* How far the two ends of a client have come.                             *)

Young(c) ==
    LET k == Client(c) IN
    socket[k] # "closed" /\ ~Begun(k) =>
        /\ received[k] = <<>> /\ jobs[k] = <<>> /\ messagesOut[k] = <<>> /\ writing[k] = {}
        /\ c \notin accepted /\ wire[Server(c)] = <<>>
NoServer(c) ==
    socket[Server(c)] = "none" =>
        /\ wire[Client(c)] = <<>> /\ wire[Server(c)] = <<>>
        /\ socket[Client(c)] # "closed" => ~Begun(Client(c))
NoClient(c) == socket[Client(c)] = "none" => socket[Server(c)] = "none"
Answering(c) ==
    \A op \in writing[Client(c)] :
        op.part = "validation" => op = Op("validation", TRUE) /\ reading[Client(c)] = NoRead
Down(c) ==
    LET k == Client(c) IN
    socket[k] = "closed" => /\ reading[k] = NoRead /\ writing[k] = {}
                            /\ jobs[k] = <<>> /\ messagesOut[k] = <<>>
Shaped(e) == reading[e].part = "none" => reading[e] = NoRead

Settled(c) == /\ Young(c) /\ NoServer(c) /\ NoClient(c) /\ Answering(c) /\ Down(c)
              /\ Shaped(Server(c)) /\ Shaped(Client(c))
Link(c) == Frame(Server(c)) /\ Frame(Client(c)) /\ Settled(c)

Framing == received \in [Ends -> Seq(Messages)] /\ \A c \in Clients : Link(c)

\* A step that leaves an end alone.
Apart(e) == Same(e) /\ wire'[e] = wire[e] /\ received'[e] = received[e]

LEMMA LinkApart ==
    ASSUME NEW c \in Clients, Link(c), Apart(Server(c)), Apart(Client(c)),
           c \in accepted' => c \in accepted
    PROVE  Link(c)'
<1> DEFINE s == Server(c)
           k == Client(c)
<1>1. /\ s \in Ends /\ k \in Ends /\ Peer(s) = k /\ Peer(k) = s /\ s[2] = "server" /\ k[2] = "client"
  BY EndFacts DEF Server, Client, Peer
<1>2. \A e \in {s, k} : /\ socket'[e] = socket[e] /\ jobs'[e] = jobs[e]
                        /\ messagesOut'[e] = messagesOut[e] /\ writing'[e] = writing[e]
                        /\ reading'[e] = reading[e] /\ wire'[e] = wire[e]
                        /\ received'[e] = received[e]
  BY DEF Apart, Same
<1> HIDE DEF s, k
<1>3. \A e \in {s, k} : /\ Reader(e)' = Reader(e) /\ Writer(e)' = Writer(e) /\ Begun(e)' = Begun(e)
                        /\ IsConnected(e)' = IsConnected(e)
  BY <1>2 DEF Reader, Writer, Begun, HeaderOut, IsConnected
<1>4. Frame(s)' /\ Frame(k)'
  BY <1>1, <1>2, <1>3, FrameKept DEF Link, Readable, Linked, s, k
<1>5. Settled(c)
  BY DEF Link
<1>6. Young(c)' /\ NoServer(c)' /\ NoClient(c)'
  BY <1>2, <1>3, <1>5 DEF Settled, Young, NoServer, NoClient, s, k
<1>7. Answering(c)' /\ Down(c)' /\ Shaped(s)' /\ Shaped(k)'
  BY <1>2, <1>5 DEF Settled, Answering, Down, Shaped, s, k
<1> QED
  BY <1>4, <1>6, <1>7 DEF Link, Settled, s, k

LEMMA OneLink ==
    ASSUME Framing, NEW c \in Clients, Link(c)', received' \in [Ends -> Seq(Messages)],
           \A f \in Ends : f[1] # c => Apart(f),
           \A d \in Clients \ {c} : d \in accepted' => d \in accepted
    PROVE  Framing'
<1>1. ASSUME NEW d \in Clients, d # c PROVE Link(d)'
  <2>1. Server(d) \in Ends /\ Server(d)[1] = d /\ Client(d) \in Ends /\ Client(d)[1] = d
    BY EndFacts DEF Server, Client
  <2> QED
    BY <1>1, <2>1, LinkApart DEF Framing
<1> QED
  BY <1>1 DEF Framing

(* A step that closes e: nothing is wanted of it and nothing comes of it.  *)
LEMMA ClosedFraming ==
    ASSUME Inv, Framing, NEW e \in Ends, NEW read \in {NoRead, reading[e]}, NEW writes,
           Close(e, read, writes), socket[e] # "none", UNCHANGED <<received, accepted>>
    PROVE  Framing'
<1>0. PICK c \in Clients : e \in {Server(c), Client(c)}
  BY EndFacts
<1> DEFINE s == Server(c)
           k == Client(c)
<1>1. /\ s \in Ends /\ k \in Ends /\ Peer(s) = k /\ Peer(k) = s /\ s # k
      /\ s[2] = "server" /\ k[2] = "client" /\ e \in {s, k}
      /\ s[1] = c /\ k[1] = c
  BY <1>0, EndFacts DEF Server, Client, Peer, Ends
<1>2. /\ socket'[e] = "closed" /\ reading'[e] \in {NoRead, reading[e]}
      /\ \A f \in Ends \ {e} : Apart(f)
  <2>1. /\ socket \in [Ends -> {"none", "open", "closed"}] /\ reading \in [Ends -> Reads]
        /\ writing \in [Ends -> SUBSET Writes] /\ wire \in [Ends -> Seq(Units)]
        /\ jobs \in [Ends -> Seq(Messages)] /\ messagesOut \in [Ends -> Seq(Messages)]
    BY DEF Inv, Types
  <2>2. socket' = [socket EXCEPT ![e] = "closed"]
    BY DEF Close
  <2>3. CASE /\ reading' = [reading EXCEPT ![e] = NoRead]
             /\ writing' = [writing EXCEPT ![e] = {}]
             /\ wire' = [wire EXCEPT ![e] = <<>>]
             /\ jobs' = [jobs EXCEPT ![e] = <<>>]
             /\ messagesOut' = [messagesOut EXCEPT ![e] = <<>>]
    BY <2>1, <2>2, <2>3 DEF Apart, Same
  <2>4. CASE /\ reading' = [reading EXCEPT ![e] = read]
             /\ writing' = [writing EXCEPT ![e] = writes]
             /\ UNCHANGED <<wire, jobs, messagesOut>>
    BY <2>1, <2>2, <2>4 DEF Apart, Same
  <2> QED
    BY <2>3, <2>4 DEF Close
<1>3. Link(c)
  BY <1>1 DEF Framing
<1> HIDE DEF s, k
<1>4. ASSUME e = s PROVE Link(c)'
  <2>1. /\ socket'[s] = "closed" /\ reading'[s] \in {NoRead, reading[s]} /\ wire'[s] = wire[s]
    BY <1>1, <1>2, <1>4 DEF Close
  <2>2. /\ socket'[k] = socket[k] /\ jobs'[k] = jobs[k]
        /\ messagesOut'[k] = messagesOut[k] /\ writing'[k] = writing[k]
        /\ reading'[k] = reading[k] /\ wire'[k] = wire[k] /\ received'[k] = received[k]
    BY <1>1, <1>2, <1>4 DEF Apart, Same
  <2>3. Frame(s)' /\ Frame(k)'
    <3>1. ~Linked(s)' /\ ~Linked(k)'
      BY <1>1, <2>1 DEF Linked, IsConnected
    <3>2. Readable(s)' => Readable(s) /\ Reader(s)' = Reader(s)
      BY <2>1 DEF Readable, Reader, IsConnected
    <3>3. Readable(k)' => Readable(k) /\ Reader(k)' = Reader(k)
      BY <2>2 DEF Readable, Reader, IsConnected
    <3> QED
      BY <1>1, <1>3, <2>1, <2>2, <3>1, <3>2, <3>3, FrameKept DEF Link, s, k
  <2>4. Settled(c)'
    BY <1>1, <1>3, <1>4, <2>1, <2>2 DEF Link, Settled, Young, NoServer, NoClient, Answering, Down, Shaped, Begun, s, k, NoRead, Read
  <2> QED
    BY <2>3, <2>4 DEF Link, Settled, s, k
<1>5. ASSUME e = k PROVE Link(c)'
  <2>1. /\ socket'[k] = "closed" /\ reading'[k] = NoRead /\ writing'[k] = {}
        /\ jobs'[k] = <<>> /\ messagesOut'[k] = <<>> /\ wire'[k] = <<>>
    BY <1>1, <1>5 DEF Close, Inv, Types
  <2>2. /\ socket'[s] = socket[s] /\ jobs'[s] = jobs[s]
        /\ messagesOut'[s] = messagesOut[s] /\ writing'[s] = writing[s]
        /\ reading'[s] = reading[s] /\ wire'[s] = wire[s] /\ received'[s] = received[s]
    BY <1>1, <1>2, <1>5 DEF Apart, Same
  <2>3. Frame(s)' /\ Frame(k)'
    <3>1. ~Linked(s)' /\ ~Linked(k)' /\ ~Readable(k)'
      BY <1>1, <2>1 DEF Linked, IsConnected, Readable
    <3>2. Readable(s)' => Readable(s) /\ Reader(s)' = Reader(s)
      BY <2>2 DEF Readable, Reader, IsConnected
    <3>3. Frame(s)'
      BY <1>1, <1>3, <2>2, <3>1, <3>2, FrameKept DEF Link, s
    <3> QED
      BY <3>1, <3>3 DEF Frame
  <2>4. Settled(c)'
    BY <1>1, <1>3, <1>5, <2>1, <2>2 DEF Link, Settled, Young, NoServer, NoClient, Answering, Down, Shaped, Begun, s, k, NoRead, Read
  <2> QED
    BY <2>3, <2>4 DEF Link, Settled, s, k
<1>6. \A f \in Ends : f[1] # c => Apart(f)
  BY <1>1, <1>2
<1>7. Link(c)' /\ received' \in [Ends -> Seq(Messages)]
  BY <1>1, <1>4, <1>5 DEF Framing
<1> QED
  BY <1>6, <1>7, OneLink

LEMMA Pair ==
    \A c \in Clients : /\ Server(c) \in Ends /\ Client(c) \in Ends /\ Server(c) # Client(c)
                       /\ Peer(Server(c)) = Client(c) /\ Peer(Client(c)) = Server(c)
                       /\ Server(c)[1] = c /\ Client(c)[1] = c
                       /\ Server(c)[2] = "server" /\ Client(c)[2] = "client"
BY EndFacts DEF Server, Client, Peer, Ends

LEMMA FramingAt ==
    ASSUME Framing, NEW e \in Ends, Frame(e)', Frame(Peer(e))', Settled(e[1])',
           received' \in [Ends -> Seq(Messages)], \A f \in Ends \ {e, Peer(e)} : Apart(f),
           \A d \in Clients \ {e[1]} : d \in accepted' => d \in accepted
    PROVE  Framing'
<1> DEFINE c == e[1]
<1>1. c \in Clients /\ {e, Peer(e)} = {Server(c), Client(c)}
  BY EndFacts
<1>2. Link(c)'
  <2>1. CASE e = Server(c)
    BY <1>1, <2>1, Pair DEF Link
  <2>2. CASE e = Client(c)
    BY <1>1, <2>2, Pair DEF Link
  <2> QED
    BY <1>1, <2>1, <2>2
<1>3. \A f \in Ends : f[1] # c => Apart(f)
  BY <1>1, Pair
<1> QED
  BY <1>1, <1>2, <1>3, OneLink

\* What a step at e keeps that neither opens, closes nor reads.
LEMMA SettledOn ==
    ASSUME NEW e \in Ends, Settled(e[1]), socket[e] # "none",
           UNCHANGED <<socket, reading, received, accepted>>,
           LET p == Peer(e) IN /\ jobs'[p] = jobs[p] /\ messagesOut'[p] = messagesOut[p]
                               /\ writing'[p] = writing[p],
           e[2] = "client" => /\ Begun(e) /\ IsConnected(e)
                              /\ \A op \in writing'[e] :
                                     op.part = "validation" => op \in writing[e],
           wire'[e] = wire[e]
    PROVE  Settled(e[1])' /\ socket[Server(e[1])] # "none"
<1> DEFINE c == e[1]
           s == Server(c)
           k == Client(c)
<1>1. /\ c \in Clients /\ s \in Ends /\ k \in Ends /\ Peer(s) = k /\ Peer(k) = s
      /\ e = s \/ e = k
      /\ e = s => e[2] = "server"
      /\ e = k => e[2] = "client"
  BY EndFacts, Pair
<1>2. /\ Young(c) /\ NoServer(c) /\ NoClient(c) /\ Answering(c) /\ Down(c)
      /\ Shaped(s) /\ Shaped(k)
  BY DEF Settled
<1>3. /\ jobs'[Peer(e)] = jobs[Peer(e)] /\ messagesOut'[Peer(e)] = messagesOut[Peer(e)]
      /\ writing'[Peer(e)] = writing[Peer(e)]
  OBVIOUS
<1> HIDE DEF c, s, k
<1>4. socket[s] # "none"
  BY <1>1, <1>2 DEF NoServer, IsConnected, s, k
<1>5. Begun(k)' = Begun(k)
  BY DEF Begun
<1>6. Shaped(s)' /\ Shaped(k)' /\ NoClient(c)'
  BY <1>2 DEF Shaped, NoClient
<1>7. CASE e = s
  <2>1. jobs'[k] = jobs[k] /\ messagesOut'[k] = messagesOut[k] /\ writing'[k] = writing[k]
        /\ wire'[s] = wire[s]
    BY <1>1, <1>3, <1>7
  <2>2. Young(c)'
    BY <1>2, <1>5, <2>1 DEF Young, s, k
  <2>3. NoServer(c)' /\ Answering(c)' /\ Down(c)'
    BY <1>2, <1>4, <2>1 DEF NoServer, Answering, Down, s, k
  <2> QED
    BY <1>4, <1>6, <2>2, <2>3 DEF Settled, c, s, k
<1>8. CASE e = k
  <2>1. Begun(k) /\ IsConnected(k)
    BY <1>1, <1>8
  <2>2. Young(c)' /\ NoServer(c)' /\ Down(c)'
    BY <1>4, <1>5, <2>1 DEF Young, NoServer, Down, IsConnected, s, k
  <2>3. Answering(c)'
    BY <1>1, <1>2, <1>8 DEF Answering, k
  <2> QED
    BY <1>4, <1>6, <2>2, <2>3 DEF Settled, c, s, k
<1> QED
  BY <1>1, <1>7, <1>8

\* A step that puts nothing on a wire and changes no expectation.
LEMMA QuietFraming ==
    ASSUME Framing, NEW e \in Ends, socket[e] # "none",
           UNCHANGED <<socket, reading, wire, received, accepted>>,
           \A f \in Ends \ {e} : Same(f), Writer(e)' = Writer(e),
           e[2] = "client" => /\ Begun(e) /\ IsConnected(e)
                              /\ \A op \in writing'[e] :
                                     op.part = "validation" => op \in writing[e]
    PROVE  Framing'
<1> DEFINE p == Peer(e)
<1>1. p \in Ends /\ p # e /\ Peer(p) = e /\ e[1] \in Clients /\ {e, p} = {Server(e[1]), Client(e[1])}
  BY EndFacts, Pair
<1>2. Frame(e) /\ Frame(p) /\ Settled(e[1])
  BY <1>1 DEF Framing, Link
<1>3. Same(p)
  BY <1>1
<1>4. Writer(p)' = Writer(p)
  BY <1>3 DEF Writer, Begun, HeaderOut, Same
<1>5. \A f \in {e, p} : /\ Reader(f)' = Reader(f) /\ Readable(f)' = Readable(f)
                        /\ Linked(f)' = Linked(f)
  BY DEF Reader, Readable, Linked, IsConnected
<1>6. Frame(e)' /\ Frame(p)'
  <2> HIDE DEF p
  <2>1. Frame(e)'
    BY <1>2, <1>4, <1>5, FrameKept DEF p
  <2>2. Frame(p)'
    BY <1>1, <1>2, <1>5, FrameKept
  <2> QED
    BY <2>1, <2>2
<1>7. Settled(e[1])'
  BY <1>2, <1>3, SettledOn DEF Same
<1>8. \A f \in Ends \ {e, p} : Apart(f)
  BY DEF Apart
<1> QED
  BY <1>6, <1>7, <1>8, FramingAt DEF Framing

\* A step that puts what the other end wants.
LEMMA PutFraming ==
    ASSUME Inv, Framing, NEW e \in Ends, socket[e] # "none",
           NEW part \in {"header", "body"}, NEW m \in Messages, NEW others \in SUBSET Writes,
           StartWrite(e, part, m, others), others \subseteq writing[e],
           Fits(<<part, m>>, Writer(e)), Writer(e)' = After(<<part, m>>),
           UNCHANGED <<socket, reading, received, accepted>>,
           \A f \in Ends \ {e} : jobs'[f] = jobs[f] /\ messagesOut'[f] = messagesOut[f],
           e[2] = "client" => Begun(e) /\ IsConnected(e)
    PROVE  Framing'
<1> DEFINE p == Peer(e)
           u == <<part, m>>
<1>1. p \in Ends /\ p # e /\ Peer(p) = e /\ e[1] \in Clients /\ {e, p} = {Server(e[1]), Client(e[1])}
  BY EndFacts, Pair
<1>2. Frame(e) /\ Frame(p) /\ Settled(e[1])
  BY <1>1 DEF Framing, Link
<1>3. Types /\ part \in Parts
  BY DEF Inv, Parts
<1>4. /\ writing'[e] = others \cup {Op(part, IsConnected(e))}
      /\ \A f \in Ends \ {e} : writing'[f] = writing[f]
  BY <1>3, StartWriteFacts
<1>5. /\ IsConnected(e) /\ socket[p] # "closed" => wire'[p] = Append(wire[p], u)
      /\ ~(IsConnected(e) /\ socket[p] # "closed") => wire'[p] = wire[p]
      /\ \A f \in Ends \ {p} : wire'[f] = wire[f]
  BY <1>1, <1>3 DEF StartWrite, Types
<1>6. wire[p] \in Seq(Units) /\ u \in Units
  BY <1>1, <1>3 DEF Types, Units
<1> HIDE DEF u
<1>7. Same(p) /\ \A f \in Ends \ {e, p} : Apart(f)
  BY <1>1, <1>4, <1>5 DEF Same, Apart
<1>8. Settled(e[1])' /\ socket[Server(e[1])] # "none"
  <2>1. \A op \in writing'[e] : op.part = "validation" => op \in writing[e]
    BY <1>4 DEF Op
  <2> HIDE DEF p
  <2>2. wire'[e] = wire[e] /\ jobs'[p] = jobs[p] /\ messagesOut'[p] = messagesOut[p]
        /\ writing'[p] = writing[p]
    BY <1>1, <1>4, <1>5
  <2> QED
    BY <1>2, <2>1, <2>2, SettledOn DEF p
<1>9. \A f \in {e, p} : /\ Reader(f)' = Reader(f) /\ Readable(f)' = Readable(f)
                        /\ Linked(f)' = Linked(f)
  BY DEF Reader, Readable, Linked, IsConnected
<1>10. Writer(p)' = Writer(p)
  BY <1>7 DEF Writer, Begun, HeaderOut, Same
<1>11. socket[p] # "none"
  BY <1>1, <1>2, <1>8, Pair DEF Settled, NoClient
<1> HIDE DEF p
<1>12. Frame(e)'
  BY <1>1, <1>2, <1>5, <1>9, <1>10, FrameKept DEF p
<1>13. Frame(p)'
  <2>1. CASE IsConnected(e) /\ socket[p] = "open"
    <3>1. Linked(p)
      BY <1>1, <2>1 DEF Linked, IsConnected
    <3> QED
      BY <1>1, <1>2, <1>5, <1>6, <1>9, <2>1, <3>1, FrameAppended DEF u
  <2>2. CASE ~(IsConnected(e) /\ socket[p] = "open")
    <3>1. ~(IsConnected(e) /\ socket[p] # "closed") /\ ~Linked(p)
      BY <1>1, <1>3, <1>11, <2>2 DEF Types, Linked, IsConnected
    <3> QED
      BY <1>1, <1>2, <1>5, <1>9, <3>1, FrameKept
  <2> QED
    BY <2>1, <2>2
<1> QED
  BY <1>7, <1>8, <1>12, <1>13, FramingAt DEF Framing, p

-----------------------------------------------------------------------------
(* The steps.                                                              *)

LEMMA Active ==
    ASSUME Inv, Framing, NEW e \in Ends, jobs[e] # <<>> \/ writing[e] # {}
    PROVE  socket[e] # "none" /\ (e[2] = "client" => Begun(e) /\ IsConnected(e))
<1>1. socket[e] # "none"
  BY DEF Inv, Unused
<1>2. ASSUME e[2] = "client" PROVE Begun(e) /\ IsConnected(e)
  <2>1. e[1] \in Clients /\ e = Client(e[1])
    BY <1>2, EndFacts
  <2>2. Young(e[1]) /\ Down(e[1])
    BY <2>1 DEF Framing, Link, Settled
  <2> QED
    BY <1>1, <2>1, <2>2 DEF Young, Down, Inv, Types, IsConnected
<1> QED
  BY <1>1, <1>2

LEMMA SendFraming ==
    ASSUME Inv, Framing, NEW e \in Ends, Send(e)
    PROVE  Framing'
<1> DEFINE m == Head(jobs[e])
           out == messagesOut[e]
<1>1. /\ jobs[e] # <<>> /\ jobs[e] \in Seq(Messages) /\ out \in Seq(Messages)
      /\ jobs \in [Ends -> Seq(Messages)] /\ messagesOut \in [Ends -> Seq(Messages)]
      /\ writing[e] \in SUBSET Writes
  BY DEF Send, Inv, Types
<1>2. /\ jobs' = [jobs EXCEPT ![e] = Tail(jobs[e])]
      /\ messagesOut' = [messagesOut EXCEPT ![e] = Append(out, m)]
      /\ UNCHANGED <<socket, reading, received, accepted>>
      /\ IF out = <<>> THEN StartWrite(e, "header", m, writing[e])
                       ELSE UNCHANGED <<writing, wire>>
  BY DEF Send, mains, history
<1>3. m \in Messages /\ Append(out, m) # <<>>
      /\ Head(Append(out, m)) = IF out = <<>> THEN m ELSE Head(out)
  <2>1. m \in Messages
    BY <1>1
  <2> HIDE DEF m, out
  <2>2. /\ Append(out, m) \in Seq(Messages) /\ Append(out, m) # <<>>
        /\ Append(out, m)[Len(out) + 1] = m /\ \A i \in 1..Len(out) : Append(out, m)[i] = out[i]
    BY <1>1, <2>1, AppendProperties
  <2>3. Head(Append(out, m)) = Append(out, m)[1]
    BY <2>2
  <2>4. CASE out = <<>>
    BY <2>1, <2>2, <2>3, <2>4
  <2>5. CASE out # <<>>
    <3>1. 1 \in 1..Len(out) /\ Head(out) = out[1]
      BY <1>1, <2>5
    <3> QED
      BY <2>1, <2>2, <2>3, <2>5, <3>1
  <2> QED
    BY <2>4, <2>5
<1> HIDE DEF m, out
<1>4. socket[e] # "none" /\ (e[2] = "client" => Begun(e) /\ IsConnected(e))
  BY <1>1, Active
<1>5. /\ messagesOut'[e] = Append(out, m)
      /\ \A f \in Ends \ {e} : jobs'[f] = jobs[f] /\ messagesOut'[f] = messagesOut[f]
  BY <1>1, <1>2
<1>6. Begun(e) /\ Begun(e)'
  BY <1>2, <1>4, EndFacts DEF Begun, Ends
<1>7. CASE out = <<>>
  <2>1. MessageWrites(e) = {}
    BY <1>7 DEF Inv, Busy, out
  <2>2. ~HeaderOut(e)
    BY <2>1 DEF HeaderOut, MessageWrites
  <2>3. Fits(<<"header", m>>, Writer(e))
    BY <1>6, <2>2 DEF Writer, Fits
  <2>4. StartWrite(e, "header", m, writing[e])
    BY <1>2, <1>7
  <2>5. writing'[e] = writing[e] \cup {Op("header", IsConnected(e))}
    BY <1>1, <1>3, <2>4, StartWriteFacts DEF Inv, Parts
  <2>6. HeaderOut(e)'
    <3>1. Op("header", IsConnected(e)) \in writing'[e] /\ Op("header", IsConnected(e)).part = "header"
      BY <2>5 DEF Op
    <3> QED
      BY <3>1 DEF HeaderOut
  <2>7. Writer(e)' = After(<<"header", m>>)
    BY <1>3, <1>5, <1>6, <1>7, <2>6 DEF Writer
  <2> QED
    BY <1>1, <1>2, <1>3, <1>4, <1>5, <2>3, <2>4, <2>7, PutFraming
<1>8. CASE out # <<>>
  <2>1. UNCHANGED <<writing, wire>>
    BY <1>2, <1>8
  <2>2. Head(messagesOut'[e]) = Head(messagesOut[e])
    BY <1>3, <1>5, <1>8 DEF out
  <2>3. Writer(e)' = Writer(e)
    <3>1. HeaderOut(e)' = HeaderOut(e)
      BY <2>1 DEF HeaderOut
    <3> QED
      BY <1>6, <2>2, <3>1 DEF Writer
  <2>4. \A f \in Ends \ {e} : Same(f)
    BY <1>2, <1>5, <2>1 DEF Same
  <2> QED
    BY <1>2, <1>4, <2>1, <2>3, <2>4, QuietFraming
<1> QED
  BY <1>7, <1>8

LEMMA WrittenFraming ==
    ASSUME Inv, Framing, NEW e \in Ends, NEW op \in MessageWrites(e), Written(e, op),
           Writer(e) = <<"header", None>>,
           UNCHANGED <<socket, jobs, received, accepted>>
    PROVE  Framing'
<1> DEFINE rest == Tail(messagesOut[e])
<1>1. /\ MessageWrites(e) = {op} /\ messagesOut[e] # <<>> /\ op \in writing[e]
      /\ messagesOut \in [Ends -> Seq(Messages)] /\ writing \in [Ends -> SUBSET Writes]
  BY DEF Inv, Types, Busy, MessageWrites
<1>2. rest \in Seq(Messages)
  BY <1>1
<1>3. /\ messagesOut' = [messagesOut EXCEPT ![e] = rest] /\ UNCHANGED reading
      /\ rest # <<>> => StartWrite(e, "header", Head(rest), Others(e, op))
      /\ rest = <<>> => writing' = [writing EXCEPT ![e] = Others(e, op)] /\ UNCHANGED wire
  BY DEF Written
<1>4. rest # <<>> => Head(rest) \in Messages
  <2> HIDE DEF rest
  <2> QED
    BY <1>2
<1> HIDE DEF rest
<1>5. socket[e] # "none" /\ (e[2] = "client" => Begun(e) /\ IsConnected(e))
  BY <1>1, Active
<1>6. messagesOut'[e] = rest /\ \A f \in Ends \ {e} : messagesOut'[f] = messagesOut[f]
  BY <1>1, <1>3
<1>7. Begun(e) /\ Begun(e)'
  BY <1>3, <1>5, EndFacts DEF Begun, Ends
<1>8. Others(e, op) \in SUBSET Writes /\ Others(e, op) \subseteq writing[e]
      /\ \A other \in Others(e, op) : other.part \notin {"header", "body"}
  BY <1>1 DEF Others, MessageWrites
<1>9. CASE rest # <<>>
  <2>1. StartWrite(e, "header", Head(rest), Others(e, op)) /\ Head(rest) \in Messages
    BY <1>3, <1>4, <1>9
  <2>2. writing'[e] = Others(e, op) \cup {Op("header", IsConnected(e))}
    BY <1>8, <2>1, StartWriteFacts DEF Inv, Parts
  <2>3. HeaderOut(e)'
    <3>1. Op("header", IsConnected(e)) \in writing'[e] /\ Op("header", IsConnected(e)).part = "header"
      BY <2>2 DEF Op
    <3> QED
      BY <3>1 DEF HeaderOut
  <2>4. Writer(e)' = After(<<"header", Head(rest)>>)
    BY <1>6, <1>7, <2>3 DEF Writer
  <2>5. Fits(<<"header", Head(rest)>>, Writer(e))
    BY DEF Fits
  <2> QED
    BY <1>3, <1>5, <1>6, <1>8, <2>1, <2>4, <2>5, PutFraming
<1>10. CASE rest = <<>>
  <2>1. writing'[e] = Others(e, op) /\ UNCHANGED wire
        /\ \A f \in Ends \ {e} : writing'[f] = writing[f]
    BY <1>1, <1>3, <1>10
  <2>2. ~HeaderOut(e)'
    BY <1>8, <2>1 DEF HeaderOut
  <2>3. Writer(e)' = Writer(e)
    BY <1>7, <2>2 DEF Writer
  <2>4. \A f \in Ends \ {e} : Same(f)
    BY <1>3, <1>6, <2>1 DEF Same
  <2>5. \A other \in writing'[e] : other \in writing[e]
    BY <1>8, <2>1
  <2> QED
    BY <1>3, <1>5, <2>1, <2>3, <2>4, <2>5, QuietFraming
<1> QED
  BY <1>9, <1>10

LEMMA WritesFraming ==
    ASSUME Inv, Framing, NEW e \in Ends, NEW op \in writing[e],
           WriteHeader(e, op) \/ WriteBody(e, op)
    PROVE  Framing'
<1>1. /\ op \in MessageWrites(e) /\ UNCHANGED <<socket, jobs, received, accepted>>
      /\ WriteBody(e, op) => op.part = "body"
      /\ WriteHeader(e, op) => op.part = "header"
  BY DEF WriteHeader, WriteBody, MessageWrites, mains, history
<1>2. /\ MessageWrites(e) = {op} /\ messagesOut[e] # <<>> /\ messagesOut[e] \in Seq(Messages)
      /\ writing[e] \in SUBSET Writes
  BY <1>1 DEF Inv, Types, Busy
<1>3. socket[e] # "none" /\ (e[2] = "client" => Begun(e) /\ IsConnected(e))
  BY Active
<1>4. Begun(e)
  BY <1>3, EndFacts DEF Begun, Ends
<1>5. op.part = "header" <=> HeaderOut(e)
  BY <1>2 DEF HeaderOut, MessageWrites
<1> DEFINE m == Head(messagesOut[e])
<1>6. m \in Messages
  BY <1>2
<1> HIDE DEF m
<1>7. CASE WriteBody(e, op)
  <2>1. Writer(e) = <<"header", None>> /\ Written(e, op)
    BY <1>1, <1>4, <1>5, <1>7 DEF Writer, WriteBody
  <2> QED
    BY <1>1, <2>1, WrittenFraming
<1>8. CASE WriteHeader(e, op)
  <2>1. Writer(e) = After(<<"header", m>>)
    BY <1>1, <1>4, <1>5, <1>8 DEF Writer, m
  <2>2. CASE ~HasBody(m)
    <3>1. Writer(e) = <<"header", None>> /\ Written(e, op)
      BY <1>8, <2>1, <2>2 DEF After, WriteHeader, m
    <3> QED
      BY <1>1, <3>1, WrittenFraming
  <2>3. CASE HasBody(m)
    <3>1. StartWrite(e, "body", m, Others(e, op)) /\ UNCHANGED <<messagesOut, reading>>
      BY <1>8, <2>3 DEF WriteHeader, m
    <3>2. Others(e, op) \in SUBSET Writes /\ Others(e, op) \subseteq writing[e]
          /\ \A other \in Others(e, op) : other.part \notin {"header", "body"}
      BY <1>2 DEF Others, MessageWrites
    <3>3. writing'[e] = Others(e, op) \cup {Op("body", IsConnected(e))}
      BY <1>6, <3>1, <3>2, StartWriteFacts DEF Inv, Parts
    <3>4. ~HeaderOut(e)' /\ Begun(e)'
      BY <1>1, <1>4, <3>1, <3>2, <3>3 DEF HeaderOut, Begun, Op
    <3>5. Writer(e)' = After(<<"body", m>>)
      BY <3>4 DEF Writer, After
    <3>6. Fits(<<"body", m>>, Writer(e))
      BY <2>1, <2>3 DEF Fits, After
    <3> QED
      BY <1>1, <1>3, <1>6, <3>1, <3>2, <3>5, <3>6, PutFraming
  <2> QED
    BY <2>2, <2>3
<1> QED
  BY <1>7, <1>8

LEMMA WriteValidationFraming ==
    ASSUME Inv, Framing, NEW e \in Ends, NEW op \in writing[e], WriteValidation(e, op)
    PROVE  Framing'
<1>1. /\ op.part = "validation" /\ writing' = [writing EXCEPT ![e] = Others(e, op)]
      /\ UNCHANGED <<socket, wire, jobs, messagesOut, received, accepted>>
      /\ IF e[2] = "client" THEN StartRead(e, "header", None) ELSE UNCHANGED reading
  BY DEF WriteValidation, mains, history
<1>2. /\ writing'[e] = writing[e] \ {op}
      /\ \A f \in Ends \ {e} : writing'[f] = writing[f]
      /\ reading \in [Ends -> Reads]
  BY <1>1 DEF Inv, Types, Others
<1>3. socket[e] # "none" /\ (e[2] = "client" => Begun(e) /\ IsConnected(e))
  BY Active
<1>4. HeaderOut(e)' = HeaderOut(e)
  BY <1>1, <1>2 DEF HeaderOut
<1>5. CASE e[2] = "server"
  <2>1. UNCHANGED reading /\ \A f \in Ends \ {e} : Same(f)
    BY <1>1, <1>2, <1>5 DEF Same
  <2>2. Begun(e)' = Begun(e)
    BY <1>1, <2>1 DEF Begun
  <2>3. Writer(e)' = Writer(e)
    BY <1>1, <1>4, <2>2 DEF Writer
  <2> QED
    BY <1>1, <1>3, <1>5, <2>1, <2>3, QuietFraming
<1>6. CASE e[2] = "client"
  <2> DEFINE c == e[1]
             s == Peer(e)
             k == Client(c)
  <2>1. /\ c \in Clients /\ e = k /\ s = Server(c) /\ s \in Ends /\ s # e /\ Peer(s) = e
    BY <1>6, EndFacts, Pair
  <2>2. Frame(e) /\ Frame(s) /\ Settled(c) /\ Shaped(s)
    BY <2>1 DEF Framing, Link, Settled
  <2>3. /\ reading[e] = NoRead /\ IsConnected(e) /\ Begun(e)
        /\ \A o \in writing[e] : o.part = "validation" => o = op
    <3>1. Answering(c)
      BY <2>2 DEF Settled
    <3>2. \A o \in writing[e] :
              o.part = "validation" => o = Op("validation", TRUE) /\ reading[e] = NoRead
      BY <2>1, <3>1 DEF Answering
    <3> HIDE DEF c, s, k
    <3> QED
      BY <1>1, <1>3, <1>6, <3>2
  <2>4. /\ reading'[e] = Read("header", TRUE, None)
        /\ \A f \in Ends \ {e} : reading'[f] = reading[f]
    BY <1>1, <1>2, <1>6, <2>3 DEF StartRead
  <2> HIDE DEF c, s, k
  <2>5. Begun(e)'
    BY <1>1, <2>3, <2>4 DEF Begun, Read
  <2>6. Reader(e)' = Reader(e) /\ Readable(e) /\ Linked(e)' = Linked(e)
    BY <1>1, <2>3, <2>4 DEF Reader, Readable, Linked, IsConnected, Read, NoRead
  <2>7. /\ Reader(s)' = Reader(s) /\ Readable(s)' = Readable(s) /\ Linked(s)' = Linked(s)
        /\ Writer(s)' = Writer(s)
    BY <1>1, <1>2, <2>1, <2>4 DEF Reader, Readable, Linked, IsConnected, Writer, HeaderOut, Begun
  <2>8. Writer(e)' = Writer(e)
    BY <1>1, <1>4, <2>3, <2>5 DEF Writer
  <2>9. Frame(e)'
    BY <1>1, <2>2, <2>6, <2>7, FrameKept DEF s
  <2>10. Frame(s)'
    BY <1>1, <2>1, <2>2, <2>7, <2>8, FrameKept
  <2>11. Settled(c)'
    <3>1. Young(c)' /\ NoServer(c)' /\ NoClient(c)' /\ Down(c)'
      BY <1>1, <2>1, <2>2, <2>3, <2>5 DEF Settled, Young, NoServer, NoClient, Down, IsConnected, k
    <3>2. Answering(c)'
      BY <1>2, <2>1, <2>3 DEF Answering, k
    <3>3. Shaped(Server(c))' /\ Shaped(Client(c))'
      BY <2>1, <2>2, <2>4 DEF Settled, Shaped, Read, k
    <3> QED
      BY <3>1, <3>2, <3>3 DEF Settled
  <2>12. \A f \in Ends \ {e, s} : Apart(f)
    BY <1>1, <1>2, <2>4 DEF Apart, Same
  <2> QED
    BY <1>1, <2>9, <2>10, <2>11, <2>12, FramingAt DEF Framing, c, s
<1> QED
  BY <1>5, <1>6, EndFacts DEF Ends

LEMMA FailuresFraming ==
    ASSUME Inv, Framing, NEW e \in Ends,
           \/ \E op \in writing[e] : WriteFails(e, op)
           \/ ReadFails(e)
           \/ IsConnected(e) /\ Close(e, NoRead, {}) /\ UNCHANGED <<mains, history>>
    PROVE  Framing'
<1>1. socket[e] # "none"
  <2>1. CASE writing[e] # {} \/ reading[e] # NoRead
    BY <2>1 DEF Inv, Unused
  <2>2. CASE IsConnected(e)
    BY <2>2 DEF IsConnected
  <2> QED
    BY <2>1, <2>2 DEF ReadFails
<1>2. \E read \in {NoRead, reading[e]} : \E writes : Close(e, read, writes)
  BY DEF WriteFails, ReadFails
<1>3. UNCHANGED <<received, accepted>>
  BY DEF WriteFails, ReadFails, mains, history
<1> QED
  BY <1>1, <1>2, <1>3, ClosedFraming

\* What a read that takes a unit finds.
LEMMA ArrivingFits ==
    ASSUME Inv, Framing, NEW e \in Ends, NEW part \in Parts, Arrives(e, part)
    PROVE  /\ reading[e].part = part /\ reading[e] # NoRead /\ wire[e] # <<>>
           /\ wire[e] \in Seq(Units) /\ Head(wire[e]) \in Units
           /\ Fits(Head(wire[e]), Reader(e)) /\ Readable(e)
           /\ socket[Server(e[1])] # "none" /\ socket[e] # "none"
           /\ e[2] = "client" => IsConnected(e)
<1>1. /\ reading[e].part = part /\ wire[e] # <<>> /\ wire[e] \in Seq(Units)
      /\ socket[e] \in {"none", "open", "closed"}
  BY DEF Arrives, Inv, Types
<1>2. reading[e] # NoRead
  BY <1>1 DEF NoRead, Read, Parts
<1>3. Readable(e)
  BY <1>2 DEF Readable
<1>4. Frame(e) /\ Settled(e[1]) /\ e \in {Server(e[1]), Client(e[1])} /\ e[1] \in Clients
  BY EndFacts DEF Framing, Link
<1>5. Fits(Head(wire[e]), Reader(e))
  BY <1>1, <1>3, <1>4, ChainTaken DEF Frame
<1>6. socket[Server(e[1])] # "none"
  BY <1>1, <1>4 DEF Settled, NoServer
<1>7. socket[e] # "none"
  BY <1>2 DEF Inv, Unused
<1>8. e[2] = "client" => IsConnected(e)
  BY <1>1, <1>2, <1>4, <1>7, EndFacts DEF Settled, Down, IsConnected
<1> QED
  BY <1>1, <1>2, <1>3, <1>5, <1>6, <1>7, <1>8

(* A read that takes what it waits for and starts the next.                *)
LEMMA TakenFraming ==
    ASSUME Inv, Framing, NEW e \in Ends, NEW part \in Parts, Arrives(e, part), Take(e),
           part = "validation" => e[2] = "server",
           reading'[e].part \in {"header", "body"}, Reader(e)' = After(Head(wire[e])),
           UNCHANGED <<socket, jobs, messagesOut, writing, accepted>>,
           \A f \in Ends \ {e} : reading'[f] = reading[f] /\ received'[f] = received[f],
           received' \in [Ends -> Seq(Messages)]
    PROVE  Framing'
<1> DEFINE c == e[1]
           p == Peer(e)
           s == Server(c)
           k == Client(c)
<1>1. /\ c \in Clients /\ s \in Ends /\ k \in Ends /\ p \in Ends /\ p # e /\ Peer(p) = e
      /\ \/ e = s /\ p = k /\ e[2] = "server"
         \/ e = k /\ p = s /\ e[2] = "client"
  <2>1. \/ e = s /\ e[2] = "server"
        \/ e = k /\ e[2] = "client"
    BY EndFacts, Pair
  <2>2. c \in Clients /\ p \in Ends /\ p # e
    BY EndFacts
  <2>3. /\ s \in Ends /\ k \in Ends /\ Peer(s) = k /\ Peer(k) = s
    BY <2>2, Pair
  <2> HIDE DEF c, s, k
  <2> QED
    BY <2>1, <2>2, <2>3
<1>2. Frame(e) /\ Frame(p) /\ Settled(c)
  BY <1>1 DEF Framing, Link
<1>3. /\ reading[e].part = part /\ reading[e] # NoRead /\ wire[e] # <<>>
      /\ wire[e] \in Seq(Units) /\ Readable(e) /\ socket[s] # "none" /\ socket[e] # "none"
      /\ e = k => IsConnected(k)
  BY <1>1, ArrivingFits
<1>4. wire'[e] = Tail(wire[e]) /\ \A f \in Ends \ {e} : wire'[f] = wire[f]
  BY DEF Take, Inv, Types
<1> HIDE DEF c, p, s, k
<1>5. Begun(e) /\ Begun(e)'
  BY <1>1, <1>3 DEF Begun, Parts
<1>6. Writer(e)' = Writer(e)
  BY <1>5 DEF Writer, HeaderOut
<1>7. Begun(p)' = Begun(p)
  BY <1>1 DEF Begun
<1>8. Writer(p)' = Writer(p)
  BY <1>7 DEF Writer, HeaderOut
<1>9. Linked(e)' = Linked(e) /\ Linked(p)' = Linked(p)
  BY DEF Linked, IsConnected
<1>10. Frame(e)'
  BY <1>2, <1>3, <1>4, <1>8, <1>9, FrameTaken DEF p
<1>11. Frame(p)'
  <2>1. Reader(p)' = Reader(p) /\ Readable(p)' = Readable(p)
    BY <1>1 DEF Reader, Readable, IsConnected
  <2> QED
    BY <1>1, <1>2, <1>4, <1>6, <1>9, <2>1, FrameKept
<1>12. Settled(c)'
  <2>1. Young(c) /\ NoClient(c) /\ Answering(c) /\ Down(c) /\ Shaped(s) /\ Shaped(k)
    BY <1>2 DEF Settled, s, k
  <2>2. NoServer(c)' /\ NoClient(c)'
    BY <1>3, <2>1 DEF NoServer, NoClient, s
  <2>3. Shaped(s)' /\ Shaped(k)'
    BY <1>1, <2>1 DEF Shaped
  <2>4. CASE e = s
    <3>1. Young(c)'
      BY <1>1, <1>3, <1>7, <2>1, <2>4 DEF Young, s, k
    <3>2. Answering(c)' /\ Down(c)'
      BY <1>1, <2>1, <2>4 DEF Answering, Down, s, k
    <3> QED
      BY <2>2, <2>3, <3>1, <3>2 DEF Settled, s, k
  <2>5. CASE e = k
    <3>1. Young(c)' /\ Down(c)'
      BY <1>3, <1>5, <2>5 DEF Young, Down, IsConnected, k
    <3>2. Answering(c)'
      BY <1>3, <2>1, <2>5 DEF Answering, k
    <3> QED
      BY <2>2, <2>3, <3>1, <3>2 DEF Settled, s, k
  <2> QED
    BY <1>1, <2>4, <2>5
<1>13. \A f \in Ends \ {e, p} : Apart(f)
  BY <1>4 DEF Apart, Same
<1> QED
  BY <1>10, <1>11, <1>12, <1>13, FramingAt DEF c, p

LEMMA ServerReadFraming ==
    ASSUME Inv, Framing, NEW e \in Ends, ServerReadValidation(e)
    PROVE  Framing'
<1>1. /\ e[2] = "server" /\ Arrives(e, "validation") /\ UNCHANGED <<received, accepted>>
  BY DEF ServerReadValidation, mains, history
<1>2. /\ Fits(Head(wire[e]), Reader(e)) /\ reading[e].part = "validation" /\ socket[e] # "none"
  BY <1>1, ArrivingFits DEF Parts
<1>3. CASE Close(e, NoRead, writing[e])
  BY <1>1, <1>2, <1>3, ClosedFraming
<1>4. CASE /\ StartRead(e, "header", None) /\ Take(e)
           /\ UNCHANGED <<socket, jobs, messagesOut, writing>>
  <2>1. /\ reading'[e] = Read("header", IsConnected(e), None)
        /\ \A f \in Ends \ {e} : reading'[f] = reading[f]
    BY <1>4 DEF StartRead, Inv, Types
  <2>2. reading'[e].part = "header"
    BY <2>1 DEF Read
  <2>3. Reader(e)' = After(Head(wire[e]))
    BY <1>2, <2>2 DEF Reader, After, Fits
  <2>4. received' \in [Ends -> Seq(Messages)]
    BY <1>1 DEF Framing
  <2> QED
    BY <1>1, <1>4, <2>1, <2>2, <2>3, <2>4, TakenFraming DEF Parts
<1> QED
  BY <1>3, <1>4 DEF ServerReadValidation

LEMMA IncomingFraming ==
    ASSUME Inv, Framing, NEW e \in Ends, NEW m \in Messages, AddIncomingMessageQueue(e, m)
    PROVE  /\ received' \in [Ends -> Seq(Messages)]
           /\ \A f \in Ends \ {e} : reading'[f] = reading[f] /\ received'[f] = received[f]
           /\ reading'[e].part = "header" /\ Reader(e)' = <<"header", None>>
<1>1. /\ reading'[e] = Read("header", IsConnected(e), None)
      /\ \A f \in Ends \ {e} : reading'[f] = reading[f]
  BY DEF AddIncomingMessageQueue, StartRead, Inv, Types
<1>2. reading'[e].part = "header"
  BY <1>1 DEF Read
<1>3. Append(received[e], m) \in Seq(Messages)
  BY DEF Framing
<1>4. received' = [received EXCEPT ![e] = Append(received[e], m)]
  BY DEF AddIncomingMessageQueue
<1>5. received \in [Ends -> Seq(Messages)]
  BY DEF Framing
<1>6. received' \in [Ends -> Seq(Messages)] /\ \A f \in Ends \ {e} : received'[f] = received[f]
  BY <1>3, <1>4, <1>5
<1> QED
  BY <1>1, <1>2, <1>6 DEF Reader

LEMMA ReadsFraming ==
    ASSUME Inv, Framing, NEW e \in Ends, ReadHeader(e) \/ ReadBody(e)
    PROVE  Framing'
<1>1. Take(e) /\ UNCHANGED <<socket, jobs, messagesOut, writing, accepted>>
  BY DEF ReadHeader, ReadBody, mains
<1> DEFINE u == Head(wire[e])
<1>2. CASE ReadHeader(e)
  <2>1. Arrives(e, "header")
    BY <1>2 DEF ReadHeader
  <2>2. /\ u \in Units /\ Fits(u, Reader(e)) /\ reading[e].part = "header"
    BY <2>1, ArrivingFits DEF Parts
  <2>3. u[1] = "header" /\ u[2] \in Messages
    BY <2>2 DEF Reader, Fits, Units
  <2>4. CASE HasBody(u[2])
    <3>1. StartRead(e, "body", u[2]) /\ UNCHANGED received
      BY <1>2, <2>4 DEF ReadHeader
    <3>2. /\ reading'[e] = Read("body", IsConnected(e), u[2])
          /\ \A f \in Ends \ {e} : reading'[f] = reading[f]
      BY <3>1 DEF StartRead, Inv, Types
    <3>3. reading'[e].part = "body" /\ reading'[e].msgTempIn = u[2]
      BY <3>2 DEF Read
    <3>4. Reader(e)' = After(u)
      BY <2>3, <2>4, <3>3 DEF Reader, After
    <3>5. received' \in [Ends -> Seq(Messages)]
      BY <3>1 DEF Framing
    <3> QED
      BY <1>1, <2>1, <3>1, <3>2, <3>3, <3>4, <3>5, TakenFraming DEF Parts
  <2>5. CASE ~HasBody(u[2])
    <3>1. AddIncomingMessageQueue(e, u[2])
      BY <1>2, <2>5 DEF ReadHeader
    <3>2. <<"header", None>> = After(u)
      BY <2>5 DEF After
    <3>3. /\ received' \in [Ends -> Seq(Messages)]
          /\ \A f \in Ends \ {e} : reading'[f] = reading[f] /\ received'[f] = received[f]
          /\ reading'[e].part = "header" /\ Reader(e)' = <<"header", None>>
      BY <2>3, <3>1, IncomingFraming
    <3> QED
      BY <1>1, <2>1, <3>2, <3>3, TakenFraming DEF Parts
  <2> QED
    BY <2>4, <2>5
<1>3. CASE ReadBody(e)
  <2>1. Arrives(e, "body") /\ AddIncomingMessageQueue(e, reading[e].msgTempIn)
    BY <1>3 DEF ReadBody
  <2>2. /\ u \in Units /\ Fits(u, Reader(e)) /\ reading[e].part = "body"
    BY <2>1, ArrivingFits DEF Parts
  <2>3. u[1] = "body" /\ u[2] = reading[e].msgTempIn /\ u[2] \in Messages
    BY <2>2 DEF Reader, Fits, Units
  <2>4. <<"header", None>> = After(u)
    BY <2>3 DEF After
  <2>5. /\ received' \in [Ends -> Seq(Messages)]
        /\ \A f \in Ends \ {e} : reading'[f] = reading[f] /\ received'[f] = received[f]
        /\ reading'[e].part = "header" /\ Reader(e)' = <<"header", None>>
    BY <2>1, <2>3, IncomingFraming
  <2> QED
    BY <1>1, <2>1, <2>4, <2>5, TakenFraming DEF Parts
<1> QED
  BY <1>2, <1>3

LEMMA ClientReadFraming ==
    ASSUME Inv, Framing, NEW e \in Ends, ClientReadValidation(e)
    PROVE  Framing'
<1> DEFINE c == e[1]
           s == Server(c)
<1>1. PICK answer \in {"solution", "wrong"} :
          /\ wire' = [wire EXCEPT ![e] = Tail(@),
                                  ![Peer(e)] = IF socket[Peer(e)] = "closed" THEN @
                                               ELSE Append(wire[Peer(e)], Handshake(answer, c))]
          /\ writing' = [writing EXCEPT ![e] = @ \cup {Op("validation", TRUE)}]
  BY DEF ClientReadValidation
<1>2. /\ e[2] = "client" /\ Arrives(e, "validation")
      /\ reading' = [reading EXCEPT ![e] = NoRead]
      /\ UNCHANGED <<socket, jobs, messagesOut, received, accepted>>
  BY DEF ClientReadValidation, mains, history
<1>3. /\ c \in Clients /\ e = Client(c) /\ Peer(e) = s /\ s \in Ends /\ s # e /\ Peer(s) = e
      /\ s[2] = "server"
  BY <1>2, EndFacts, Pair
<1> DEFINE u == Handshake(answer, c)
<1>4. u \in Units /\ u[1] = "validation"
  <2>1. Message(answer, c, 0) \in Messages
    BY <1>3, AsioAssumption DEF Message, Messages, Kinds, Handshakes, AsioAssumption
  <2> QED
    BY <2>1 DEF Handshake, Units, Parts
<1>5. /\ reading[e].part = "validation" /\ reading[e] # NoRead /\ wire[e] # <<>>
      /\ wire[e] \in Seq(Units) /\ Fits(Head(wire[e]), Reader(e)) /\ Readable(e)
      /\ socket[s] # "none" /\ IsConnected(e)
  BY <1>2, ArrivingFits DEF Parts
<1> HIDE DEF c, s, u
<1>6. Frame(e) /\ Frame(s) /\ Settled(c) /\ Shaped(s) /\ Shaped(e)
  BY <1>3 DEF Framing, Link, Settled, s
<1>7. /\ wire'[e] = Tail(wire[e])
      /\ socket[s] = "closed" => wire'[s] = wire[s]
      /\ socket[s] # "closed" => wire'[s] = Append(wire[s], u)
      /\ \A f \in Ends \ {e, s} : wire'[f] = wire[f]
      /\ writing'[e] = writing[e] \cup {Op("validation", TRUE)}
      /\ reading'[e] = NoRead
      /\ \A f \in Ends \ {e} : writing'[f] = writing[f] /\ reading'[f] = reading[f]
  <2>1. wire \in [Ends -> Seq(Units)] /\ writing \in [Ends -> SUBSET Writes]
        /\ reading \in [Ends -> Reads]
    BY DEF Inv, Types
  <2>2. wire' = [wire EXCEPT ![e] = Tail(wire[e]),
                             ![s] = IF socket[s] = "closed" THEN wire[s] ELSE Append(wire[s], u)]
    BY <1>1, <1>3 DEF u
  <2>3. /\ wire'[e] = Tail(wire[e])
        /\ \A f \in Ends \ {e, s} : wire'[f] = wire[f]
        /\ wire'[s] = IF socket[s] = "closed" THEN wire[s] ELSE Append(wire[s], u)
    BY <1>3, <2>1, <2>2
  <2> QED
    BY <1>1, <1>2, <2>1, <2>3
<1>8. ~Begun(e) /\ Begun(e)'
  BY <1>2, <1>5, <1>7 DEF Begun, IsConnected, NoRead, Read
<1>9. Young(c) /\ writing[e] = {}
  BY <1>3, <1>5, <1>6, <1>8 DEF Settled, Young, IsConnected
<1>10. ~HeaderOut(e)'
  BY <1>7, <1>9 DEF HeaderOut, Op
<1>11. Writer(e) = <<"validation", None>> /\ Writer(e)' = <<"header", None>>
  BY <1>8, <1>10 DEF Writer
<1>12. Begun(s)' = Begun(s)
  BY <1>2, <1>3 DEF Begun
<1>13. Writer(s)' = Writer(s) /\ Reader(s)' = Reader(s) /\ Readable(s)' = Readable(s)
       /\ Linked(s)' = Linked(s) /\ Linked(e)' = Linked(e)
  BY <1>2, <1>3, <1>7, <1>12 DEF Writer, HeaderOut, Reader, Readable, Linked, IsConnected
<1>14. Frame(e)'
  <2>1. Reader(e)' = <<"header", None>>
    BY <1>7 DEF Reader, NoRead, Read
  <2>2. Head(wire[e])[1] = "validation"
    BY <1>5 DEF Reader, Fits
  <2>3. Reader(e)' = After(Head(wire[e]))
    BY <2>1, <2>2 DEF After
  <2> QED
    BY <1>3, <1>5, <1>6, <1>7, <1>13, <2>3, FrameTaken
<1>15. Frame(s)'
  <2>1. CASE socket[s] = "closed"
    <3>1. ~Linked(s)
      BY <2>1 DEF Linked, IsConnected
    <3> QED
      BY <1>3, <1>6, <1>7, <1>13, <2>1, <3>1, FrameKept
  <2>2. CASE socket[s] # "closed"
    <3>1. Linked(s) /\ wire[s] \in Seq(Units)
      BY <1>3, <1>5, <2>2 DEF Linked, IsConnected, Inv, Types
    <3>2. Fits(u, Writer(e)) /\ After(u) = Writer(e)'
      BY <1>4, <1>11 DEF Fits, After
    <3> QED
      BY <1>3, <1>4, <1>6, <1>7, <1>13, <2>2, <3>1, <3>2, FrameAppended
  <2> QED
    BY <2>1, <2>2
<1>16. Settled(c)'
  <2>1. NoServer(c)' /\ NoClient(c)'
    BY <1>2, <1>3, <1>5 DEF NoServer, NoClient, IsConnected, s
  <2>2. Young(c)' /\ Down(c)'
    BY <1>2, <1>3, <1>5, <1>8 DEF Young, Down, IsConnected
  <2>3. Answering(c)'
    BY <1>3, <1>7, <1>9 DEF Answering
  <2>4. Shaped(s)' /\ Shaped(e)'
    BY <1>3, <1>6, <1>7 DEF Shaped
  <2> QED
    BY <1>3, <2>1, <2>2, <2>3, <2>4 DEF Settled, s
<1>17. \A f \in Ends \ {e, s} : Apart(f)
  BY <1>2, <1>7 DEF Apart, Same
<1> QED
  BY <1>2, <1>3, <1>14, <1>15, <1>16, <1>17, FramingAt DEF Framing, c

LEMMA RunsLateFraming ==
    ASSUME Inv, Framing, NEW c \in Clients, socket[Server(c)] = "closed", RunsLate(c)
    PROVE  Framing'
<1> DEFINE s == Server(c)
           k == Client(c)
<1>1. /\ s \in Ends /\ k \in Ends /\ s # k /\ Peer(s) = k /\ Peer(k) = s /\ s[2] = "server"
      /\ s[1] = c
  BY Pair
<1>2. /\ reading'[s] = NoRead
      /\ \A f \in Ends \ {s} : reading'[f] = reading[f] /\ writing'[f] = writing[f]
                               /\ jobs'[f] = jobs[f]
      /\ UNCHANGED <<socket, wire, messagesOut, received, accepted>>
  BY <1>1 DEF RunsLate, mains, Inv, Types
<1>3. Frame(s) /\ Frame(k) /\ Settled(c)
  BY DEF Framing, Link
<1> HIDE DEF s, k
<1>4. socket'[s] = "closed"
  BY <1>2 DEF s
<1>5. Frame(s)'
  BY <1>2, <1>4 DEF Frame, Readable, Linked, IsConnected
<1>6. Frame(k)'
  <2>1. ~Linked(k)'
    BY <1>1, <1>4 DEF Linked
  <2>2. Readable(k)' = Readable(k) /\ Reader(k)' = Reader(k)
    BY <1>1, <1>2 DEF Readable, Reader, IsConnected
  <2> QED
    BY <1>1, <1>2, <1>3, <2>1, <2>2, FrameKept
<1>7. Settled(c)'
  <2>1. Begun(k)' = Begun(k)
    BY <1>1, <1>2 DEF Begun
  <2>2. Young(c)' /\ NoServer(c)' /\ NoClient(c)'
    BY <1>1, <1>2, <1>3, <1>4, <2>1 DEF Settled, Young, NoServer, NoClient, s, k
  <2>3. Answering(c)' /\ Down(c)'
    BY <1>1, <1>2, <1>3 DEF Settled, Answering, Down, s, k
  <2>4. Shaped(s)' /\ Shaped(k)'
    BY <1>1, <1>2, <1>3 DEF Settled, Shaped, s, k
  <2> QED
    BY <2>2, <2>3, <2>4 DEF Settled, s, k
<1>8. \A f \in Ends \ {s, k} : Apart(f)
  BY <1>2 DEF Apart, Same
<1> QED
  BY <1>1, <1>2, <1>5, <1>6, <1>7, <1>8, FramingAt DEF Framing

LEMMA ConnectFraming ==
    ASSUME Inv, Framing, NEW c \in Clients, ConnectToServer(c)
    PROVE  Framing'
<1> DEFINE s == Server(c)
           k == Client(c)
<1>1. /\ s \in Ends /\ k \in Ends /\ s # k /\ Peer(s) = k /\ Peer(k) = s /\ s[2] = "server"
      /\ k[2] = "client" /\ k[1] = c
  BY Pair
<1>2. /\ socket[k] = "none" /\ socket'[k] = "open" /\ reading'[k] = Read("validation", TRUE, None)
      /\ \A f \in Ends \ {k} : socket'[f] = socket[f] /\ reading'[f] = reading[f]
      /\ UNCHANGED <<wire, jobs, messagesOut, writing, received, accepted>>
  BY <1>1 DEF ConnectToServer, mains, history, Inv, Types
<1>3. Settled(c) /\ Young(c) /\ NoServer(c) /\ NoClient(c) /\ Shaped(s)
  BY DEF Framing, Link, Settled
<1>4. Unused(s) /\ Unused(k)
  BY <1>1 DEF Inv
<1> HIDE DEF s, k
<1>5. socket[s] = "none" /\ socket'[s] = "none" /\ reading'[s] = NoRead /\ writing[k] = {}
  BY <1>1, <1>2, <1>3, <1>4 DEF NoClient, Unused, s, k
<1>6. wire[s] = <<>> /\ wire[k] = <<>>
  BY <1>3, <1>5 DEF NoServer, s, k
<1>7. ~Begun(k) /\ ~Begun(k)' /\ ~Begun(s)'
  BY <1>1, <1>2, <1>5 DEF Begun, Read
<1>8. Frame(s)'
  BY <1>5 DEF Frame, Readable, Linked, IsConnected
<1>9. Frame(k)'
  <2>1. Reader(k)' = <<"validation", None>> /\ Writer(s)' = <<"validation", None>>
    BY <1>2, <1>7 DEF Reader, Writer, Read
  <2> QED
    BY <1>1, <1>2, <1>6, <2>1, EmptyChain DEF Frame
<1>10. Settled(c)'
  <2>1. Young(c)'
    BY <1>2, <1>3, <1>6, <1>7 DEF Young, s, k
  <2>2. NoServer(c)' /\ NoClient(c)'
    BY <1>2, <1>3, <1>6, <1>7 DEF NoServer, NoClient, s, k
  <2>3. Answering(c)' /\ Down(c)' /\ Shaped(s)' /\ Shaped(k)'
    BY <1>2, <1>5 DEF Answering, Down, Shaped, Read, NoRead, k
  <2> QED
    BY <2>1, <2>2, <2>3 DEF Settled, s, k
<1>11. \A f \in Ends \ {s, k} : Apart(f)
  BY <1>2 DEF Apart, Same
<1> QED
  BY <1>1, <1>2, <1>8, <1>9, <1>10, <1>11, FramingAt DEF Framing

LEMMA AcceptFraming ==
    ASSUME Inv, Framing, NEW c \in Clients, WaitForClientConnection(c)
    PROVE  Framing'
<1> DEFINE s == Server(c)
           k == Client(c)
           u == Handshake("puzzle", c)
<1>1. /\ s \in Ends /\ k \in Ends /\ s # k /\ Peer(s) = k /\ Peer(k) = s /\ s[2] = "server"
      /\ k[2] = "client" /\ s[1] = c
  BY Pair
<1>2. /\ socket[s] = "none" /\ socket[k] # "none" /\ socket' = [socket EXCEPT ![s] = "open"]
      /\ Post(s, Message("ServerAccept", c, 0))
      /\ writing' = [writing EXCEPT ![s] = {Op("validation", TRUE)}]
      /\ wire' = [wire EXCEPT ![k] = Append(@, u)]
      /\ reading' = [reading EXCEPT ![s] = Read("validation", TRUE, None)]
      /\ UNCHANGED <<messagesOut, received, accepted>>
  BY DEF WaitForClientConnection
<1>3. u \in Units /\ u[1] = "validation"
  <2>1. Message("puzzle", c, 0) \in Messages
    BY AsioAssumption DEF Message, Messages, Kinds, Handshakes, AsioAssumption
  <2> QED
    BY <2>1 DEF Handshake, Units, Parts
<1> HIDE DEF u
<1>4. /\ socket'[s] = "open" /\ writing'[s] = {Op("validation", TRUE)}
      /\ wire'[k] = Append(wire[k], u) /\ reading'[s] = Read("validation", TRUE, None)
      /\ \A f \in Ends \ {s} : /\ socket'[f] = socket[f] /\ writing'[f] = writing[f]
                               /\ reading'[f] = reading[f] /\ jobs'[f] = jobs[f]
      /\ \A f \in Ends \ {k} : wire'[f] = wire[f]
  BY <1>1, <1>2 DEF Inv, Types, Post
<1>5. Frame(k) /\ Settled(c)
  BY DEF Framing, Link
<1>6. wire[k] \in Seq(Units) /\ socket[k] \in {"none", "open", "closed"}
  BY <1>1 DEF Inv, Types
<1> HIDE DEF s, k
<1>7. wire[k] = <<>> /\ wire[s] = <<>> /\ (socket[k] # "closed" => ~Begun(k))
  BY <1>2, <1>5 DEF Settled, NoServer, s, k
<1>8. Begun(k)' = Begun(k) /\ ~Begun(s) /\ Begun(s)'
  <2>1. socket'[k] = socket[k] /\ reading'[k] = reading[k]
    BY <1>1, <1>4
  <2>2. Begun(k)' = Begun(k)
    BY <2>1 DEF Begun
  <2>3. ~Begun(s) /\ Begun(s)'
    BY <1>1, <1>2, <1>4 DEF Begun
  <2> QED
    BY <2>2, <2>3
<1>9. Frame(s)'
  <2>1. Reader(s)' = <<"validation", None>>
    BY <1>4 DEF Reader, Read
  <2>2. Linked(s)' => Writer(k)' = <<"validation", None>>
    BY <1>1, <1>4, <1>7, <1>8 DEF Linked, Writer
  <2>3. wire'[s] = <<>>
    BY <1>1, <1>4, <1>7
  <2> QED
    BY <1>1, <2>1, <2>2, <2>3, EmptyChain DEF Frame
<1>10. Frame(k)'
  <2>1. CASE IsConnected(k)
    <3>1. Linked(k)
      BY <1>1, <1>2, <2>1 DEF Linked
    <3>2. Writer(s) = <<"validation", None>>
      BY <1>8 DEF Writer
    <3>3. ~HeaderOut(s)'
      BY <1>4 DEF HeaderOut, Op
    <3>4. Writer(s)' = <<"header", None>>
      BY <1>8, <3>3 DEF Writer
    <3>5. Fits(u, Writer(s)) /\ After(u) = <<"header", None>>
      BY <1>3, <3>2 DEF Fits, After
    <3>6. Reader(k)' = Reader(k)
      BY <1>1, <1>4 DEF Reader
    <3> QED
      BY <1>1, <1>3, <1>4, <1>5, <1>6, <3>1, <3>4, <3>5, <3>6, FrameAppended
  <2>2. CASE ~IsConnected(k)
    <3>1. reading[k] = NoRead /\ socket[k] = "closed"
      BY <1>2, <1>5, <1>6, <2>2 DEF IsConnected, Settled, Down, k
    <3>2. ~Readable(k)' /\ ~Linked(k)'
      BY <1>1, <1>4, <3>1 DEF Readable, Linked, IsConnected
    <3> QED
      BY <3>2 DEF Frame
  <2> QED
    BY <2>1, <2>2
<1>11. Settled(c)'
  <2>1. Young(c) /\ Answering(c) /\ Down(c) /\ Shaped(k)
    BY <1>5 DEF Settled, k
  <2>2. Young(c)'
    BY <1>1, <1>2, <1>4, <1>8, <2>1 DEF Young, s, k
  <2>3. NoServer(c)' /\ NoClient(c)' /\ Shaped(s)'
    BY <1>1, <1>2, <1>4 DEF NoServer, NoClient, Shaped, Read, s, k
  <2>4. Answering(c)' /\ Down(c)' /\ Shaped(k)'
    BY <1>1, <1>2, <1>4, <2>1 DEF Answering, Down, Shaped, s, k
  <2> QED
    BY <2>2, <2>3, <2>4 DEF Settled, s, k
<1>12. \A f \in Ends \ {s, k} : Apart(f)
  BY <1>2, <1>4 DEF Apart, Same
<1> QED
  BY <1>1, <1>2, <1>9, <1>10, <1>11, <1>12, FramingAt DEF Framing

-----------------------------------------------------------------------------
\* A post changes what is to come, not what is under way.
LEMMA PostFraming ==
    ASSUME Inv, Framing, NEW e \in Ends, NEW m \in Messages, Post(e, m), socket[e] # "none",
           e[2] = "client" => Begun(e) /\ IsConnected(e),
           UNCHANGED <<socket, wire, messagesOut, reading, writing, received, accepted>>
    PROVE  Framing'
<1>1. \A f \in Ends \ {e} : Same(f)
  BY PostFacts DEF Inv, Same
<1>2. Writer(e)' = Writer(e)
  BY DEF Writer, Begun, HeaderOut
<1> QED
  BY <1>1, <1>2, QuietFraming

\* A step that touches no end and accepts no client that is still connecting.
LEMMA RestFraming ==
    ASSUME Framing, UNCHANGED <<wires, received>>,
           \A c \in Clients : c \in accepted' \ accepted =>
               Begun(Client(c)) \/ socket[Client(c)] = "closed"
    PROVE  Framing'
<1>1. ASSUME NEW c \in Clients
      PROVE  Link(c)'
  <2>1. Link(c) /\ Young(c)
    BY DEF Framing, Link, Settled
  <2>2. Frame(Server(c))' /\ Frame(Client(c))'
    BY <2>1 DEF Link, Frame, Readable, Linked, Reader, Writer, Begun, HeaderOut, IsConnected, wires
  <2>3. Young(c)'
    BY <2>1 DEF Young, Begun, wires
  <2>4. Settled(c)'
    BY <2>1, <2>3 DEF Link, Settled, NoServer, NoClient, Answering, Down, Shaped, Begun, wires
  <2> QED
    BY <2>2, <2>4 DEF Link
<1> QED
  BY <1>1 DEF Framing

LEMMA MainsFraming ==
    ASSUME Inv, Sending, Framing, Update
    PROVE  Framing'
<1>1. UNCHANGED <<received, accepted>>
  BY DEF Update, BouncePing, MessageAllClients, Visit, Erase, mains
<1>2. CASE UNCHANGED wires
  BY <1>1, <1>2, RestFraming
<1>3. CASE \E c \in Clients, m \in Messages :
               /\ Post(Server(c), m) /\ socket[Server(c)] # "none"
               /\ UNCHANGED <<socket, wire, messagesOut, reading, writing>>
  BY <1>1, <1>3, Pair, PostFraming
<1>4. CASE BouncePing
  <2> DEFINE m == Head(messagesIn)
  <2>1. /\ messagesIn # <<>> /\ Post(Server(m.remote), m.msg)
        /\ UNCHANGED <<socket, wire, messagesOut, reading, writing>>
    BY <1>4 DEF BouncePing
  <2>2. m \in Owned /\ 1 \in DOMAIN messagesIn /\ m = messagesIn[1]
    BY <2>1 DEF Inv, Types
  <2>3. m.remote \in Clients /\ m.msg \in Messages /\ socket[Server(m.remote)] # "none"
    BY <2>2 DEF Inv, RemotesUsed, Owned
  <2> QED
    BY <1>3, <2>1, <2>3
<1>5. CASE Visit
  <2> DEFINE c == connections[broadcast.next]
  <2>1. /\ \/ IsConnected(Server(c)) /\ Post(Server(c), broadcast.msg)
           \/ UNCHANGED jobs
        /\ broadcast.msg # None
        /\ UNCHANGED <<socket, wire, messagesOut, reading, writing>>
    BY <1>5 DEF Visit
  <2>2. broadcast.msg \in Messages
    BY <2>1 DEF Inv, Types
  <2>3. CASE UNCHANGED jobs
    BY <1>2, <2>1, <2>3 DEF wires
  <2>4. CASE IsConnected(Server(c)) /\ Post(Server(c), broadcast.msg) /\ c \in Clients
    BY <1>3, <2>1, <2>2, <2>4 DEF IsConnected
  <2>5. CASE Post(Server(c), broadcast.msg) /\ c \notin Clients
    <3>1. Server(c) \notin Ends
      BY <2>5 DEF Server, Ends
    <3>2. jobs' = jobs
      BY <2>2, <2>5, <3>1, PostFacts DEF Inv, Types
    <3> QED
      BY <2>3, <3>2
  <2> QED
    BY <2>1, <2>3, <2>4, <2>5
<1>6. CASE MessageAllClients \/ Erase
  BY <1>2, <1>6 DEF MessageAllClients, Erase
<1> QED
  BY <1>4, <1>5, <1>6 DEF Update

LEMMA FramingStep ==
    ASSUME Inv, Sending, Lists, Framing, [Next]_vars, Lists'
    PROVE  Framing'
<1>1. ASSUME NEW e \in Ends, Handler(e)
      PROVE  Framing'
  BY <1>1, SendFraming, WritesFraming, WriteValidationFraming, FailuresFraming,
     ServerReadFraming, ClientReadFraming, ReadsFraming DEF Handler
<1>2. ASSUME NEW c \in Clients, RunsLate(c)
      PROVE  Framing'
  <2>1. c \in late' /\ UNCHANGED socket
    BY <1>2 DEF RunsLate
  <2>2. socket[Server(c)] = "closed"
    BY <2>1 DEF Lists
  <2> QED
    BY <1>2, <2>2, RunsLateFraming
<1>3. ASSUME NEW c \in Clients, HandleIncoming(c)
      PROVE  Framing'
  <2> DEFINE k == Client(c)
  <2>1. /\ IsConnected(k) /\ received[k] # <<>> /\ accepted' = accepted \cup {c}
        /\ UNCHANGED <<wires, received>>
    BY <1>3 DEF HandleIncoming, history
  <2>2. Begun(k)
    BY <2>1 DEF Framing, Link, Settled, Young, IsConnected
  <2> QED
    BY <2>1, <2>2, RestFraming
<1>4. ASSUME NEW c \in Clients, Leave(c)
      PROVE  Framing'
  <2>1. Client(c) \in Ends
    BY Pair
  <2> QED
    BY <1>4, <2>1, FailuresFraming DEF Leave
<1>5. ASSUME NEW c \in Clients, NEW kind \in {"ServerPing", "MessageAll"},
             SendToServer(c, kind)
      PROVE  Framing'
  <2> DEFINE k == Client(c)
             n == Len(sent[k]) + 1
             m == Message(kind, c, n)
  <2>1. /\ Post(k, m) /\ IsConnected(k) /\ c \in accepted /\ n <= MaxMessages
        /\ UNCHANGED <<socket, wire, messagesOut, reading, writing, received, accepted>>
    BY <1>5 DEF SendToServer, mains
  <2>2. k \in Ends /\ n \in Nat
    BY Pair DEF Sending
  <2>3. m \in Messages
    BY <2>1, <2>2, AsioAssumption DEF Message, Messages, Kinds, AsioAssumption
  <2>4. Begun(k) /\ socket[k] # "none"
    BY <2>1 DEF Framing, Link, Settled, Young, IsConnected
  <2> HIDE DEF k, n, m
  <2> QED
    BY <2>1, <2>2, <2>3, <2>4, PostFraming
<1>6. CASE UNCHANGED vars
  BY <1>6, RestFraming DEF vars, mains, history
<1> QED
  BY <1>1, <1>2, <1>3, <1>4, <1>5, <1>6, MainsFraming, ConnectFraming, AcceptFraming DEF Next

LEMMA FramingInit == Init => Framing
<1> SUFFICES ASSUME Init
             PROVE  Framing
  OBVIOUS
<1>1. /\ \A e \in Ends : /\ socket[e] = "none" /\ wire[e] = <<>> /\ jobs[e] = <<>>
                         /\ messagesOut[e] = <<>> /\ reading[e] = NoRead
                         /\ writing[e] = {} /\ received[e] = <<>>
      /\ accepted = {} /\ received \in [Ends -> Seq(Messages)]
  BY DEF Init
<1>2. ASSUME NEW c \in Clients
      PROVE  Link(c)
  <2>1. Frame(Server(c)) /\ Frame(Client(c))
    BY <1>1, Pair DEF Frame, Readable, Linked, IsConnected
  <2>2. Settled(c)
    BY <1>1, Pair DEF Settled, Young, NoServer, NoClient, Answering, Down, Shaped, Begun
  <2> QED
    BY <2>1, <2>2 DEF Link
<1> QED
  BY <1>1, <1>2 DEF Framing

(* Each read finds what it is for: the handshake first, then headers, and  *)
(* behind each header its own body, at both ends of every connection       *)
(* (ReadValidation, ReadHeader, ReadBody).                                 *)
THEOREM FramedAlways == Spec => []Framed
<1>1. ASSUME Inv, Framing, NEW e \in Ends,
             reading[e] # NoRead, IsConnected(e), wire[e] # <<>>
      PROVE  /\ Head(wire[e])[1] = reading[e].part
             /\ reading[e].part = "body" => Head(wire[e])[2] = reading[e].msgTempIn
  <2>1. e[1] \in Clients /\ e \in {Server(e[1]), Client(e[1])}
    BY EndFacts
  <2>2. Frame(e) /\ Shaped(e)
    <3>1. Link(e[1])
      BY <1>1, <2>1 DEF Framing
    <3>2. CASE e = Server(e[1])
      BY <3>1, <3>2 DEF Link, Settled
    <3>3. CASE e = Client(e[1])
      BY <3>1, <3>3 DEF Link, Settled
    <3> QED
      BY <2>1, <3>2, <3>3
  <2>3. wire[e] \in Seq(Units) /\ reading[e].part \in {"none", "validation", "header", "body"}
    <3>1. wire[e] \in Seq(Units) /\ reading[e] \in Reads
      BY <1>1 DEF Inv, Types
    <3> QED
      BY <3>1 DEF Reads
  <2>4. Fits(Head(wire[e]), Reader(e))
    BY <1>1, <2>2, <2>3, ChainTaken DEF Frame, Readable
  <2> QED
    BY <1>1, <2>2, <2>3, <2>4 DEF Fits, Reader, Shaped
<1>2. Inv /\ Framing => Framed
  BY <1>1 DEF Framed
<1> QED
  BY <1>2, FramingInit, FramingStep, InvAlways, ListsAlways, PTL DEF Spec

-----------------------------------------------------------------------------
(* The messages whose headers are in a sequence of units, when a unit is   *)
(* added behind and when the first is taken.                               *)

LEMMA HeadersKnown ==
    ASSUME NEW w \in Seq(Units)
    PROVE  LET H == HeadersAt(w) IN
           /\ IsFiniteSet(H) /\ H \subseteq Nat /\ Cardinality(H) \in Nat
           /\ Headers(w) \in Seq(Messages) /\ Len(Headers(w)) = Cardinality(H)
           /\ \A i \in H : Rank(H, i) \in 1..Cardinality(H) /\ Headers(w)[Rank(H, i)] = w[i][2]
<1> DEFINE H == HeadersAt(w)
           P == Pick(w, H)
<1>1. H \subseteq DOMAIN w
  BY DEF HeadersAt
<1>2. IsFiniteSet(H) /\ H \subseteq Nat /\ \A i \in H : w[i] \in Units
  BY <1>1, KeptFinite
<1> HIDE DEF H
<1>3. /\ P \in Seq(Units) /\ Len(P) = Cardinality(H) /\ Cardinality(H) \in Nat
      /\ \A i \in H : Rank(H, i) \in DOMAIN P /\ P[Rank(H, i)] = w[i]
  BY <1>2, Picked, Ranks
<1> HIDE DEF P
<1>4. Headers(w) = [i \in DOMAIN P |-> P[i][2]]
  BY DEF Headers, P, H
<1>5. DOMAIN P = 1..Cardinality(H) /\ \A i \in DOMAIN P : P[i][2] \in Messages
  BY <1>3 DEF Units
<1>6. Headers(w) \in Seq(Messages) /\ Len(Headers(w)) = Cardinality(H)
  <2>1. [i \in DOMAIN P |-> P[i][2]] \in [1..Cardinality(H) -> Messages]
    BY <1>5
  <2> QED
    BY <1>3, <1>4, <1>5, <2>1
<1> QED
  BY <1>2, <1>3, <1>4, <1>5, <1>6 DEF H

LEMMA HeadersAre ==
    ASSUME NEW w \in Seq(Units), NEW t \in Seq(Messages), Len(t) = Cardinality(HeadersAt(w)),
           \A i \in HeadersAt(w) : t[Rank(HeadersAt(w), i)] = w[i][2]
    PROVE  t = Headers(w)
<1> DEFINE H == HeadersAt(w)
           n == Cardinality(H)
<1>1. /\ Headers(w) \in Seq(Messages) /\ Len(Headers(w)) = n /\ n \in Nat
      /\ IsFiniteSet(H) /\ H \subseteq Nat
      /\ \A i \in H : Headers(w)[Rank(H, i)] = w[i][2]
  BY HeadersKnown
<1>2. \A j \in 1..n : \E i \in H : Rank(H, i) = j
  BY <1>1, Ranks
<1>3. Len(t) = n /\ \A i \in H : t[Rank(H, i)] = w[i][2]
  OBVIOUS
<1> HIDE DEF H
<1>4. \A j \in 1..n : t[j] = Headers(w)[j]
  BY <1>1, <1>2, <1>3
<1> HIDE DEF n
<1> QED
  BY <1>1, <1>3, <1>4, SeqEqual

LEMMA NoHeaders == Headers(<<>>) = <<>>
<1>1. <<>> \in Seq(Units)
  OBVIOUS
<1>2. HeadersAt(<<>>) = {}
  BY DEF HeadersAt
<1>3. Len(Headers(<<>>)) = 0 /\ Headers(<<>>) \in Seq(Messages)
  BY <1>1, <1>2, HeadersKnown, FS_EmptySet
<1> QED
  BY <1>3

LEMMA HeadersAppended ==
    ASSUME NEW w \in Seq(Units), NEW u \in Units
    PROVE  Headers(Append(w, u)) = IF u[1] = "header" THEN Append(Headers(w), u[2]) ELSE Headers(w)
<1> DEFINE v == Append(w, u)
           H == HeadersAt(w)
           G == HeadersAt(v)
           n == Len(w) + 1
<1>1. /\ v \in Seq(Units) /\ Len(v) = n /\ DOMAIN v = 1..n /\ DOMAIN w = 1..Len(w)
      /\ v[n] = u /\ (\A i \in 1..Len(w) : v[i] = w[i]) /\ Len(w) \in Nat
  BY AppendProperties, LenProperties
<1>2. /\ IsFiniteSet(H) /\ H \subseteq Nat /\ Cardinality(H) \in Nat
      /\ Headers(w) \in Seq(Messages) /\ Len(Headers(w)) = Cardinality(H)
      /\ \A i \in H : Rank(H, i) \in 1..Cardinality(H) /\ Headers(w)[Rank(H, i)] = w[i][2]
  BY HeadersKnown
<1> HIDE DEF v
<1>3. H = {i \in 1..Len(w) : w[i][1] = "header"} /\ G = {i \in 1..n : v[i][1] = "header"}
  BY <1>1 DEF HeadersAt
<1>4. u[2] \in Messages
  BY DEF Units
<1>5. \A i \in H : i \in 1..Len(w) /\ i < n /\ v[i][2] = w[i][2]
  BY <1>1, <1>3
<1>6. n \notin H /\ (u[1] = "header" => G = H \cup {n}) /\ (u[1] # "header" => G = H)
  BY <1>1, <1>3
<1> HIDE DEF H, G
<1>7. CASE u[1] # "header"
  <2>1. G = H
    BY <1>6, <1>7
  <2>2. Headers(w) = Headers(v)
    BY <1>1, <1>2, <1>5, <2>1, HeadersAre DEF G
  <2> QED
    BY <1>7, <2>2 DEF v
<1>8. CASE u[1] = "header"
  <2> DEFINE t == Append(Headers(w), u[2])
  <2>1. /\ t \in Seq(Messages) /\ Len(t) = Cardinality(H) + 1 /\ t[Cardinality(H) + 1] = u[2]
        /\ \A j \in 1..Cardinality(H) : t[j] = Headers(w)[j]
    BY <1>2, <1>4, AppendProperties
  <2> HIDE DEF t
  <2>2. G = H \cup {n}
    BY <1>6, <1>8
  <2>3. Cardinality(G) = Cardinality(H) + 1
    BY <1>2, <1>6, <2>2, FS_AddElement
  <2>4. \A i \in H : Rank(G, i) = Rank(H, i)
    <3> TAKE i \in H
    <3>1. {k \in G : k <= i} = {k \in H : k <= i}
      BY <1>1, <1>2, <1>5, <2>2
    <3> QED
      BY <3>1 DEF Rank
  <2>5. Rank(G, n) = Cardinality(G)
    <3>1. \A k \in G : k <= n
      BY <1>1, <1>5, <2>2
    <3>2. {k \in G : k <= n} = G
      BY <3>1
    <3> QED
      BY <3>2 DEF Rank
  <2>6. \A i \in G : t[Rank(G, i)] = v[i][2]
    <3>1. ASSUME NEW i \in H PROVE t[Rank(G, i)] = v[i][2]
      BY <1>2, <1>5, <2>1, <2>4
    <3>2. t[Rank(G, n)] = v[n][2]
      BY <1>1, <2>1, <2>3, <2>5
    <3> QED
      BY <2>2, <3>1, <3>2
  <2>7. t = Headers(v)
    BY <1>1, <2>1, <2>3, <2>6, HeadersAre DEF G
  <2> QED
    BY <1>8, <2>7 DEF t, v
<1> QED
  BY <1>7, <1>8

LEMMA ShiftedSize ==
    ASSUME NEW T, IsFiniteSet(T), T \subseteq Nat, NEW U, U = {k + 1 : k \in T}
    PROVE  IsFiniteSet(U) /\ Cardinality(U) = Cardinality(T)
<1> DEFINE f == [k \in T |-> k + 1]
<1>1. f \in [T -> U] /\ \A k \in T : f[k] = k + 1
  OBVIOUS
<1> HIDE DEF f
<1>2. \A k \in U : \E j \in T : f[j] = k
  BY <1>1
<1>3. \A j, k \in T : f[j] = f[k] => j = k
  BY <1>1
<1>4. f \in Bijection(T, U)
  BY <1>1, <1>2, <1>3 DEF Bijection, Injection, Surjection, IsInjective
<1> QED
  BY <1>4, FS_Bijection DEF ExistsBijection

LEMMA HeadersTaken ==
    ASSUME NEW w \in Seq(Units), w # <<>>
    PROVE  /\ Headers(Tail(w)) \in Seq(Messages)
           /\ Headers(w) = IF Head(w)[1] = "header" THEN <<Head(w)[2]>> \o Headers(Tail(w))
                                                    ELSE Headers(Tail(w))
<1> DEFINE v == Tail(w)
           u == Head(w)
           H == HeadersAt(w)
           G == HeadersAt(v)
           S == {k + 1 : k \in G}
<1>1. /\ v \in Seq(Units) /\ Len(w) \in Nat /\ Len(w) > 0 /\ Len(v) = Len(w) - 1
      /\ DOMAIN w = 1..Len(w) /\ DOMAIN v = 1..Len(v) /\ u \in Units
      /\ u = w[1] /\ \A i \in 1..Len(v) : v[i] = w[i + 1]
  BY HeadTailProperties, LenProperties
<1>2. /\ IsFiniteSet(G) /\ G \subseteq Nat /\ Cardinality(G) \in Nat
      /\ Headers(v) \in Seq(Messages) /\ Len(Headers(v)) = Cardinality(G)
      /\ \A i \in G : Rank(G, i) \in 1..Cardinality(G) /\ Headers(v)[Rank(G, i)] = v[i][2]
  BY <1>1, HeadersKnown
<1> HIDE DEF v, u
<1>3. H = {i \in 1..Len(w) : w[i][1] = "header"} /\ G = {i \in 1..Len(v) : v[i][1] = "header"}
  BY <1>1 DEF HeadersAt
<1>4. u[2] \in Messages
  BY <1>1 DEF Units
<1>5. \A k \in G : k \in 1..Len(v) /\ k + 1 \in H /\ v[k][2] = w[k + 1][2]
  BY <1>1, <1>3
<1>6. \A i \in H : i # 1 => i - 1 \in G /\ i = (i - 1) + 1
  BY <1>1, <1>3
<1>7. (1 \in H <=> u[1] = "header") /\ H \subseteq Nat \ {0}
  BY <1>1, <1>3
<1> HIDE DEF H, G
<1>8. (u[1] = "header" => H = {1} \cup S) /\ (u[1] # "header" => H = S) /\ 1 \notin S
  <2>1. S \subseteq H /\ 1 \notin S
    BY <1>2, <1>5
  <2>2. \A i \in H : i # 1 => i \in S
    BY <1>6
  <2> QED
    BY <1>7, <2>1, <2>2
<1>9. IsFiniteSet(S) /\ Cardinality(S) = Cardinality(G)
  BY <1>2, ShiftedSize
<1>10. \A k \in G : /\ IsFiniteSet({j \in S : j <= k + 1})
                    /\ Cardinality({j \in S : j <= k + 1}) = Rank(G, k)
  <2> TAKE k \in G
  <2> DEFINE T == {j \in G : j <= k}
             U == {j \in S : j <= k + 1}
  <2>1. T \subseteq Nat /\ IsFiniteSet(T)
    BY <1>2, FS_Subset
  <2>2. U = {j + 1 : j \in T}
    BY <1>2
  <2> HIDE DEF T, U
  <2>3. IsFiniteSet(U) /\ Cardinality(U) = Cardinality(T)
    BY <2>1, <2>2, ShiftedSize
  <2> QED
    BY <2>3 DEF Rank, T, U
<1> HIDE DEF S
<1>11. CASE u[1] # "header"
  <2>1. H = S
    BY <1>8, <1>11
  <2>2. \A i \in H : Headers(v)[Rank(H, i)] = w[i][2]
    <3> TAKE i \in H
    <3>1. i # 1 /\ i - 1 \in G /\ i = (i - 1) + 1
      BY <1>6, <1>8, <2>1
    <3>2. Rank(H, i) = Rank(G, i - 1)
      BY <1>10, <2>1, <3>1 DEF Rank
    <3> QED
      BY <1>2, <1>5, <3>1, <3>2
  <2>3. Headers(v) = Headers(w)
    BY <1>2, <1>9, <2>1, <2>2, HeadersAre DEF H
  <2> QED
    BY <1>2, <1>11, <2>3 DEF v, u
<1>12. CASE u[1] = "header"
  <2> DEFINE t == <<u[2]>> \o Headers(v)
  <2>1. /\ t \in Seq(Messages) /\ Len(t) = Cardinality(G) + 1 /\ t[1] = u[2]
        /\ \A j \in 1..Cardinality(G) : t[j + 1] = Headers(v)[j]
    <3>1. <<u[2]>> \in Seq(Messages) /\ Len(<<u[2]>>) = 1 /\ <<u[2]>>[1] = u[2]
      BY <1>4
    <3>2. /\ t \in Seq(Messages) /\ Len(t) = 1 + Len(Headers(v))
          /\ \A i \in 1..Len(t) : t[i] = IF i <= 1 THEN <<u[2]>>[i] ELSE Headers(v)[i - 1]
      BY <1>2, <3>1, ConcatProperties
    <3> HIDE DEF t
    <3> QED
      BY <1>2, <3>1, <3>2
  <2> HIDE DEF t
  <2>2. H = {1} \cup S
    BY <1>8, <1>12
  <2>3. Cardinality(H) = Cardinality(G) + 1
    <3>1. H = S \cup {1} /\ 1 \notin S
      BY <1>8, <2>2
    <3> QED
      BY <1>9, <3>1, FS_AddElement
  <2>4. \A k \in G : Rank(H, k + 1) = Rank(G, k) + 1
    <3> TAKE k \in G
    <3> DEFINE U == {j \in S : j <= k + 1}
    <3>1. {j \in H : j <= k + 1} = U \cup {1}
      BY <1>2, <1>7, <2>2
    <3>2. 1 \notin U /\ IsFiniteSet(U) /\ Cardinality(U) = Rank(G, k)
      BY <1>8, <1>10
    <3> HIDE DEF U
    <3> QED
      BY <3>1, <3>2, FS_AddElement DEF Rank
  <2>5. Rank(H, 1) = 1
    <3>1. {j \in H : j <= 1} = {1}
      <4>1. 1 \in H /\ \A j \in H : j \in Nat /\ j # 0
        BY <1>7, <1>12
      <4>2. \A j \in H : j <= 1 => j = 1
        BY <4>1
      <4> QED
        BY <4>1, <4>2
    <3> QED
      BY <3>1, FS_Singleton DEF Rank
  <2>6. \A i \in H : t[Rank(H, i)] = w[i][2]
    <3>1. ASSUME NEW i \in H, i # 1 PROVE t[Rank(H, i)] = w[i][2]
      <4>1. i - 1 \in G /\ i = (i - 1) + 1
        BY <1>6, <3>1
      <4>2. Rank(H, i) = Rank(G, i - 1) + 1 /\ Rank(G, i - 1) \in 1..Cardinality(G)
        BY <1>2, <2>4, <4>1
      <4> QED
        BY <1>2, <1>5, <2>1, <4>1, <4>2
    <3>2. t[Rank(H, 1)] = w[1][2]
      BY <1>1, <2>1, <2>5
    <3> QED
      BY <3>1, <3>2
  <2>7. t = Headers(w)
    BY <2>1, <2>3, <2>6, HeadersAre DEF H
  <2> QED
    BY <1>2, <1>12, <2>7 DEF t, v, u
<1> QED
  BY <1>11, <1>12

-----------------------------------------------------------------------------
(* The stream from e to its peer.  What has arrived there, or is on the    *)
(* way as the header of a message, begins what was given to Send, and what *)
(* waits at e is the rest of it as long as neither end is closed.          *)

Begins(a, t) == \E b \in Seq(Messages) : t = a \o b

Temp(r) == IF reading[r].part = "body" THEN <<reading[r].msgTempIn>> ELSE <<>>
OnWay(r) == Temp(r) \o Headers(wire[r])
Arrived(r) == received[r] \o OnWay(r)
Rest(q) == IF q = <<>> THEN <<>> ELSE Tail(q)
Pending(e) == Rest(messagesOut[e]) \o jobs[e]
Open(e) == socket[e] # "closed" /\ socket[Peer(e)] # "closed"

Stream(e) ==
    /\ Begins(received[Peer(e)], sent[e])
    /\ Readable(Peer(e)) => Begins(Arrived(Peer(e)), sent[e])
    /\ Open(e) => sent[e] = Arrived(Peer(e)) \o Pending(e)

Streams == \A e \in Ends : Stream(e)

LEMMA Joined ==
    ASSUME NEW a \in Seq(Messages), NEW b \in Seq(Messages)
    PROVE  a \o b \in Seq(Messages)
BY ConcatProperties

LEMMA Associative ==
    ASSUME NEW a \in Seq(Messages), NEW b \in Seq(Messages), NEW d \in Seq(Messages)
    PROVE  (a \o b) \o d = a \o (b \o d)
BY ConcatAssociative

LEMMA Added ==
    ASSUME NEW a \in Seq(Messages), NEW m \in Messages
    PROVE  /\ <<m>> \in Seq(Messages) /\ Append(a, m) \in Seq(Messages)
           /\ Append(a, m) = a \o <<m>>
<1>1. Append(a, m) = a \o <<m>>
  BY AppendIsConcat
<1> QED
  BY <1>1

LEMMA Nothing ==
    /\ <<>> \in Seq(Messages)
    /\ \A a \in Seq(Messages) : a \o <<>> = a /\ <<>> \o a = a
BY ConcatEmptySeq

LEMMA Split ==
    ASSUME NEW a \in Seq(Messages), a # <<>>
    PROVE  /\ Head(a) \in Messages /\ Tail(a) \in Seq(Messages)
           /\ a = <<Head(a)>> \o Tail(a)
<1>1. Head(a) \in Messages /\ Tail(a) \in Seq(Messages)
  BY HeadTailProperties
<1>2. a = <<Head(a)>> \o Tail(a)
  OBVIOUS
<1> QED
  BY <1>1, <1>2

\* An element added behind both is added behind the second.
LEMMA AddedBehind ==
    ASSUME NEW a \in Seq(Messages), NEW b \in Seq(Messages), NEW m \in Messages
    PROVE  Append(a \o b, m) = a \o Append(b, m)
<1>1. /\ a \o b \in Seq(Messages) /\ <<m>> \in Seq(Messages) /\ Append(b, m) = b \o <<m>>
  BY Joined, Added
<1>2. Append(a \o b, m) = (a \o b) \o <<m>>
  BY <1>1, Added
<1>3. (a \o b) \o <<m>> = a \o (b \o <<m>>)
  BY <1>1, Associative
<1> QED
  BY <1>1, <1>2, <1>3, Zenon

LEMMA BeginsLess ==
    ASSUME NEW a \in Seq(Messages), NEW b \in Seq(Messages), NEW t, Begins(a \o b, t)
    PROVE  Begins(a, t)
<1>1. PICK d \in Seq(Messages) : t = (a \o b) \o d
  BY DEF Begins
<1>2. (a \o b) \o d = a \o (b \o d) /\ b \o d \in Seq(Messages)
  BY Associative, Joined
<1> QED
  BY <1>1, <1>2, Zenon DEF Begins

LEMMA BeginsMore ==
    ASSUME NEW a \in Seq(Messages), NEW t \in Seq(Messages), NEW m \in Messages, Begins(a, t)
    PROVE  Begins(a, Append(t, m))
<1>1. PICK d \in Seq(Messages) : t = a \o d
  BY DEF Begins
<1>2. Append(a \o d, m) = a \o Append(d, m) /\ Append(d, m) \in Seq(Messages)
  BY AddedBehind, Added
<1> QED
  BY <1>1, <1>2, Zenon DEF Begins

LEMMA Moved ==
    ASSUME NEW a \in Seq(Messages), NEW b \in Seq(Messages), NEW d \in Seq(Messages),
           NEW m \in Messages
    PROVE  (a \o b) \o (<<m>> \o d) = (a \o (b \o <<m>>)) \o d
<1>1. <<m>> \in Seq(Messages) /\ a \o b \in Seq(Messages)
  BY Added, Joined
<1>2. (a \o b) \o (<<m>> \o d) = ((a \o b) \o <<m>>) \o d
  BY <1>1, Associative
<1>3. (a \o b) \o <<m>> = a \o (b \o <<m>>)
  BY <1>1, Associative
<1> QED
  BY <1>2, <1>3, Zenon

LEMMA StreamTypes ==
    ASSUME Inv, Sending, Framing, NEW e \in Ends
    PROVE  /\ sent[e] \in Seq(Messages) /\ received[e] \in Seq(Messages)
           /\ Temp(e) \in Seq(Messages) /\ Headers(wire[e]) \in Seq(Messages)
           /\ OnWay(e) \in Seq(Messages) /\ Arrived(e) \in Seq(Messages)
           /\ Rest(messagesOut[e]) \in Seq(Messages) /\ Pending(e) \in Seq(Messages)
           /\ jobs[e] \in Seq(Messages) /\ messagesOut[e] \in Seq(Messages)
<1>1. /\ sent[e] \in Seq(Messages) /\ received[e] \in Seq(Messages) /\ jobs[e] \in Seq(Messages)
      /\ messagesOut[e] \in Seq(Messages) /\ wire[e] \in Seq(Units) /\ reading[e] \in Reads
  BY DEF Inv, Types, Sending, Framing
<1>2. Temp(e) \in Seq(Messages)
  BY <1>1, Nothing, Added DEF Temp, Reads
<1>3. Headers(wire[e]) \in Seq(Messages)
  BY <1>1, HeadersKnown
<1>4. Rest(messagesOut[e]) \in Seq(Messages)
  BY <1>1, Nothing, Split DEF Rest
<1> QED
  BY <1>1, <1>2, <1>3, <1>4, Joined DEF OnWay, Arrived, Pending

\* The reader's side does not change, and the writer's only if it is not open.
LEMMA StreamSame ==
    ASSUME NEW e \in Ends, Stream(e), NEW r, r = Peer(e),
           Arrived(r) \in Seq(Messages), Pending(e) \in Seq(Messages),
           sent'[e] = sent[e], received'[r] = received[r], OnWay(r)' = OnWay(r),
           Readable(r)' => Readable(r) \/ Open(e) \/ Arrived(r) = received[r],
           Open(e)' => Open(e) /\ Pending(e)' = Pending(e)
    PROVE  Stream(e)'
<1>1. Arrived(r)' = Arrived(r)
  BY DEF Arrived
<1>2. Readable(r) \/ Open(e) \/ Arrived(r) = received[r] => Begins(Arrived(r), sent[e])
  BY DEF Stream, Begins
<1> QED
  BY <1>1, <1>2 DEF Stream, Begins

\* The reader's side will take nothing more.
LEMMA StreamClosed ==
    ASSUME NEW e \in Ends, Stream(e), NEW r, r = Peer(e),
           sent'[e] = sent[e], received'[r] = received[r], ~Readable(r)', ~Open(e)'
    PROVE  Stream(e)'
BY DEF Stream, Begins

\* The reader takes a unit.
LEMMA StreamRead ==
    ASSUME NEW e \in Ends, Stream(e), NEW r, r = Peer(e), Readable(r),
           sent'[e] = sent[e], Arrived(r)' = Arrived(r),
           received'[r] \in Seq(Messages), OnWay(r)' \in Seq(Messages),
           Open(e)' => Open(e) /\ Pending(e)' = Pending(e)
    PROVE  Stream(e)'
<1> DEFINE got == received'[r]
           way == OnWay(r)'
<1>1. Begins(Arrived(r), sent[e])
  BY DEF Stream
<1>2. Begins(got \o way, sent'[e])
  BY <1>1 DEF Arrived
<1>3. Begins(got, sent'[e])
  <2>1. got \in Seq(Messages) /\ way \in Seq(Messages)
    OBVIOUS
  <2> HIDE DEF got, way
  <2> QED
    BY <1>2, <2>1, BeginsLess
<1>4. Begins(received[r], sent[e])'
  BY <1>3 DEF Begins
<1>5. Begins(Arrived(r), sent[e])'
  BY <1>1 DEF Begins
<1> QED
  BY <1>4, <1>5 DEF Stream

\* A message is given to Send.
LEMMA StreamPosted ==
    ASSUME NEW e \in Ends, Stream(e), NEW r, r = Peer(e), NEW m \in Messages,
           sent[e] \in Seq(Messages), received[r] \in Seq(Messages),
           Arrived(r) \in Seq(Messages), Pending(e) \in Seq(Messages),
           sent'[e] = Append(sent[e], m), received'[r] = received[r], OnWay(r)' = OnWay(r),
           Readable(r)' => Readable(r) \/ Open(e) \/ Arrived(r) = received[r],
           Open(e)' => Open(e),
           Pending(e)' = Append(Pending(e), m)
    PROVE  Stream(e)'
<1>1. Arrived(r)' = Arrived(r)
  BY DEF Arrived
<1>2. Readable(r) \/ Open(e) \/ Arrived(r) = received[r] => Begins(Arrived(r), sent[e])
  BY DEF Stream, Begins
<1>3. \A a \in Seq(Messages) : Begins(a, sent[e]) => Begins(a, Append(sent[e], m))
  BY BeginsMore
<1>4. Open(e)' => sent'[e] = Arrived(r) \o Append(Pending(e), m)
  <2>1. Append(Arrived(r) \o Pending(e), m) = Arrived(r) \o Append(Pending(e), m)
    BY AddedBehind
  <2>2. Open(e) => sent[e] = Arrived(r) \o Pending(e)
    BY DEF Stream
  <2> QED
    BY <2>1, <2>2
<1>5. Begins(received[r], sent[e])'
  <2>1. Begins(received[r], Append(sent[e], m))
    BY <1>3 DEF Stream
  <2> QED
    BY <2>1 DEF Begins
<1>6. Readable(r)' => Begins(Arrived(r), sent[e])'
  <2>1. Readable(r)' => Begins(Arrived(r), Append(sent[e], m))
    BY <1>2, <1>3
  <2> QED
    BY <1>1, <2>1 DEF Begins
<1> QED
  BY <1>1, <1>4, <1>5, <1>6 DEF Stream

\* A header is put on the wire.
LEMMA StreamPut ==
    ASSUME NEW e \in Ends, Stream(e), Open(e), NEW r, r = Peer(e), NEW m \in Messages,
           received[r] \in Seq(Messages), OnWay(r) \in Seq(Messages),
           sent'[e] = sent[e], received'[r] = received[r], OnWay(r)' = OnWay(r) \o <<m>>,
           Pending(e)' \in Seq(Messages), Pending(e) = <<m>> \o Pending(e)'
    PROVE  Stream(e)'
<1>1. sent[e] = (received[r] \o OnWay(r)) \o (<<m>> \o Pending(e)')
  BY DEF Stream, Arrived
<1>2. sent'[e] = (received[r] \o (OnWay(r) \o <<m>>)) \o Pending(e)'
  <2> DEFINE p == Pending(e)'
  <2>1. p \in Seq(Messages) /\ sent[e] = (received[r] \o OnWay(r)) \o (<<m>> \o p)
    BY <1>1
  <2> HIDE DEF p
  <2> DEFINE got == received[r]
             way == OnWay(r)
  <2>2. got \in Seq(Messages) /\ way \in Seq(Messages)
    OBVIOUS
  <2> HIDE DEF got, way
  <2>3. (got \o way) \o (<<m>> \o p) = (got \o (way \o <<m>>)) \o p
    <3>1. \A a, b, d \in Seq(Messages) :
              (a \o b) \o (<<m>> \o d) = (a \o (b \o <<m>>)) \o d
      BY ONLY Moved, m \in Messages
    <3> QED
      BY ONLY <2>1, <2>2, <3>1, Zenon
  <2> QED
    BY <2>1, <2>3, Zenon DEF p, got, way
<1>3. sent'[e] = Arrived(r)' \o Pending(e)'
  BY <1>2 DEF Arrived
<1>4. Begins(Arrived(r), sent[e])'
  BY <1>3 DEF Begins
<1>5. Begins(received[r], sent[e])'
  BY DEF Stream, Begins
<1> QED
  BY <1>3, <1>4, <1>5 DEF Stream

LEMMA StreamsAt ==
    ASSUME Inv, Sending, Framing, Streams, NEW e \in Ends, Stream(e)', Stream(Peer(e))',
           \A f \in Ends \ {e, Peer(e)} :
               /\ socket'[f] = socket[f] /\ jobs'[f] = jobs[f] /\ messagesOut'[f] = messagesOut[f]
               /\ reading'[f] = reading[f] /\ wire'[f] = wire[f]
               /\ received'[f] = received[f] /\ sent'[f] = sent[f]
    PROVE  Streams'
<1>1. ASSUME NEW f \in Ends \ {e, Peer(e)}
      PROVE  Stream(f)'
  <2> DEFINE r == Peer(f)
  <2>1. r \in Ends \ {e, Peer(e)}
    BY EndFacts, Pair
  <2>2. OnWay(r)' = OnWay(r) /\ Readable(r)' = Readable(r)
    BY <2>1 DEF OnWay, Temp, Readable, IsConnected
  <2>3. Open(f)' = Open(f) /\ Pending(f)' = Pending(f)
    BY <2>1 DEF Open, Pending
  <2>4. Arrived(r) \in Seq(Messages) /\ Pending(f) \in Seq(Messages)
    BY <2>1, StreamTypes
  <2>5. Stream(f)
    BY DEF Streams
  <2> HIDE DEF r
  <2>6. received'[r] = received[r] /\ sent'[f] = sent[f]
    BY <2>1
  <2> QED
    BY <2>2, <2>3, <2>4, <2>5, <2>6, StreamSame DEF r
<1> QED
  BY <1>1 DEF Streams

\* A step that changes no reader's side, and a writer's only if it is not open.
LEMMA QuietStreams ==
    ASSUME Inv, Sending, Framing, Streams, UNCHANGED <<received, sent>>,
           \A f \in Ends : /\ OnWay(f)' = OnWay(f)
                           /\ Readable(f)' => Readable(f) \/ Open(Peer(f))
                           /\ Open(f)' => Open(f) /\ Pending(f)' = Pending(f)
    PROVE  Streams'
<1>1. ASSUME NEW e \in Ends
      PROVE  Stream(e)'
  <2> DEFINE r == Peer(e)
  <2>1. r \in Ends /\ Peer(r) = e
    BY EndFacts, Pair
  <2>2. Stream(e) /\ Arrived(r) \in Seq(Messages) /\ Pending(e) \in Seq(Messages)
    BY <2>1, StreamTypes DEF Streams
  <2>3. OnWay(r)' = OnWay(r) /\ (Readable(r)' => Readable(r) \/ Open(e))
    BY <2>1
  <2>4. Open(e)' => Open(e) /\ Pending(e)' = Pending(e)
    OBVIOUS
  <2> HIDE DEF r
  <2> QED
    BY <2>2, <2>3, <2>4, StreamSame DEF r
<1> QED
  BY <1>1 DEF Streams

LEMMA WritingStreams ==
    ASSUME Inv, Sending, Framing, Streams, NEW e \in Ends, socket[e] # "none",
           NEW part \in {"header", "body"}, NEW m \in Messages, NEW others,
           StartWrite(e, part, m, others), UNCHANGED <<socket, reading, received, sent>>,
           \A f \in Ends \ {e} : jobs'[f] = jobs[f] /\ messagesOut'[f] = messagesOut[f],
           Pending(e)' \in Seq(Messages),
           Pending(e) = IF part = "header" THEN <<m>> \o Pending(e)' ELSE Pending(e)'
    PROVE  Streams'
<1> DEFINE p == Peer(e)
           u == <<part, m>>
           put == IsConnected(e) /\ socket[p] # "closed"
<1>1. p \in Ends /\ p # e /\ Peer(p) = e
  BY EndFacts, Pair
<1>2. Types
  BY DEF Inv
<1>3. /\ put => wire'[p] = Append(wire[p], u)
      /\ ~put => wire'[p] = wire[p]
      /\ \A f \in Ends \ {p} : wire'[f] = wire[f]
  BY <1>1, <1>2 DEF StartWrite, Types
<1>4. wire[p] \in Seq(Units) /\ u \in Units /\ u[1] = part /\ u[2] = m
  BY <1>1, <1>2 DEF Types, Units, Parts
<1>5. put => Open(e)
  BY DEF Open, IsConnected
<1>6. ~put => ~Open(e)
  BY <1>2 DEF Open, IsConnected, Types
<1>7. /\ Temp(p) \in Seq(Messages) /\ Headers(wire[p]) \in Seq(Messages)
      /\ OnWay(p) \in Seq(Messages) /\ received[p] \in Seq(Messages)
      /\ Arrived(p) \in Seq(Messages) /\ Arrived(e) \in Seq(Messages)
      /\ Pending(e) \in Seq(Messages) /\ Pending(p) \in Seq(Messages)
  BY <1>1, StreamTypes
<1>8. Stream(e) /\ Stream(p)
  BY <1>1 DEF Streams
<1>9. \A f \in Ends : Open(f)' = Open(f) /\ Readable(f)' = Readable(f) /\ Temp(f)' = Temp(f)
  BY DEF Open, Readable, IsConnected, Temp
<1> HIDE DEF p, u
<1>10. Stream(p)'
  <2>1. OnWay(e)' = OnWay(e) /\ Pending(p)' = Pending(p)
    BY <1>1, <1>3, <1>9 DEF OnWay, Pending
  <2> QED
    BY <1>1, <1>7, <1>8, <1>9, <2>1, StreamSame
<1>11. ~put => OnWay(p)' = OnWay(p)
  BY <1>1, <1>3, <1>9 DEF OnWay
<1>12. put => OnWay(p)' = IF part = "header" THEN OnWay(p) \o <<m>> ELSE OnWay(p)
  <2> SUFFICES ASSUME put
               PROVE  OnWay(p)' = IF part = "header" THEN OnWay(p) \o <<m>> ELSE OnWay(p)
    OBVIOUS
  <2>1. OnWay(p)' = Temp(p) \o Headers(Append(wire[p], u))
    BY <1>1, <1>3, <1>9 DEF OnWay
  <2>2. CASE part = "header"
    <3>1. Headers(Append(wire[p], u)) = Append(Headers(wire[p]), m)
      BY <1>4, <2>2, HeadersAppended
    <3>2. /\ Append(Temp(p) \o Headers(wire[p]), m) = Temp(p) \o Append(Headers(wire[p]), m)
          /\ Append(OnWay(p), m) = OnWay(p) \o <<m>>
      BY <1>7, AddedBehind, Added
    <3> QED
      BY <2>1, <2>2, <3>1, <3>2 DEF OnWay
  <2>3. CASE part = "body"
    <3>1. Headers(Append(wire[p], u)) = Headers(wire[p])
      BY <1>4, <2>3, HeadersAppended
    <3> QED
      BY <2>1, <2>3, <3>1 DEF OnWay
  <2> QED
    BY <2>2, <2>3
<1>13. Stream(e)'
  <2>1. CASE ~put
    BY <1>1, <1>6, <1>7, <1>8, <1>9, <1>11, <2>1, StreamSame DEF p
  <2>2. CASE put /\ part = "body"
    BY <1>1, <1>7, <1>8, <1>9, <1>12, <2>2, StreamSame DEF p
  <2>3. CASE put /\ part = "header"
    <3>1. OnWay(p)' = OnWay(p) \o <<m>> /\ Pending(e) = <<m>> \o Pending(e)'
      BY <1>12, <2>3
    <3> QED
      BY <1>5, <1>7, <1>8, <2>3, <3>1, StreamPut DEF p
  <2> QED
    BY <2>1, <2>2, <2>3
<1> QED
  BY <1>1, <1>3, <1>10, <1>13, StreamsAt DEF p

LEMMA SendStreams ==
    ASSUME Inv, Sending, Framing, Streams, NEW e \in Ends, Send(e)
    PROVE  Streams'
<1> DEFINE m == Head(jobs[e])
           out == messagesOut[e]
           left == Tail(jobs[e])
<1>1. /\ jobs[e] # <<>> /\ jobs[e] \in Seq(Messages) /\ out \in Seq(Messages)
      /\ jobs \in [Ends -> Seq(Messages)] /\ messagesOut \in [Ends -> Seq(Messages)]
  BY DEF Send, Inv, Types
<1>2. /\ jobs' = [jobs EXCEPT ![e] = left]
      /\ messagesOut' = [messagesOut EXCEPT ![e] = Append(out, m)]
      /\ UNCHANGED <<socket, reading, received, sent>>
      /\ IF out = <<>> THEN StartWrite(e, "header", m, writing[e])
                       ELSE UNCHANGED <<writing, wire>>
  BY DEF Send, history
<1>3. m \in Messages /\ left \in Seq(Messages) /\ jobs[e] = <<m>> \o left
  BY <1>1, Split
<1>4. socket[e] # "none"
  BY <1>1, Active
<1> HIDE DEF m, out, left
<1>5. /\ jobs'[e] = left /\ messagesOut'[e] = Append(out, m)
      /\ \A f \in Ends \ {e} : jobs'[f] = jobs[f] /\ messagesOut'[f] = messagesOut[f]
  BY <1>1, <1>2
<1>6. Append(out, m) # <<>> /\ Tail(Append(out, m)) = IF out = <<>> THEN <<>> ELSE Append(Tail(out), m)
  BY <1>1, <1>3, HeadTailAppend, AppendProperties
<1>7. Pending(e)' = Tail(Append(out, m)) \o left
  BY <1>5, <1>6 DEF Pending, Rest
<1>8. CASE out = <<>>
  <2>1. Pending(e)' = left
    BY <1>3, <1>6, <1>7, <1>8, Nothing
  <2>2. Pending(e) = <<m>> \o left
    <3>1. Pending(e) = <<>> \o jobs[e]
      BY <1>8 DEF Pending, Rest, out
    <3> QED
      BY <1>1, <1>3, <3>1, Nothing
  <2>3. StartWrite(e, "header", m, writing[e])
    BY <1>2, <1>8
  <2> QED
    BY <1>2, <1>3, <1>4, <1>5, <2>1, <2>2, <2>3, WritingStreams
<1>9. CASE out # <<>>
  <2>1. Pending(e)' = Append(Tail(out), m) \o left
    BY <1>6, <1>7, <1>9
  <2>2. Pending(e) = Tail(out) \o (<<m>> \o left)
    BY <1>3, <1>9 DEF Pending, Rest, out
  <2>3. Append(Tail(out), m) \o left = Tail(out) \o (<<m>> \o left)
    <3>1. Tail(out) \in Seq(Messages)
      BY <1>1, <1>9, Split
    <3>2. Append(Tail(out), m) = Tail(out) \o <<m>> /\ <<m>> \in Seq(Messages)
      BY <1>3, <3>1, Added
    <3>3. (Tail(out) \o <<m>>) \o left = Tail(out) \o (<<m>> \o left)
      BY <1>3, <3>1, <3>2, Associative
    <3> QED
      BY <3>2, <3>3
  <2>4. \A f \in Ends : Pending(f)' = Pending(f)
    BY <1>5, <2>1, <2>2, <2>3 DEF Pending
  <2>5. \A f \in Ends : OnWay(f)' = OnWay(f) /\ Readable(f)' = Readable(f) /\ Open(f)' = Open(f)
    BY <1>2, <1>9 DEF OnWay, Temp, Readable, IsConnected, Open
  <2> QED
    BY <1>2, <2>4, <2>5, QuietStreams
<1> QED
  BY <1>8, <1>9

LEMMA WrittenStreams ==
    ASSUME Inv, Sending, Framing, Streams, NEW e \in Ends, NEW op \in MessageWrites(e),
           Written(e, op), UNCHANGED <<socket, jobs, received, sent>>
    PROVE  Streams'
<1> DEFINE out == messagesOut[e]
           rest == Tail(out)
<1>1. /\ out # <<>> /\ out \in Seq(Messages) /\ op \in writing[e]
      /\ messagesOut \in [Ends -> Seq(Messages)] /\ jobs[e] \in Seq(Messages)
  BY DEF Inv, Types, Busy, MessageWrites
<1>2. rest \in Seq(Messages)
  BY <1>1, Split
<1>3. /\ messagesOut' = [messagesOut EXCEPT ![e] = rest] /\ UNCHANGED reading
      /\ rest # <<>> => StartWrite(e, "header", Head(rest), Others(e, op))
      /\ rest = <<>> => UNCHANGED wire
  BY DEF Written
<1>4. socket[e] # "none"
  BY <1>1, Active
<1>5. Pending(e) = rest \o jobs[e]
  BY <1>1 DEF Pending, Rest
<1> HIDE DEF out, rest
<1>6. messagesOut'[e] = rest /\ \A f \in Ends \ {e} : messagesOut'[f] = messagesOut[f]
  BY <1>1, <1>3
<1>7. Pending(e)' = Rest(rest) \o jobs[e]
  BY <1>6 DEF Pending
<1>8. CASE rest = <<>>
  <2>1. \A f \in Ends : Pending(f)' = Pending(f)
    BY <1>5, <1>6, <1>7, <1>8 DEF Pending, Rest
  <2>2. \A f \in Ends : OnWay(f)' = OnWay(f) /\ Readable(f)' = Readable(f) /\ Open(f)' = Open(f)
    BY <1>3, <1>8 DEF OnWay, Temp, Readable, IsConnected, Open
  <2> QED
    BY <2>1, <2>2, QuietStreams
<1>9. CASE rest # <<>>
  <2> DEFINE h == Head(rest)
             last == Tail(rest)
  <2>1. h \in Messages /\ last \in Seq(Messages) /\ rest = <<h>> \o last
    BY <1>2, <1>9, Split
  <2>2. StartWrite(e, "header", h, Others(e, op)) /\ Pending(e)' = last \o jobs[e]
    BY <1>3, <1>7, <1>9 DEF Rest
  <2> HIDE DEF h, last
  <2>3. last \o jobs[e] \in Seq(Messages) /\ Pending(e) = <<h>> \o (last \o jobs[e])
    <3>1. <<h>> \in Seq(Messages)
      BY <2>1, Added
    <3>2. (<<h>> \o last) \o jobs[e] = <<h>> \o (last \o jobs[e])
      BY <1>1, <2>1, <3>1, Associative
    <3> QED
      BY <1>1, <1>5, <2>1, <3>2, Joined
  <2>4. Pending(e)' \in Seq(Messages) /\ Pending(e) = <<h>> \o Pending(e)'
    BY <2>2, <2>3
  <2> QED
    BY <1>3, <1>4, <1>6, <2>1, <2>2, <2>4, WritingStreams
<1> QED
  BY <1>8, <1>9

LEMMA WritesStreams ==
    ASSUME Inv, Sending, Framing, Streams, NEW e \in Ends, NEW op \in writing[e],
           WriteHeader(e, op) \/ WriteBody(e, op)
    PROVE  Streams'
<1>1. /\ op \in MessageWrites(e) /\ UNCHANGED <<socket, jobs, received, sent>>
  BY DEF WriteHeader, WriteBody, MessageWrites, mains, history
<1>2. CASE Written(e, op)
  BY <1>1, <1>2, WrittenStreams
<1> DEFINE m == Head(messagesOut[e])
<1>3. CASE /\ StartWrite(e, "body", m, Others(e, op))
           /\ UNCHANGED <<messagesOut, reading>>
  <2>1. messagesOut[e] # <<>> /\ messagesOut[e] \in Seq(Messages)
    BY <1>1 DEF Inv, Types, Busy
  <2>2. m \in Messages /\ socket[e] # "none"
    BY <2>1, Split, Active
  <2>3. Pending(e)' = Pending(e) /\ Pending(e) \in Seq(Messages)
    BY <1>1, <1>3, StreamTypes DEF Pending
  <2> HIDE DEF m
  <2> QED
    BY <1>1, <1>3, <2>2, <2>3, WritingStreams
<1> QED
  BY <1>2, <1>3 DEF WriteHeader, WriteBody

LEMMA WriteValidationStreams ==
    ASSUME Inv, Sending, Framing, Streams, NEW e \in Ends, NEW op \in writing[e],
           WriteValidation(e, op)
    PROVE  Streams'
<1>1. /\ op.part = "validation"
      /\ UNCHANGED <<socket, wire, jobs, messagesOut, received, sent>>
      /\ IF e[2] = "client" THEN StartRead(e, "header", None) ELSE UNCHANGED reading
  BY DEF WriteValidation, history
<1>2. \A f \in Ends : Open(f)' = Open(f) /\ Pending(f)' = Pending(f)
  BY <1>1 DEF Open, Pending
<1>3. CASE UNCHANGED reading
  <2>1. \A f \in Ends : OnWay(f)' = OnWay(f) /\ Readable(f)' = Readable(f)
    BY <1>1, <1>3 DEF OnWay, Temp, Readable, IsConnected
  <2> QED
    BY <1>1, <1>2, <2>1, QuietStreams
<1>4. CASE e[2] = "client" /\ StartRead(e, "header", None)
  <2>1. IsConnected(e) /\ e[1] \in Clients /\ e = Client(e[1])
    BY <1>4, Active, EndFacts
  <2>2. Answering(e[1])
    BY <2>1 DEF Framing, Link, Settled
  <2>3. reading[e] = NoRead
    BY <1>1, <2>1, <2>2 DEF Answering
  <2>4. /\ reading'[e].part = "header"
        /\ \A f \in Ends \ {e} : reading'[f] = reading[f]
    BY <1>4 DEF StartRead, Read, Inv, Types
  <2>5. \A f \in Ends : Temp(f)' = Temp(f)
    BY <2>3, <2>4 DEF Temp, NoRead, Read
  <2>6. \A f \in Ends : OnWay(f)' = OnWay(f) /\ (Readable(f)' => Readable(f))
    BY <1>1, <2>1, <2>4, <2>5 DEF OnWay, Readable, IsConnected
  <2> QED
    BY <1>1, <1>2, <2>6, QuietStreams
<1> QED
  BY <1>1, <1>3, <1>4

LEMMA ClosedStreams ==
    ASSUME Inv, Sending, Framing, Streams, NEW e \in Ends, NEW read \in {NoRead, reading[e]},
           NEW writes, Close(e, read, writes), UNCHANGED <<received, sent>>
    PROVE  Streams'
<1> DEFINE p == Peer(e)
<1>1. p \in Ends /\ p # e /\ Peer(p) = e
  BY EndFacts, Pair
<1>2. /\ socket'[e] = "closed"
      /\ \A f \in Ends \ {e} : /\ socket'[f] = socket[f] /\ jobs'[f] = jobs[f]
                               /\ messagesOut'[f] = messagesOut[f]
                               /\ reading'[f] = reading[f] /\ wire'[f] = wire[f]
      /\ \/ reading'[e] = NoRead
         \/ reading'[e] = reading[e] /\ wire'[e] = wire[e]
  <2>1. /\ socket \in [Ends -> {"none", "open", "closed"}] /\ reading \in [Ends -> Reads]
        /\ wire \in [Ends -> Seq(Units)]
        /\ jobs \in [Ends -> Seq(Messages)] /\ messagesOut \in [Ends -> Seq(Messages)]
    BY DEF Inv, Types
  <2>2. socket' = [socket EXCEPT ![e] = "closed"]
    BY DEF Close
  <2>3. CASE /\ reading' = [reading EXCEPT ![e] = NoRead]
             /\ wire' = [wire EXCEPT ![e] = <<>>]
             /\ jobs' = [jobs EXCEPT ![e] = <<>>]
             /\ messagesOut' = [messagesOut EXCEPT ![e] = <<>>]
    BY <2>1, <2>2, <2>3
  <2>4. CASE /\ reading' = [reading EXCEPT ![e] = read]
             /\ UNCHANGED <<wire, jobs, messagesOut>>
    BY <2>1, <2>2, <2>4
  <2> QED
    BY <2>3, <2>4 DEF Close
<1>3. Stream(e) /\ Stream(p)
  BY <1>1 DEF Streams
<1>4. /\ Arrived(p) \in Seq(Messages) /\ Pending(e) \in Seq(Messages)
      /\ Arrived(e) \in Seq(Messages) /\ Pending(p) \in Seq(Messages)
  BY <1>1, StreamTypes
<1>5. ~Open(e)' /\ ~Open(p)'
  BY <1>1, <1>2 DEF Open
<1> HIDE DEF p
<1>6. Stream(e)'
  <2>1. OnWay(p)' = OnWay(p) /\ Readable(p)' = Readable(p)
    BY <1>1, <1>2 DEF OnWay, Temp, Readable, IsConnected
  <2> QED
    BY <1>3, <1>4, <1>5, <2>1, StreamSame DEF p
<1>7. Stream(p)'
  <2>1. CASE reading'[e] = NoRead
    <3>1. ~Readable(e)'
      BY <1>2, <2>1 DEF Readable, IsConnected
    <3> QED
      BY <1>1, <1>3, <1>5, <3>1, StreamClosed
  <2>2. CASE reading'[e] = reading[e] /\ wire'[e] = wire[e]
    <3>1. OnWay(e)' = OnWay(e) /\ (Readable(e)' => Readable(e))
      BY <1>2, <2>2 DEF OnWay, Temp, Readable, IsConnected
    <3> QED
      BY <1>1, <1>3, <1>4, <1>5, <3>1, StreamSame
  <2> QED
    BY <1>2, <2>1, <2>2
<1> QED
  BY <1>2, <1>6, <1>7, StreamsAt DEF p

LEMMA FailuresStreams ==
    ASSUME Inv, Sending, Framing, Streams, NEW e \in Ends,
           \/ \E op \in writing[e] : WriteFails(e, op)
           \/ ReadFails(e)
           \/ IsConnected(e) /\ Close(e, NoRead, {}) /\ UNCHANGED <<mains, history>>
    PROVE  Streams'
<1>1. \E read \in {NoRead, reading[e]} : \E writes : Close(e, read, writes)
  BY DEF WriteFails, ReadFails
<1>2. UNCHANGED <<received, sent>>
  BY DEF WriteFails, ReadFails, history
<1> QED
  BY <1>1, <1>2, ClosedStreams

(* A unit is taken: what it adds to the queue or to the message that is    *)
(* being read was on the way.                                              *)
LEMMA TakenStreams ==
    ASSUME Inv, Sending, Framing, Streams, NEW e \in Ends, Readable(e), Take(e),
           wire[e] # <<>>, UNCHANGED <<socket, jobs, messagesOut, sent>>,
           \A f \in Ends \ {e} : reading'[f] = reading[f] /\ received'[f] = received[f],
           received'[e] \in Seq(Messages), Temp(e)' \in Seq(Messages),
           Arrived(e) = (received'[e] \o Temp(e)') \o Headers(Tail(wire[e]))
    PROVE  Streams'
<1> DEFINE p == Peer(e)
           way == Headers(Tail(wire[e]))
           got == received'[e]
           temp == Temp(e)'
<1>1. p \in Ends /\ p # e /\ Peer(p) = e
  BY EndFacts, Pair
<1>2. wire'[e] = Tail(wire[e]) /\ \A f \in Ends \ {e} : wire'[f] = wire[f]
  BY DEF Take, Inv, Types
<1>3. Stream(e) /\ Stream(p)
  BY <1>1 DEF Streams
<1>4. /\ Arrived(p) \in Seq(Messages) /\ Pending(e) \in Seq(Messages)
      /\ wire[e] \in Seq(Units)
  BY <1>1, StreamTypes DEF Inv, Types
<1>5. way \in Seq(Messages)
  BY <1>4, HeadersTaken
<1>6. OnWay(e)' = temp \o way
  BY <1>2 DEF OnWay
<1>7. got \in Seq(Messages) /\ temp \in Seq(Messages) /\ Arrived(e) = (got \o temp) \o way
  OBVIOUS
<1>8. \A f \in Ends : Open(f)' = Open(f) /\ Pending(f)' = Pending(f)
  BY DEF Open, Pending
<1>9. Arrived(e)' = got \o OnWay(e)'
  BY DEF Arrived
<1> HIDE DEF p, way, got, temp
<1>10. OnWay(e)' \in Seq(Messages) /\ Arrived(e)' = Arrived(e)
  <2>1. temp \o way \in Seq(Messages) /\ (got \o temp) \o way = got \o (temp \o way)
    BY ONLY <1>5, <1>7, Joined, Associative
  <2> QED
    BY ONLY <1>6, <1>7, <1>9, <2>1
<1>11. Stream(e)'
  <2>1. OnWay(p)' = OnWay(p) /\ Readable(p)' = Readable(p) /\ received'[p] = received[p]
    BY <1>1, <1>2 DEF OnWay, Temp, Readable, IsConnected
  <2> QED
    BY <1>3, <1>4, <1>8, <2>1, StreamSame DEF p
<1>12. Stream(p)'
  <2>1. sent'[p] = sent[p] /\ received'[e] \in Seq(Messages) /\ (Open(p)' => Open(p) /\ Pending(p)' = Pending(p))
    BY <1>1, <1>8
  <2> QED
    BY ONLY <1>1, <1>3, <1>10, <2>1, Readable(e), StreamRead
<1> QED
  BY <1>1, <1>2, <1>11, <1>12, StreamsAt DEF p

LEMMA ReadsStreams ==
    ASSUME Inv, Sending, Framing, Streams, NEW e \in Ends, ReadHeader(e) \/ ReadBody(e)
    PROVE  Streams'
<1> DEFINE u == Head(wire[e])
           m == u[2]
           way == Headers(Tail(wire[e]))
           got == received[e]
<1>1. Take(e) /\ UNCHANGED <<socket, jobs, messagesOut, sent>>
  BY DEF ReadHeader, ReadBody
<1>2. /\ reading[e].part \in {"header", "body"} /\ wire[e] # <<>> /\ wire[e] \in Seq(Units)
      /\ u \in Units /\ Fits(u, Reader(e)) /\ Readable(e)
      /\ ReadHeader(e) => reading[e].part = "header"
      /\ ReadBody(e) => reading[e].part = "body"
  <2>1. ReadHeader(e) => Arrives(e, "header") /\ reading[e].part = "header"
    BY DEF ReadHeader, Arrives
  <2>2. ReadBody(e) => Arrives(e, "body") /\ reading[e].part = "body"
    BY DEF ReadBody, Arrives
  <2>3. PICK part \in {"header", "body"} : Arrives(e, part)
    BY <2>1, <2>2
  <2>4. /\ reading[e].part = part /\ wire[e] # <<>> /\ wire[e] \in Seq(Units)
        /\ u \in Units /\ Fits(u, Reader(e)) /\ Readable(e)
    BY <2>3, ArrivingFits DEF Parts
  <2> QED
    BY <2>1, <2>2, <2>4
<1>3. m \in Messages /\ u[1] = reading[e].part /\ (u[1] = "body" => m = reading[e].msgTempIn)
  BY <1>2 DEF Units, Fits, Reader
<1>4. /\ way \in Seq(Messages) /\ got \in Seq(Messages) /\ <<m>> \in Seq(Messages)
      /\ Append(got, m) \in Seq(Messages) /\ Append(got, m) = got \o <<m>>
      /\ <<>> \in Seq(Messages)
  <2>1. way \in Seq(Messages) /\ got \in Seq(Messages)
    BY <1>2, HeadersTaken, StreamTypes
  <2> HIDE DEF m, way, got
  <2> QED
    BY <1>3, <2>1, Added, Nothing
<1>5. OnWay(e) = <<m>> \o way
  <2>1. CASE u[1] = "header"
    <3>1. Temp(e) = <<>> /\ Headers(wire[e]) = <<m>> \o way
      BY <1>2, <1>3, <2>1, HeadersTaken DEF Temp
    <3>2. <<m>> \o way \in Seq(Messages)
      BY ONLY <1>4, Joined
    <3>3. <<>> \o (<<m>> \o way) = <<m>> \o way
      BY ONLY <3>2, Nothing
    <3> QED
      BY ONLY <3>1, <3>3 DEF OnWay
  <2>2. CASE u[1] = "body"
    <3>1. Temp(e) = <<m>> /\ Headers(wire[e]) = way
      BY <1>2, <1>3, <2>2, HeadersTaken DEF Temp
    <3> QED
      BY ONLY <3>1 DEF OnWay
  <2> QED
    BY <1>2, <1>3, <2>1, <2>2
<1>6. Arrived(e) = (got \o <<m>>) \o way
  <2>1. Arrived(e) = got \o (<<m>> \o way)
    BY ONLY <1>5 DEF Arrived, got
  <2> QED
    BY ONLY <1>4, <2>1, Associative
<1>7. Arrived(e) = (Append(got, m) \o <<>>) \o way
  BY ONLY <1>4, <1>6, Nothing
<1> HIDE DEF m, way, got
<1>8. CASE AddIncomingMessageQueue(e, m)
  <2>1. /\ received'[e] = Append(got, m)
        /\ \A f \in Ends \ {e} : reading'[f] = reading[f] /\ received'[f] = received[f]
        /\ reading'[e].part = "header"
    BY <1>3, <1>8 DEF AddIncomingMessageQueue, StartRead, Read, Framing, Inv, Types, got
  <2>2. Temp(e)' = <<>>
    BY <2>1 DEF Temp
  <2>3. Arrived(e) = (received'[e] \o Temp(e)') \o Headers(Tail(wire[e]))
    BY ONLY <1>7, <2>1, <2>2 DEF way
  <2>4. received'[e] \in Seq(Messages) /\ Temp(e)' \in Seq(Messages)
    BY ONLY <1>4, <2>1, <2>2
  <2> QED
    BY ONLY Inv, Sending, Framing, Streams, e \in Ends, <1>1, <1>2, <2>1, <2>3, <2>4, TakenStreams
<1>9. CASE StartRead(e, "body", m) /\ UNCHANGED received
  <2>1. /\ received'[e] = got
        /\ \A f \in Ends \ {e} : reading'[f] = reading[f] /\ received'[f] = received[f]
        /\ reading'[e].part = "body" /\ reading'[e].msgTempIn = m
    BY <1>3, <1>9 DEF StartRead, Read, Inv, Types, got
  <2>2. Temp(e)' = <<m>>
    BY <2>1 DEF Temp
  <2>3. Arrived(e) = (received'[e] \o Temp(e)') \o Headers(Tail(wire[e]))
    BY ONLY <1>6, <2>1, <2>2 DEF way
  <2>4. received'[e] \in Seq(Messages) /\ Temp(e)' \in Seq(Messages)
    BY ONLY <1>4, <2>1, <2>2
  <2> QED
    BY ONLY Inv, Sending, Framing, Streams, e \in Ends, <1>1, <1>2, <2>1, <2>3, <2>4, TakenStreams
<1>10. AddIncomingMessageQueue(e, m) \/ (StartRead(e, "body", m) /\ UNCHANGED received)
  <2>1. CASE ReadHeader(e)
    BY <2>1 DEF ReadHeader, m
  <2>2. CASE ReadBody(e)
    <3>1. m = reading[e].msgTempIn
      BY <1>2, <1>3, <2>2
    <3> QED
      BY <2>2, <3>1 DEF ReadBody
  <2> QED
    BY <2>1, <2>2
<1> QED
  BY <1>8, <1>9, <1>10

\* What is taken of the handshake carries no message.
LEMMA ValidationTaken ==
    ASSUME Inv, Sending, Framing, NEW e \in Ends, Arrives(e, "validation")
    PROVE  /\ Readable(e) /\ wire[e] # <<>> /\ wire[e] \in Seq(Units) /\ socket[e] # "none"
           /\ Temp(e) = <<>> /\ OnWay(e) = Headers(Tail(wire[e]))
           /\ Headers(Tail(wire[e])) \in Seq(Messages)
<1> DEFINE u == Head(wire[e])
           way == Headers(Tail(wire[e]))
<1>1. /\ reading[e].part = "validation" /\ wire[e] # <<>> /\ wire[e] \in Seq(Units)
      /\ u \in Units /\ Fits(u, Reader(e)) /\ Readable(e) /\ socket[e] # "none"
  BY ArrivingFits DEF Parts
<1>2. u[1] = "validation"
  BY <1>1 DEF Fits, Reader
<1>3. Headers(wire[e]) = way /\ way \in Seq(Messages) /\ Temp(e) = <<>>
  BY <1>1, <1>2, HeadersTaken DEF Temp
<1>4. OnWay(e) = way
  BY ONLY <1>3, Nothing DEF OnWay
<1> QED
  BY <1>1, <1>3, <1>4

LEMMA ServerReadStreams ==
    ASSUME Inv, Sending, Framing, Streams, NEW e \in Ends, ServerReadValidation(e)
    PROVE  Streams'
<1>1. Arrives(e, "validation") /\ UNCHANGED <<received, sent>>
  BY DEF ServerReadValidation, history
<1>2. CASE Close(e, NoRead, writing[e])
  BY <1>1, <1>2, ClosedStreams
<1>3. CASE /\ StartRead(e, "header", None) /\ Take(e)
           /\ UNCHANGED <<socket, jobs, messagesOut, writing>>
  <2> DEFINE way == Headers(Tail(wire[e]))
  <2>1. /\ Readable(e) /\ wire[e] # <<>> /\ OnWay(e) = way /\ way \in Seq(Messages)
    BY <1>1, ValidationTaken
  <2>2. /\ reading'[e].part = "header"
        /\ \A f \in Ends \ {e} : reading'[f] = reading[f] /\ received'[f] = received[f]
        /\ received'[e] = received[e]
    BY <1>1, <1>3 DEF StartRead, Read, Inv, Types
  <2>3. Temp(e)' = <<>>
    BY <2>2 DEF Temp
  <2>4. received[e] \in Seq(Messages)
    BY StreamTypes
  <2>5. Arrived(e) = (received'[e] \o Temp(e)') \o way
    <3>1. received[e] \o <<>> = received[e]
      BY ONLY <2>4, Nothing
    <3> QED
      BY ONLY <2>1, <2>2, <2>3, <3>1 DEF Arrived
  <2>6. received'[e] \in Seq(Messages) /\ Temp(e)' \in Seq(Messages)
    BY ONLY <2>2, <2>3, <2>4, Nothing
  <2> QED
    BY ONLY Inv, Sending, Framing, Streams, e \in Ends, <1>1, <1>3, <2>1, <2>2, <2>5, <2>6, TakenStreams
<1> QED
  BY <1>2, <1>3 DEF ServerReadValidation

LEMMA ClientReadStreams ==
    ASSUME Inv, Sending, Framing, Streams, NEW e \in Ends, ClientReadValidation(e)
    PROVE  Streams'
<1> DEFINE s == Peer(e)
           c == e[1]
           way == Headers(Tail(wire[e]))
<1>1. PICK answer \in {"solution", "wrong"} :
          wire' = [wire EXCEPT ![e] = Tail(@),
                               ![s] = IF socket[s] = "closed" THEN @
                                      ELSE Append(wire[s], Handshake(answer, c))]
  BY DEF ClientReadValidation
<1>2. /\ Arrives(e, "validation")
      /\ reading' = [reading EXCEPT ![e] = NoRead]
      /\ UNCHANGED <<socket, jobs, messagesOut, received, sent>>
  BY DEF ClientReadValidation, history
<1>3. s \in Ends /\ s # e /\ c \in Clients
  BY EndFacts
<1> DEFINE u == Handshake(answer, c)
<1>4. u \in Units /\ u[1] = "validation"
  <2>1. Message(answer, c, 0) \in Messages
    BY <1>3, AsioAssumption DEF Message, Messages, Kinds, Handshakes, AsioAssumption
  <2> QED
    BY <2>1 DEF Handshake, Units, Parts
<1>5. /\ Readable(e) /\ Temp(e) = <<>> /\ OnWay(e) = way /\ way \in Seq(Messages)
  BY <1>2, ValidationTaken
<1> HIDE DEF u, s
<1>6. /\ wire'[e] = Tail(wire[e])
      /\ wire'[s] = wire[s] \/ wire'[s] = Append(wire[s], u)
      /\ \A f \in Ends \ {e, s} : wire'[f] = wire[f]
      /\ reading'[e] = NoRead /\ \A f \in Ends \ {e} : reading'[f] = reading[f]
      /\ wire[s] \in Seq(Units)
  BY <1>1, <1>2, <1>3 DEF Inv, Types, u
<1>7. \A f \in Ends : Temp(f)' = Temp(f)
  BY <1>5, <1>6 DEF Temp, NoRead, Read
<1>8. OnWay(e)' = OnWay(e)
  <2>1. Temp(e)' = <<>>
    BY <1>5, <1>7
  <2>2. <<>> \o way = way
    BY ONLY <1>5, Nothing
  <2> QED
    BY <1>5, <1>6, <2>1, <2>2 DEF OnWay
<1>9. OnWay(s)' = OnWay(s)
  <2>1. Headers(Append(wire[s], u)) = Headers(wire[s])
    BY <1>4, <1>6, HeadersAppended
  <2> QED
    BY <1>3, <1>6, <1>7, <2>1 DEF OnWay
<1>10. \A f \in Ends \ {e, s} : OnWay(f)' = OnWay(f)
  BY <1>6, <1>7 DEF OnWay
<1>11. \A f \in Ends : Readable(f)' => Readable(f)
  BY <1>2, <1>5, <1>6 DEF Readable, IsConnected
<1>12. \A f \in Ends : Open(f)' = Open(f) /\ Pending(f)' = Pending(f)
  BY <1>2 DEF Open, Pending
<1> QED
  BY <1>2, <1>8, <1>9, <1>10, <1>11, <1>12, QuietStreams

LEMMA RunsLateStreams ==
    ASSUME Inv, Sending, Framing, Streams, NEW c \in Clients, socket[Server(c)] = "closed",
           RunsLate(c)
    PROVE  Streams'
<1> DEFINE s == Server(c)
           k == Client(c)
<1>1. s \in Ends /\ k \in Ends /\ s # k /\ Peer(s) = k /\ Peer(k) = s
  BY Pair
<1>2. /\ reading'[s] = NoRead
      /\ \A f \in Ends \ {s} : reading'[f] = reading[f] /\ jobs'[f] = jobs[f]
      /\ UNCHANGED <<socket, wire, messagesOut, received, sent>>
  BY <1>1 DEF RunsLate, Inv, Types
<1>3. Stream(s) /\ Stream(k)
  BY <1>1 DEF Streams
<1>4. /\ Arrived(k) \in Seq(Messages) /\ Pending(s) \in Seq(Messages)
  BY <1>1, StreamTypes
<1>5. socket'[s] = "closed"
  BY <1>2
<1> HIDE DEF s, k
<1>6. ~Open(s)' /\ ~Open(k)' /\ ~Readable(s)'
  BY <1>1, <1>2, <1>5 DEF Open, Readable, IsConnected
<1>7. Stream(s)'
  <2>1. OnWay(k)' = OnWay(k) /\ Readable(k)' = Readable(k)
    BY <1>1, <1>2 DEF OnWay, Temp, Readable, IsConnected
  <2> QED
    BY <1>1, <1>2, <1>3, <1>4, <1>6, <2>1, StreamSame
<1>8. Stream(k)'
  BY <1>1, <1>2, <1>3, <1>6, StreamClosed
<1> QED
  BY <1>1, <1>2, <1>7, <1>8, StreamsAt

LEMMA ConnectStreams ==
    ASSUME Inv, Sending, Framing, Streams, NEW c \in Clients, ConnectToServer(c)
    PROVE  Streams'
<1> DEFINE s == Server(c)
           k == Client(c)
<1>1. s \in Ends /\ k \in Ends /\ s # k /\ Peer(s) = k /\ Peer(k) = s
  BY Pair
<1>2. /\ socket[k] = "none" /\ socket'[k] = "open" /\ reading'[k] = Read("validation", TRUE, None)
      /\ \A f \in Ends \ {k} : socket'[f] = socket[f] /\ reading'[f] = reading[f]
      /\ UNCHANGED <<wire, jobs, messagesOut, received, sent>>
  BY <1>1 DEF ConnectToServer, history, Inv, Types
<1>3. reading[k] = NoRead /\ NoClient(c)
  BY <1>1, <1>2 DEF Inv, Unused, Framing, Link, Settled
<1> HIDE DEF s, k
<1>4. socket[s] = "none"
  BY <1>2, <1>3 DEF NoClient, s, k
<1>5. \A f \in Ends : Temp(f)' = Temp(f)
  BY <1>2, <1>3 DEF Temp, Read, NoRead
<1>6. \A f \in Ends : OnWay(f)' = OnWay(f) /\ Pending(f)' = Pending(f)
  BY <1>2, <1>5 DEF OnWay, Pending
<1>7. \A f \in Ends \ {k} : Readable(f)' = Readable(f)
  BY <1>2 DEF Readable, IsConnected
<1>8. Open(s) /\ Open(k)
  BY <1>1, <1>2, <1>4 DEF Open
<1>9. \A f \in Ends : Open(f)' => Open(f)
  <2> TAKE f \in Ends
  <2>1. \A g \in Ends : socket'[g] # "closed" => socket[g] # "closed"
    BY <1>2
  <2> QED
    BY <2>1, EndFacts DEF Open
<1> QED
  BY <1>1, <1>2, <1>6, <1>7, <1>8, <1>9, QuietStreams

LEMMA PostStreams ==
    ASSUME Inv, Sending, Framing, Streams, NEW e \in Ends, NEW m \in Messages, Post(e, m),
           UNCHANGED <<messagesOut, received>>,
           \A f \in Ends : /\ OnWay(f)' = OnWay(f)
                           /\ Readable(f)' => Readable(f) \/ Open(Peer(f)) \/ Arrived(f) = received[f]
                           /\ Open(f)' => Open(f)
    PROVE  Streams'
<1>1. /\ jobs'[e] = Append(jobs[e], m) /\ sent'[e] = Append(sent[e], m)
      /\ \A f \in Ends \ {e} : jobs'[f] = jobs[f] /\ sent'[f] = sent[f]
  BY DEF Post, Inv, Types, Sending
<1>2. ASSUME NEW f \in Ends
      PROVE  Stream(f)'
  <2> DEFINE r == Peer(f)
  <2>1. r \in Ends /\ Peer(r) = f
    BY EndFacts, Pair
  <2>2. /\ Stream(f) /\ Arrived(r) \in Seq(Messages) /\ Pending(f) \in Seq(Messages)
        /\ received[r] \in Seq(Messages) /\ sent[f] \in Seq(Messages)
        /\ Rest(messagesOut[f]) \in Seq(Messages) /\ jobs[f] \in Seq(Messages)
    BY <2>1, StreamTypes DEF Streams
  <2>3. /\ OnWay(r)' = OnWay(r) /\ (Open(f)' => Open(f))
        /\ Readable(r)' => Readable(r) \/ Open(f) \/ Arrived(r) = received[r]
        /\ received'[r] = received[r]
    BY <2>1
  <2> HIDE DEF r
  <2>4. CASE f = e
    <3>1. Pending(f)' = Rest(messagesOut[f]) \o Append(jobs[f], m)
      BY <1>1, <2>4 DEF Pending
    <3>2. Append(Rest(messagesOut[f]) \o jobs[f], m) = Rest(messagesOut[f]) \o Append(jobs[f], m)
      BY <2>2, AddedBehind
    <3>3. Pending(f)' = Append(Pending(f), m)
      BY <3>1, <3>2 DEF Pending
    <3> QED
      BY <1>1, <2>2, <2>3, <2>4, <3>3, StreamPosted DEF r
  <2>5. CASE f # e
    <3>1. Pending(f)' = Pending(f) /\ sent'[f] = sent[f]
      BY <1>1, <2>5 DEF Pending
    <3> QED
      BY <2>2, <2>3, <3>1, StreamSame DEF r
  <2> QED
    BY <2>4, <2>5
<1> QED
  BY <1>2 DEF Streams

LEMMA RestStreams ==
    ASSUME Inv, Sending, Framing, Streams, UNCHANGED <<wires, received, sent>>
    PROVE  Streams'
<1>1. \A f \in Ends : /\ OnWay(f)' = OnWay(f) /\ Readable(f)' = Readable(f)
                      /\ Open(f)' = Open(f) /\ Pending(f)' = Pending(f)
  BY DEF OnWay, Temp, Readable, IsConnected, Open, Pending, wires
<1> QED
  BY <1>1, QuietStreams

LEMMA AcceptStreams ==
    ASSUME Inv, Sending, Framing, Streams, NEW c \in Clients, WaitForClientConnection(c)
    PROVE  Streams'
<1> DEFINE s == Server(c)
           k == Client(c)
           u == Handshake("puzzle", c)
           m == Message("ServerAccept", c, 0)
<1>1. s \in Ends /\ k \in Ends /\ s # k /\ Peer(s) = k /\ Peer(k) = s
  BY Pair
<1>2. /\ socket[s] = "none" /\ socket[k] # "none" /\ socket' = [socket EXCEPT ![s] = "open"]
      /\ Post(s, m)
      /\ wire' = [wire EXCEPT ![k] = Append(@, u)]
      /\ reading' = [reading EXCEPT ![s] = Read("validation", TRUE, None)]
      /\ UNCHANGED <<messagesOut, received>>
  BY DEF WaitForClientConnection
<1>3. u \in Units /\ u[1] = "validation" /\ m \in Messages
  <2>1. Message("puzzle", c, 0) \in Messages /\ m \in Messages
    BY AsioAssumption DEF Message, Messages, Kinds, Handshakes, AsioAssumption
  <2> QED
    BY <2>1 DEF Handshake, Units, Parts
<1>4. reading[s] = NoRead /\ Down(c)
  BY <1>1, <1>2 DEF Inv, Unused, Framing, Link, Settled
<1> HIDE DEF s, k, u, m
<1>5. /\ wire'[k] = Append(wire[k], u) /\ \A f \in Ends \ {k} : wire'[f] = wire[f]
      /\ reading'[s].part = "validation" /\ \A f \in Ends \ {s} : reading'[f] = reading[f]
      /\ socket'[s] = "open" /\ \A f \in Ends \ {s} : socket'[f] = socket[f]
      /\ wire[k] \in Seq(Units)
  BY <1>1, <1>2 DEF Inv, Types, Read
<1>6. \A f \in Ends : Temp(f)' = Temp(f)
  BY <1>4, <1>5 DEF Temp, NoRead, Read
<1>7. \A f \in Ends : OnWay(f)' = OnWay(f)
  <2>1. Headers(Append(wire[k], u)) = Headers(wire[k])
    BY <1>3, <1>5, HeadersAppended
  <2> QED
    BY <1>5, <1>6, <2>1 DEF OnWay
<1>8. \A f \in Ends \ {s} : Readable(f)' = Readable(f)
  BY <1>5 DEF Readable, IsConnected
<1>9. \A f \in Ends : Open(f)' => Open(f)
  <2> TAKE f \in Ends
  <2>1. \A g \in Ends : socket'[g] # "closed" => socket[g] # "closed"
    BY <1>2, <1>5
  <2> QED
    BY <2>1, EndFacts DEF Open
<1>10. Arrived(s) = received[s]
  <2>1. wire[s] = <<>>
    BY <1>2 DEF Framing, Link, Settled, NoServer, s
  <2>2. Temp(s) = <<>> /\ Headers(<<>>) = <<>>
    BY <1>4, NoHeaders DEF Temp, NoRead, Read
  <2>3. received[s] \in Seq(Messages)
    BY <1>1, StreamTypes
  <2>4. <<>> \o <<>> = <<>> /\ received[s] \o <<>> = received[s]
    BY ONLY <2>3, Nothing
  <2> QED
    BY ONLY <2>1, <2>2, <2>4 DEF Arrived, OnWay
<1> QED
  BY <1>1, <1>2, <1>3, <1>7, <1>8, <1>9, <1>10, PostStreams

\* A post alone.
LEMMA PostedStreams ==
    ASSUME Inv, Sending, Framing, Streams, NEW e \in Ends, NEW m \in Messages, Post(e, m),
           UNCHANGED <<socket, wire, messagesOut, reading, received>>
    PROVE  Streams'
<1>1. \A f \in Ends : /\ OnWay(f)' = OnWay(f) /\ Readable(f)' = Readable(f) /\ Open(f)' = Open(f)
  BY DEF OnWay, Temp, Readable, IsConnected, Open
<1> QED
  BY <1>1, PostStreams

LEMMA MainsStreams ==
    ASSUME Inv, Sending, Framing, Streams, Update
    PROVE  Streams'
<1>1. UNCHANGED received
  BY DEF Update, BouncePing, MessageAllClients, Visit, Erase
<1>2. CASE UNCHANGED <<wires, sent>>
  BY <1>1, <1>2, RestStreams
<1>3. CASE BouncePing
  <2> DEFINE m == Head(messagesIn)
  <2>1. /\ messagesIn # <<>> /\ Post(Server(m.remote), m.msg)
        /\ UNCHANGED <<socket, wire, messagesOut, reading>>
    BY <1>3 DEF BouncePing
  <2>2. m \in Owned
    BY <2>1 DEF Inv, Types
  <2>3. Server(m.remote) \in Ends /\ m.msg \in Messages
    BY <2>2, Pair DEF Owned
  <2> HIDE DEF m
  <2> QED
    BY <1>1, <2>1, <2>3, PostedStreams
<1>4. CASE Visit
  <2> DEFINE c == connections[broadcast.next]
             e == Server(c)
  <2>1. /\ Post(e, broadcast.msg) \/ UNCHANGED <<jobs, sent>>
        /\ broadcast.msg # None
        /\ UNCHANGED <<socket, wire, messagesOut, reading, writing>>
    BY <1>4 DEF Visit
  <2>2. broadcast.msg \in Messages
    BY <2>1 DEF Inv, Types
  <2> HIDE DEF e
  <2>3. CASE UNCHANGED <<jobs, sent>>
    BY <1>2, <2>1, <2>3 DEF wires
  <2>4. CASE Post(e, broadcast.msg) /\ e \in Ends
    BY <1>1, <2>1, <2>2, <2>4, PostedStreams
  <2>5. CASE Post(e, broadcast.msg) /\ e \notin Ends
    <3>1. jobs' = jobs /\ sent' = sent
      BY <2>2, <2>5 DEF Post, Inv, Types, Sending
    <3> QED
      BY <2>3, <3>1
  <2> QED
    BY <2>1, <2>3, <2>4, <2>5
<1>5. CASE MessageAllClients \/ Erase
  BY <1>2, <1>5 DEF MessageAllClients, Erase
<1> QED
  BY <1>3, <1>4, <1>5 DEF Update

LEMMA StreamsStep ==
    ASSUME Inv, Sending, Lists, Framing, Streams, [Next]_vars, Lists'
    PROVE  Streams'
<1>1. ASSUME NEW e \in Ends, Handler(e)
      PROVE  Streams'
  BY <1>1, SendStreams, WritesStreams, WriteValidationStreams, FailuresStreams,
     ServerReadStreams, ClientReadStreams, ReadsStreams DEF Handler
<1>2. ASSUME NEW c \in Clients, RunsLate(c)
      PROVE  Streams'
  <2>1. c \in late' /\ UNCHANGED socket
    BY <1>2 DEF RunsLate
  <2>2. socket[Server(c)] = "closed"
    BY <2>1 DEF Lists
  <2> QED
    BY <1>2, <2>2, RunsLateStreams
<1>3. ASSUME NEW c \in Clients, Leave(c)
      PROVE  Streams'
  <2>1. Client(c) \in Ends
    BY Pair
  <2> QED
    BY <1>3, <2>1, FailuresStreams DEF Leave
<1>4. ASSUME NEW c \in Clients, NEW kind \in {"ServerPing", "MessageAll"},
             SendToServer(c, kind)
      PROVE  Streams'
  <2> DEFINE k == Client(c)
             n == Len(sent[k]) + 1
             m == Message(kind, c, n)
  <2>1. /\ Post(k, m) /\ n <= MaxMessages
        /\ UNCHANGED <<socket, wire, messagesOut, reading, received>>
    BY <1>4 DEF SendToServer
  <2>2. k \in Ends /\ n \in Nat
    BY Pair DEF Sending
  <2>3. m \in Messages
    BY <2>1, <2>2, AsioAssumption DEF Message, Messages, Kinds, AsioAssumption
  <2> HIDE DEF k, n, m
  <2> QED
    BY <2>1, <2>2, <2>3, PostedStreams
<1>5. ASSUME NEW c \in Clients, HandleIncoming(c)
      PROVE  Streams'
  BY <1>5, RestStreams DEF HandleIncoming, history
<1>6. CASE UNCHANGED vars
  BY <1>6, RestStreams DEF vars, history
<1> QED
  BY <1>1, <1>2, <1>3, <1>4, <1>5, <1>6, MainsStreams, ConnectStreams, AcceptStreams DEF Next

LEMMA StreamsInit == Init => Streams
<1> SUFFICES ASSUME Init, NEW e \in Ends
             PROVE  Stream(e)
  BY DEF Streams
<1> DEFINE r == Peer(e)
<1>1. r \in Ends
  BY EndFacts
<1>2. /\ sent[e] = <<>> /\ jobs[e] = <<>> /\ messagesOut[e] = <<>>
      /\ received[r] = <<>> /\ wire[r] = <<>> /\ reading[r] = NoRead
  BY <1>1 DEF Init
<1>3. <<>> \o <<>> = <<>> /\ <<>> \in Seq(Messages)
  BY Nothing
<1> HIDE DEF r
<1>4. Arrived(r) = <<>> /\ Pending(e) = <<>>
  <2>1. Temp(r) = <<>>
    BY <1>2 DEF Temp, NoRead, Read
  <2> QED
    BY <1>2, <1>3, <2>1, NoHeaders, Zenon DEF Arrived, OnWay, Pending, Rest
<1>5. Begins(<<>>, <<>>)
  BY <1>3, Zenon DEF Begins
<1> QED
  BY <1>2, <1>3, <1>4, <1>5, Zenon DEF Stream, r

LEMMA BeginsIsPrefix ==
    ASSUME NEW a \in Seq(Messages), NEW t, Begins(a, t)
    PROVE  IsPrefix(a, t)
<1>1. PICK b \in Seq(Messages) : t = a \o b
  BY DEF Begins
<1>2. /\ t \in Seq(Messages) /\ Len(t) = Len(a) + Len(b) /\ Len(a) \in Nat /\ Len(b) \in Nat
      /\ \A i \in 1..Len(a) : t[i] = a[i]
  BY <1>1, ConcatProperties, LenProperties
<1>3. SubSeq(a, 1, Len(a)) = SubSeq(t, 1, Len(a))
  <2> DEFINE n == Len(a)
  <2>1. SubSeq(a, 1, n) = [i \in 1..n |-> a[i]] /\ SubSeq(t, 1, n) = [i \in 1..n |-> t[i]]
    BY <1>2
  <2> QED
    BY <1>2, <2>1
<1> QED
  BY <1>2, <1>3 DEF IsPrefix

(* What arrives is what was given to Send, once each and in order, for any *)
(* number of clients and messages, although the messages pass the lambdas, *)
(* the queue and the wire, where handshakes, headers and bodies of them    *)
(* are; and nothing of it is lost as long as both ends are open.           *)
THEOREM StreamAlwaysKept == Spec => []StreamKept
<1>1. ASSUME Inv, Sending, Framing, Streams, NEW e \in Ends
      PROVE  /\ IsPrefix(received[Peer(e)], sent[e])
             /\ IsConnected(e) /\ IsConnected(Peer(e))
                    => sent[e] = received[Peer(e)] \o Undelivered(e)
  <2> DEFINE r == Peer(e)
  <2>1. r \in Ends /\ Stream(e)
    BY <1>1, EndFacts DEF Streams
  <2>2. /\ received[r] \in Seq(Messages) /\ Temp(r) \in Seq(Messages) /\ OnWay(r) \in Seq(Messages)
        /\ Headers(wire[r]) \in Seq(Messages) /\ Rest(messagesOut[e]) \in Seq(Messages)
        /\ jobs[e] \in Seq(Messages) /\ Pending(e) \in Seq(Messages)
    BY <1>1, <2>1, StreamTypes
  <2>3. Undelivered(e) = (OnWay(r) \o Rest(messagesOut[e])) \o jobs[e]
    BY DEF Undelivered, OnWay, Temp, Rest
  <2>4. IsPrefix(received[r], sent[e])
    BY <2>1, <2>2, BeginsIsPrefix DEF Stream
  <2> HIDE DEF r
  <2>5. received[r] \o Undelivered(e) = (received[r] \o OnWay(r)) \o Pending(e)
    <3> DEFINE got == received[r]
               way == OnWay(r)
               rest == Rest(messagesOut[e])
               left == jobs[e]
    <3>1. /\ got \in Seq(Messages) /\ way \in Seq(Messages) /\ rest \in Seq(Messages)
          /\ left \in Seq(Messages) /\ rest \o left \in Seq(Messages)
          /\ Undelivered(e) = (way \o rest) \o left
      BY <2>2, <2>3 DEF Pending
    <3> HIDE DEF got, way, rest, left
    <3>2. (way \o rest) \o left = way \o (rest \o left)
      BY ONLY <3>1, Associative
    <3>3. (got \o way) \o (rest \o left) = got \o (way \o (rest \o left))
      BY ONLY <3>1, Associative
    <3> QED
      BY ONLY <3>1, <3>2, <3>3, Zenon DEF Pending, got, way, rest, left
  <2>6. Open(e) => sent[e] = received[r] \o Undelivered(e)
    BY ONLY <2>1, <2>5 DEF Stream, Arrived, r
  <2> QED
    BY <2>4, <2>6 DEF Open, IsConnected, r
<1>2. Inv /\ Sending /\ Framing /\ Streams => StreamKept
  BY <1>1 DEF StreamKept
<1>3. Spec => []Framing
  BY FramingInit, FramingStep, InvAlways, ListsAlways, PTL DEF Spec
<1> QED
  BY <1>2, <1>3, StreamsInit, StreamsStep, InvAlways, ListsAlways, PTL DEF Spec

-----------------------------------------------------------------------------
(* Broadcasts.  A client numbers what it sends, and what the server keeps, *)
(* handles and sends on of it comes in that order: a message that was sent *)
(* on or is broadcast has a smaller number than those still queued.        *)

FromClient(m, x, k) == m.from = x /\ m.number = k /\ m.kind \in {"ServerPing", "MessageAll"}
Numbered == \A x \in Clients : \A k \in DOMAIN sent[Client(x)] : FromClient(sent[Client(x)][k], x, k)
Heard == \A x \in Clients : \A k \in DOMAIN received[Server(x)] :
             FromClient(received[Server(x)][k], x, k)

Queued == \A i \in DOMAIN messagesIn :
              LET q == messagesIn[i] IN
              /\ q.msg.from = q.remote /\ q.msg.kind \in {"ServerPing", "MessageAll"}
              /\ q.msg.number <= Len(received[Server(q.remote)])
InOrder == \A i, j \in DOMAIN messagesIn :
               i < j /\ messagesIn[i].remote = messagesIn[j].remote
                   => messagesIn[i].msg.number < messagesIn[j].msg.number

Behind(m, queue, got) ==
    /\ m.kind \in {"ServerPing", "ServerMessage"}
    /\ m.number <= Len(got[Server(m.from)])
    /\ \A i \in DOMAIN queue : queue[i].remote = m.from => m.number < queue[i].msg.number
Past(m) == Behind(m, messagesIn, received)

Answered(c) == \A j \in DOMAIN sent[Server(c)] :
                   \/ j = 1 /\ sent[Server(c)][j].kind = "ServerAccept"
                   \/ Past(sent[Server(c)][j])
Once(c) == \A i, j \in DOMAIN sent[Server(c)] : sent[Server(c)][i] = sent[Server(c)][j] => i = j
Has(c, m) == \E j \in DOMAIN sent[Server(c)] : sent[Server(c)][j] = m

Unknown(c) == socket[Server(c)] = "none" => /\ sent[Server(c)] = <<>>
                                            /\ \A i \in DOMAIN connections : connections[i] # c
Distinct == \A i, j \in DOMAIN connections :
                connections[i] = connections[j] /\ connections[i] # None => i = j

(* The loop: it has not come to the connections from next on, and what is  *)
(* behind it was sent the message or reset.                                *)
Ongoing == Past(broadcast.msg) /\ broadcast.msg.kind = "ServerMessage"
NotYet == \A i \in DOMAIN connections :
              i >= broadcast.next /\ connections[i] # None => ~Has(connections[i], broadcast.msg)
Visited == \A i \in DOMAIN connections :
               i < broadcast.next /\ i <= broadcast.end /\ connections[i] # None
                   => connections[i] \notin gone /\ Has(connections[i], broadcast.msg)

Settling ==
    /\ Queued /\ InOrder /\ Distinct
    /\ \A c \in Clients : /\ Answered(c) /\ Once(c) /\ Unknown(c)
                          /\ c \in gone => socket[Server(c)] = "closed"
    /\ broadcast.next \in Nat \ {0} /\ broadcast.end \in Nat /\ gone \subseteq Clients
    /\ broadcast.msg # None => Ongoing /\ NotYet /\ Visited /\ broadcast.end <= Len(connections)

LEMMA NumberedInit == Init => Numbered
<1> SUFFICES ASSUME Init, NEW x \in Clients, NEW k \in DOMAIN sent[Client(x)]
             PROVE  FALSE
  BY DEF Numbered
<1>1. sent[Client(x)] = <<>>
  BY Pair DEF Init
<1> QED
  BY <1>1

LEMMA NumberedStep ==
    ASSUME Sending, Numbered, [Next]_vars
    PROVE  Numbered'
<1>1. CASE \A x \in Clients : sent'[Client(x)] = sent[Client(x)]
  BY <1>1 DEF Numbered
<1>2. \A m : \A c : Post(Server(c), m) => \A x \in Clients : sent'[Client(x)] = sent[Client(x)]
  <2>1. \A c : \A x \in Clients : Client(x) \in Ends /\ Client(x) # Server(c)
    BY DEF Client, Server, Ends
  <2> QED
    BY <2>1 DEF Post, Sending
<1>3. ASSUME NEW c \in Clients, NEW kind \in {"ServerPing", "MessageAll"},
             SendToServer(c, kind)
      PROVE  Numbered'
  <2> DEFINE k == Client(c)
             n == Len(sent[k]) + 1
             m == Message(kind, c, n)
  <2>1. k \in Ends /\ sent[k] \in Seq(Messages) /\ \A x \in Clients : x # c => Client(x) # k
    BY Pair DEF Sending
  <2>2. Post(k, m)
    BY <1>3 DEF SendToServer
  <2>3. sent'[k] = Append(sent[k], m) /\ \A x \in Clients : x # c => sent'[Client(x)] = sent[Client(x)]
    <3>1. \A x \in Clients : Client(x) \in Ends
      BY Pair
    <3> QED
      BY <2>1, <2>2, <3>1 DEF Post, Sending
  <2>4. FromClient(m, c, n)
    BY DEF FromClient, Message
  <2> HIDE DEF m, k
  <2>5. \A j \in DOMAIN sent'[k] : FromClient(sent'[k][j], c, j)
    <3>1. /\ Len(sent[k]) \in Nat /\ DOMAIN sent[k] = 1..Len(sent[k])
          /\ DOMAIN sent'[k] = 1..n /\ sent'[k][n] = m
          /\ \A j \in 1..Len(sent[k]) : sent'[k][j] = sent[k][j]
      BY <2>1, <2>3
    <3>2. \A j \in DOMAIN sent[k] : FromClient(sent[k][j], c, j)
      BY DEF Numbered, k
    <3> QED
      BY <2>4, <3>1, <3>2
  <2>6. ASSUME NEW x \in Clients, NEW j \in DOMAIN sent'[Client(x)]
        PROVE  FromClient(sent'[Client(x)][j], x, j)
    BY <2>3, <2>5, <2>6 DEF Numbered, k
  <2> QED
    BY <2>6 DEF Numbered, FromClient
<1>4. ASSUME NEW e \in Ends, Handler(e)
      PROVE  UNCHANGED sent
  BY <1>4 DEF Handler, Send, WriteHeader, WriteBody, WriteValidation, WriteFails,
           ServerReadValidation, ClientReadValidation, ReadHeader, ReadBody, ReadFails, history
<1>5. ASSUME NEW c \in Clients, ConnectToServer(c) \/ RunsLate(c) \/ HandleIncoming(c) \/ Leave(c)
      PROVE  UNCHANGED sent
  BY <1>5 DEF ConnectToServer, RunsLate, HandleIncoming, Leave, history
<1>6. ASSUME Update \/ (\E c \in Clients : WaitForClientConnection(c))
      PROVE  UNCHANGED sent \/ \E m : \E c : Post(Server(c), m)
  BY <1>6 DEF Update, BouncePing, MessageAllClients, Visit, Erase, WaitForClientConnection
<1>7. CASE UNCHANGED vars
  BY <1>1, <1>7 DEF vars, history
<1> QED
  BY <1>1, <1>2, <1>3, <1>4, <1>5, <1>6, <1>7 DEF Next

LEMMA StreamsHeard ==
    ASSUME Sending, Framing, Streams, Numbered
    PROVE  Heard
<1> SUFFICES ASSUME NEW x \in Clients, NEW k \in DOMAIN received[Server(x)]
             PROVE  FromClient(received[Server(x)][k], x, k)
  BY DEF Heard
<1> DEFINE s == Server(x)
           e == Client(x)
<1>1. e \in Ends /\ s \in Ends /\ Peer(e) = s
  BY Pair
<1>2. received[s] \in Seq(Messages) /\ Begins(received[s], sent[e])
  BY <1>1 DEF Framing, Streams, Stream
<1> HIDE DEF s, e
<1>3. PICK b \in Seq(Messages) : sent[e] = received[s] \o b
  BY <1>2 DEF Begins
<1>4. k \in DOMAIN sent[e] /\ sent[e][k] = received[s][k]
  <2>1. k \in 1..Len(received[s])
    BY <1>2 DEF s
  <2>2. /\ sent[e] \in Seq(Messages) /\ Len(sent[e]) = Len(received[s]) + Len(b)
        /\ \A i \in 1..Len(received[s]) : sent[e][i] = received[s][i]
    BY <1>2, <1>3, ConcatProperties, LenProperties
  <2> QED
    BY <1>2, <2>1, <2>2
<1> QED
  BY <1>4 DEF Numbered, s, e

(* What is queued stays behind what is past: each queued message was       *)
(* queued before, or comes after all that was received.                    *)
Heads(k) == \/ \E i \in DOMAIN messagesIn : messagesIn'[k] = messagesIn[i]
            \/ messagesIn'[k].msg.number > Len(received[Server(messagesIn'[k].remote)])
More == \A c \in Clients : received'[Server(c)] = received[Server(c)]
                           \/ Len(received'[Server(c)]) = Len(received[Server(c)]) + 1

LEMMA MessageNumber ==
    ASSUME NEW m \in Messages
    PROVE  m.number \in Nat /\ m.from \in Clients
BY AsioAssumption DEF Messages, AsioAssumption

LEMMA PastOn ==
    ASSUME Inv, Framing, Inv', More, \A k \in DOMAIN messagesIn' : Heads(k), NEW m \in Messages, Past(m)
    PROVE  Past(m)'
<1>1. m.number \in Nat /\ m.from \in Clients
  BY MessageNumber
<1>2. /\ received[Server(m.from)] \in Seq(Messages)
      /\ Len(received[Server(m.from)]) \in Nat
  BY <1>1, Pair DEF Framing
<1>3. m.number <= Len(received'[Server(m.from)])
  BY <1>1, <1>2 DEF More, Past, Behind
<1>4. ASSUME NEW k \in DOMAIN messagesIn', messagesIn'[k].remote = m.from
      PROVE  m.number < messagesIn'[k].msg.number
  <2>1. messagesIn'[k] \in Owned
    BY <1>4 DEF Inv, Types
  <2>2. messagesIn'[k].msg.number \in Nat
    BY <2>1, MessageNumber DEF Owned
  <2>3. CASE \E i \in DOMAIN messagesIn : messagesIn'[k] = messagesIn[i]
    BY <1>4, <2>3 DEF Past, Behind
  <2>4. CASE messagesIn'[k].msg.number > Len(received[Server(m.from)])
    BY <1>1, <1>2, <2>2, <2>4 DEF Past, Behind
  <2> QED
    BY <1>4, <2>3, <2>4 DEF Heads
<1> QED
  BY <1>3, <1>4 DEF Past, Behind

LEMMA AnsweredOn ==
    ASSUME Sending, NEW c \in Clients, sent'[Server(c)] = sent[Server(c)], Answered(c), Once(c),
           \A m \in Messages : Past(m) => Past(m)'
    PROVE  Answered(c)' /\ Once(c)' /\ \A m : Has(c, m)' <=> Has(c, m)
<1>1. sent[Server(c)] \in Seq(Messages)
  BY Pair DEF Sending
<1>2. \A j \in DOMAIN sent[Server(c)] : sent[Server(c)][j] \in Messages
  BY <1>1
<1>3. Once(c)' /\ \A m : Has(c, m)' <=> Has(c, m)
  BY DEF Once, Has
<1>4. Answered(c)'
  BY <1>2 DEF Answered
<1> QED
  BY <1>3, <1>4

\* A message that is new to a side is sent to it once.
LEMMA AnsweredMore ==
    ASSUME Sending, NEW c \in Clients, NEW x \in Messages,
           sent'[Server(c)] = Append(sent[Server(c)], x), Answered(c), Once(c),
           ~Has(c, x), \A m \in Messages : Past(m) => Past(m)',
           Past(x)' \/ (x.kind = "ServerAccept" /\ sent[Server(c)] = <<>>)
    PROVE  Answered(c)' /\ Once(c)' /\ \A m : Has(c, m)' <=> Has(c, m) \/ m = x
<1> DEFINE s == sent[Server(c)]
           t == sent'[Server(c)]
           n == Len(s) + 1
<1>1. s \in Seq(Messages)
  BY Pair DEF Sending
<1>2. /\ Len(s) \in Nat /\ DOMAIN s = 1..Len(s) /\ DOMAIN t = 1..n
      /\ \A j \in 1..Len(s) : t[j] = s[j] /\ s[j] \in Messages
      /\ t[n] = x
  BY <1>1
<1>3. \A j \in DOMAIN s : s[j] # x
  BY DEF Has
<1>4. \A j \in DOMAIN s : \/ j = 1 /\ s[j].kind = "ServerAccept"
                          \/ Past(s[j])
  BY DEF Answered
<1>5. \A i, j \in DOMAIN s : s[i] = s[j] => i = j
  BY DEF Once
<1>6. s = <<>> => n = 1
  BY <1>2
<1>7. Behind(x, messagesIn', received') \/ (x.kind = "ServerAccept" /\ s = <<>>)
  BY DEF Past
<1>8. Once(c)' <=> \A i, j \in DOMAIN t : t[i] = t[j] => i = j
  BY DEF Once
<1>9. Answered(c)' <=> \A j \in DOMAIN t : \/ j = 1 /\ t[j].kind = "ServerAccept"
                                           \/ Behind(t[j], messagesIn', received')
  BY DEF Answered, Past
<1>10. \A m : /\ Has(c, m)' <=> \E j \in DOMAIN t : t[j] = m
              /\ Has(c, m) <=> \E j \in DOMAIN s : s[j] = m
  BY DEF Has
<1> HIDE DEF s, t
<1>11. Once(c)'
  BY <1>2, <1>3, <1>5, <1>8
<1>12. Answered(c)'
  <2>1. ASSUME NEW j \in DOMAIN t
        PROVE  \/ j = 1 /\ t[j].kind = "ServerAccept"
               \/ Behind(t[j], messagesIn', received')
    <3>1. CASE j \in 1..Len(s)
      <4>1. t[j] = s[j] /\ s[j] \in Messages /\ j \in DOMAIN s
        BY <1>2, <3>1
      <4>2. Past(s[j]) => Behind(s[j], messagesIn', received')
        BY <4>1 DEF Past
      <4> QED
        BY <1>4, <4>1, <4>2
    <3>2. CASE j = n
      <4>1. t[j] = x
        BY <1>2, <3>2
      <4> QED
        BY <1>6, <1>7, <3>2, <4>1
    <3> QED
      BY <1>2, <3>1, <3>2
  <2> QED
    BY <1>9, <2>1
<1>13. \A m : Has(c, m)' <=> Has(c, m) \/ m = x
  <2>1. ASSUME NEW m
        PROVE  (\E j \in DOMAIN t : t[j] = m) <=> (\E j \in DOMAIN s : s[j] = m) \/ m = x
    BY <1>2
  <2> QED
    BY <1>10, <2>1
<1> QED
  BY <1>11, <1>12, <1>13

LEMMA SidesOn ==
    ASSUME Sending, Settling, NEW c \in Clients, sent'[Server(c)] = sent[Server(c)],
           \A m \in Messages : Past(m) => Past(m)',
           socket'[Server(c)] = "none" => socket[Server(c)] = "none",
           socket[Server(c)] = "closed" => socket'[Server(c)] = "closed",
           UNCHANGED <<connections, gone>>
    PROVE  /\ Answered(c)' /\ Once(c)' /\ Unknown(c)'
           /\ c \in gone' => socket'[Server(c)] = "closed"
<1>1. Answered(c)' /\ Once(c)'
  BY AnsweredOn DEF Settling
<1>2. Unknown(c)' /\ (c \in gone' => socket'[Server(c)] = "closed")
  BY DEF Settling, Unknown
<1> QED
  BY <1>1, <1>2

\* What sends nothing and does not touch the list or the broadcast.
LEMMA SettlingOn ==
    ASSUME Inv, Sending, Framing, Lists, Settling, Inv', More,
           \A k \in DOMAIN messagesIn' : Heads(k), Queued', InOrder',
           \A c \in Clients : /\ sent'[Server(c)] = sent[Server(c)]
                              /\ socket'[Server(c)] = "none" => socket[Server(c)] = "none"
                              /\ socket[Server(c)] = "closed" => socket'[Server(c)] = "closed",
           UNCHANGED <<connections, broadcast, gone>>
    PROVE  Settling'
<1>1. \A m \in Messages : Past(m) => Past(m)'
  BY PastOn
<1>2. \A c \in Clients : /\ Answered(c)' /\ Once(c)' /\ Unknown(c)'
                         /\ c \in gone' => socket'[Server(c)] = "closed"
  BY <1>1, SidesOn
<1>3. \A c \in Clients : \A m : Has(c, m)' <=> Has(c, m)
  BY DEF Has
<1>4. Distinct'
  BY DEF Settling, Distinct
<1>5. ASSUME broadcast'.msg # None
      PROVE  Ongoing' /\ NotYet' /\ Visited'
  <2>1. /\ broadcast.msg \in Messages /\ Ongoing /\ NotYet /\ Visited
        /\ \A i \in DOMAIN connections : connections[i] # None => connections[i] \in Clients
    BY <1>5 DEF Settling, Inv, Types, Lists
  <2>2. Ongoing'
    BY <1>1, <2>1 DEF Ongoing
  <2>3. NotYet'
    BY <1>3, <2>1 DEF NotYet
  <2>4. Visited'
    BY <1>3, <2>1 DEF Visited
  <2> QED
    BY <2>2, <2>3, <2>4
<1> QED
  BY <1>2, <1>4, <1>5 DEF Settling

LEMMA QuietSettling ==
    ASSUME Inv, Sending, Framing, Lists, Settling, Inv', UNCHANGED messagesIn,
           \A c \in Clients : /\ received'[Server(c)] = received[Server(c)]
                              /\ sent'[Server(c)] = sent[Server(c)]
                              /\ socket'[Server(c)] = "none" => socket[Server(c)] = "none"
                              /\ socket[Server(c)] = "closed" => socket'[Server(c)] = "closed",
           UNCHANGED <<connections, broadcast, gone>>
    PROVE  Settling'
<1>1. More /\ \A k \in DOMAIN messagesIn' : Heads(k)
  BY DEF More, Heads
<1>2. InOrder'
  BY DEF Settling, InOrder
<1>3. Queued'
  <2>1. \A i \in DOMAIN messagesIn : messagesIn[i] \in Owned
    BY DEF Inv, Types
  <2>2. \A i \in DOMAIN messagesIn : messagesIn[i].remote \in Clients
    BY <2>1 DEF Owned
  <2> QED
    BY <2>2 DEF Settling, Queued
<1> QED
  BY <1>1, <1>2, <1>3, SettlingOn

\* The next message of a client is queued.
LEMMA IncomingSettling ==
    ASSUME Inv, Sending, Framing, Lists, Settling, Inv', Heard',
           NEW x \in Clients, NEW m \in Messages, AddIncomingMessageQueue(Server(x), m),
           UNCHANGED <<socket, sent, connections, broadcast, gone>>
    PROVE  Settling'
<1> DEFINE e == Server(x)
           q == [remote |-> x, msg |-> m]
           n == Len(messagesIn)
           l == Len(received[e])
<1>1. e \in Ends /\ e[1] = x /\ e[2] = "server"
  BY Pair
<1>2. /\ messagesIn \in Seq(Owned) /\ messagesIn' = Append(messagesIn, q)
      /\ received[e] \in Seq(Messages) /\ received'[e] = Append(received[e], m)
      /\ \A f \in Ends \ {e} : received'[f] = received[f]
  BY <1>1 DEF AddIncomingMessageQueue, Inv, Types, Framing
<1> HIDE DEF e
<1>3. /\ l \in Nat /\ Len(received'[e]) = l + 1
      /\ l + 1 \in DOMAIN received'[e] /\ received'[e][l + 1] = m
  BY <1>2
<1>4. m.from = x /\ m.number = l + 1 /\ m.kind \in {"ServerPing", "MessageAll"}
  <2>1. FromClient(received'[e][l + 1], x, l + 1)
    BY <1>3 DEF Heard, e
  <2> QED
    BY <1>3, <2>1 DEF FromClient
<1>5. /\ n \in Nat /\ DOMAIN messagesIn = 1..n /\ DOMAIN messagesIn' = 1..(n + 1)
      /\ messagesIn'[n + 1] = q
      /\ \A i \in 1..n : messagesIn'[i] = messagesIn[i]
  BY <1>2
<1> HIDE DEF n, l
<1>6. More
  <2>1. \A c \in Clients : Server(c) \in Ends
    BY Pair
  <2> QED
    BY <1>2, <1>3, <2>1 DEF More, l
<1>7. ASSUME NEW k \in DOMAIN messagesIn'
      PROVE  Heads(k)
  <2>1. CASE k \in 1..n
    BY <1>5, <2>1 DEF Heads
  <2>2. CASE k = n + 1
    <3>1. messagesIn'[k].msg.number = l + 1 /\ messagesIn'[k].remote = x
      BY <1>4, <1>5, <2>2
    <3>2. l + 1 > l
      BY <1>3
    <3> QED
      BY <3>1, <3>2 DEF Heads, l, e
  <2> QED
    BY <1>5, <2>1, <2>2
<1>8. ASSUME NEW i \in 1..n
      PROVE  /\ messagesIn[i].remote \in Clients /\ messagesIn[i].msg.number \in Nat
             /\ messagesIn[i].msg.from = messagesIn[i].remote
             /\ messagesIn[i].msg.kind \in {"ServerPing", "MessageAll"}
             /\ messagesIn[i].msg.number <= Len(received[Server(messagesIn[i].remote)])
             /\ Len(received[Server(messagesIn[i].remote)]) \in Nat
  <2>1. i \in DOMAIN messagesIn /\ messagesIn[i] \in Owned
    BY <1>2, <1>5
  <2>2. messagesIn[i].remote \in Clients /\ messagesIn[i].msg.number \in Nat
    BY <2>1, MessageNumber DEF Owned
  <2>3. Len(received[Server(messagesIn[i].remote)]) \in Nat
    BY <2>2, Pair DEF Framing
  <2> QED
    BY <2>1, <2>2, <2>3 DEF Settling, Queued
<1>9. Queued'
  <2>1. ASSUME NEW i \in 1..n
        PROVE  Len(received[Server(messagesIn[i].remote)])
                   <= Len(received'[Server(messagesIn[i].remote)])
    BY <1>6, <1>8 DEF More
  <2>2. ASSUME NEW i \in 1..n
        PROVE  messagesIn[i].msg.number <= Len(received'[Server(messagesIn[i].remote)])
    <3>1. Len(received'[Server(messagesIn[i].remote)]) \in Nat
      BY <1>6, <1>8 DEF More
    <3> QED
      BY <1>8, <2>1, <3>1
  <2>3. m.number <= Len(received'[Server(x)])
    BY <1>3, <1>4 DEF e
  <2>4. ASSUME NEW i \in DOMAIN messagesIn'
        PROVE  /\ messagesIn'[i].msg.from = messagesIn'[i].remote
               /\ messagesIn'[i].msg.kind \in {"ServerPing", "MessageAll"}
               /\ messagesIn'[i].msg.number <= Len(received'[Server(messagesIn'[i].remote)])
    <3>1. CASE i \in 1..n
      BY <1>5, <1>8, <2>2, <3>1
    <3>2. CASE i = n + 1
      BY <1>4, <1>5, <2>3, <3>2
    <3> QED
      BY <1>5, <3>1, <3>2
  <2> QED
    BY <2>4 DEF Queued
<1>10. InOrder'
  <2>1. ASSUME NEW i \in DOMAIN messagesIn', NEW j \in DOMAIN messagesIn', i < j,
               messagesIn'[i].remote = messagesIn'[j].remote
        PROVE  messagesIn'[i].msg.number < messagesIn'[j].msg.number
    <3>1. i \in 1..n /\ messagesIn'[i] = messagesIn[i]
      BY <1>5, <2>1
    <3>2. CASE j \in 1..n
      BY <1>5, <2>1, <3>1, <3>2 DEF Settling, InOrder
    <3>3. CASE j = n + 1
      <4>1. messagesIn[i].remote = x /\ messagesIn'[j].msg.number = l + 1
        BY <1>4, <1>5, <2>1, <3>1, <3>3
      <4>2. messagesIn[i].msg.number <= l
        BY <1>8, <3>1, <4>1 DEF l, e
      <4> QED
        BY <1>3, <1>8, <3>1, <4>1, <4>2
    <3> QED
      BY <1>5, <3>2, <3>3
  <2> QED
    BY <2>1 DEF InOrder
<1> QED
  BY <1>6, <1>7, <1>9, <1>10, SettlingOn

LEMMA ReadsSettling ==
    ASSUME Inv, Sending, Framing, Lists, Settling, Inv', Heard', NEW e \in Ends,
           ReadHeader(e) \/ ReadBody(e)
    PROVE  Settling'
<1>1. UNCHANGED <<socket, sent, connections, broadcast, gone>>
  BY DEF ReadHeader, ReadBody, mains
<1>2. \/ UNCHANGED <<messagesIn, received>>
      \/ \E m \in Messages : AddIncomingMessageQueue(e, m)
  <2>1. CASE ReadHeader(e)
    <3>1. wire[e] # <<>> /\ wire[e] \in Seq(Units)
      BY <2>1 DEF ReadHeader, Arrives, Inv, Types
    <3>2. Head(wire[e])[2] \in Messages
      BY <3>1 DEF Units
    <3> QED
      BY <2>1, <3>2 DEF ReadHeader
  <2>2. CASE ReadBody(e)
    <3>1. reading[e] \in Reads /\ reading[e].part = "body"
      BY <2>2 DEF ReadBody, Arrives, Inv, Types
    <3>2. reading[e].msgTempIn \in Messages
      BY <3>1 DEF Reads
    <3> QED
      BY <2>2, <3>2 DEF ReadBody
  <2> QED
    BY <2>1, <2>2
<1>3. CASE UNCHANGED <<messagesIn, received>>
  BY <1>1, <1>3, QuietSettling
<1>4. ASSUME NEW m \in Messages, AddIncomingMessageQueue(e, m)
      PROVE  Settling'
  <2>1. e[1] \in Clients /\ (e[2] = "server" => e = Server(e[1]))
    BY EndFacts
  <2>2. CASE e[2] = "server"
    BY <1>1, <1>4, <2>1, <2>2, IncomingSettling
  <2>3. CASE e[2] # "server"
    <3>1. UNCHANGED messagesIn /\ \A f \in Ends \ {e} : received'[f] = received[f]
      BY <1>4, <2>3, IncomingFraming DEF AddIncomingMessageQueue
    <3>2. \A c \in Clients : Server(c) \in Ends /\ Server(c) # e
      BY <2>3, Pair
    <3>3. \A c \in Clients : received'[Server(c)] = received[Server(c)]
      BY <3>1, <3>2
    <3> QED
      BY <1>1, <3>1, <3>3, QuietSettling
  <2> QED
    BY <2>2, <2>3
<1> QED
  BY <1>2, <1>3, <1>4

\* The other handlers, and all that does not send, keep to their end.
LEMMA HandlerSettling ==
    ASSUME Inv, Sending, Framing, Lists, Settling, Inv', Heard', NEW e \in Ends, Handler(e)
    PROVE  Settling'
<1>1. CASE ReadHeader(e) \/ ReadBody(e)
  BY <1>1, ReadsSettling
<1>2. CASE ~(ReadHeader(e) \/ ReadBody(e))
  <2>1. UNCHANGED <<messagesIn, received, sent, connections, broadcast, gone>>
    BY <1>2 DEF Handler, Send, WriteHeader, WriteBody, WriteValidation, WriteFails,
       ServerReadValidation, ClientReadValidation, ReadFails, mains, history
  <2>2. socket' = socket \/ socket' = [socket EXCEPT ![e] = "closed"]
    BY <1>2 DEF Handler, Send, WriteHeader, WriteBody, WriteValidation, WriteFails,
       ServerReadValidation, ClientReadValidation, ReadFails, Close
  <2>3. \A c \in Clients : /\ Server(c) \in Ends
                           /\ socket'[Server(c)] = "none" => socket[Server(c)] = "none"
                           /\ socket[Server(c)] = "closed" => socket'[Server(c)] = "closed"
    BY <2>2, Pair DEF Inv, Types
  <2> QED
    BY <2>1, <2>3, QuietSettling
<1> QED
  BY <1>1, <1>2

LEMMA ClientSettling ==
    ASSUME Inv, Sending, Framing, Lists, Settling, Inv', NEW c \in Clients,
           \/ ConnectToServer(c) \/ RunsLate(c) \/ HandleIncoming(c) \/ Leave(c)
           \/ \E kind \in {"ServerPing", "MessageAll"} : SendToServer(c, kind)
    PROVE  Settling'
<1>1. Client(c) \in Ends /\ \A x \in Clients : Server(x) \in Ends /\ Server(x) # Client(c)
  BY Pair, EndFacts
<1>2. UNCHANGED <<messagesIn, received, connections, broadcast, gone>>
  BY DEF ConnectToServer, RunsLate, HandleIncoming, Leave, SendToServer, mains, history
<1>3. sent' = sent \/ \E m : sent' = [sent EXCEPT ![Client(c)] = Append(@, m)]
  BY DEF ConnectToServer, RunsLate, HandleIncoming, Leave, SendToServer, history, Post
<1>4. socket' = socket \/ \E s : socket' = [socket EXCEPT ![Client(c)] = s]
  BY DEF ConnectToServer, RunsLate, HandleIncoming, Leave, SendToServer, wires, Close
<1>5. \A x \in Clients : sent'[Server(x)] = sent[Server(x)] /\ socket'[Server(x)] = socket[Server(x)]
  BY <1>1, <1>3, <1>4 DEF Inv, Types, Sending
<1> QED
  BY <1>2, <1>5, QuietSettling

(* The message at the head, as it is sent on: nobody was sent it yet, and  *)
(* it comes before those that are left.                                    *)
LEMMA HeadTaken ==
    ASSUME Inv, Sending, Framing, Settling, Inv', messagesIn # <<>>,
           messagesIn' = Tail(messagesIn), UNCHANGED received
    PROVE  /\ Head(messagesIn) \in Owned
           /\ Head(messagesIn).msg.from = Head(messagesIn).remote
           /\ More /\ Queued' /\ InOrder' /\ \A k \in DOMAIN messagesIn' : Heads(k)
           /\ \A x \in Messages :
                  /\ x.from = Head(messagesIn).msg.from
                  /\ x.number = Head(messagesIn).msg.number
                  /\ x.kind \in {"ServerPing", "ServerMessage"}
                  => /\ Behind(x, messagesIn', received')
                     /\ \A c \in Clients : ~Has(c, x)
<1> DEFINE q == Head(messagesIn)
           n == Len(messagesIn)
<1>1. messagesIn \in Seq(Owned)
  BY DEF Inv, Types
<1>2. /\ n \in Nat \ {0} /\ DOMAIN messagesIn = 1..n /\ DOMAIN messagesIn' = 1..(n - 1)
      /\ q = messagesIn[1] /\ \A i \in 1..n : messagesIn[i] \in Owned
      /\ \A i \in 1..(n - 1) : i + 1 \in 1..n /\ messagesIn'[i] = messagesIn[i + 1]
  BY <1>1
<1> HIDE DEF q, n
<1>3. \A i \in 1..n : LET p == messagesIn[i] IN
          /\ p.msg.from = p.remote /\ p.msg.kind \in {"ServerPing", "MessageAll"}
          /\ p.msg.number <= Len(received[Server(p.remote)])
          /\ p.remote \in Clients /\ p.msg \in Messages
  BY <1>2 DEF Settling, Queued, Owned
<1>4. \A i, j \in 1..n : i < j /\ messagesIn[i].remote = messagesIn[j].remote
          => messagesIn[i].msg.number < messagesIn[j].msg.number
  BY <1>2 DEF Settling, InOrder
<1>5. Queued'
  BY <1>2, <1>3 DEF Queued
<1>6. InOrder'
  <2>1. ASSUME NEW i \in 1..(n - 1), NEW j \in 1..(n - 1), i < j,
               messagesIn'[i].remote = messagesIn'[j].remote
        PROVE  messagesIn'[i].msg.number < messagesIn'[j].msg.number
    <3>1. i + 1 < j + 1
      BY <2>1
    <3> QED
      BY <1>2, <1>4, <2>1, <3>1
  <2> QED
    BY <1>2, <2>1 DEF InOrder
<1>7. More /\ \A k \in DOMAIN messagesIn' : Heads(k)
  BY <1>2 DEF More, Heads
<1>8. ASSUME NEW x \in Messages, x.from = q.msg.from, x.number = q.msg.number,
             x.kind \in {"ServerPing", "ServerMessage"}
      PROVE  Behind(x, messagesIn', received') /\ \A c \in Clients : ~Has(c, x)
  <2>1. x.from = q.remote /\ x.number <= Len(received[Server(q.remote)]) /\ 1 \in 1..n
    BY <1>2, <1>3, <1>8
  <2>2. ASSUME NEW i \in 1..(n - 1), messagesIn'[i].remote = x.from
        PROVE  x.number < messagesIn'[i].msg.number
    <3>1. 1 < i + 1
      BY <2>2
    <3> QED
      BY <1>2, <1>4, <1>8, <2>1, <2>2, <3>1
  <2>3. Behind(x, messagesIn', received')
    BY <1>2, <1>8, <2>1, <2>2 DEF Behind
  <2>4. ASSUME NEW c \in Clients, NEW j \in DOMAIN sent[Server(c)], sent[Server(c)][j] = x
        PROVE  FALSE
    <3>1. Past(x)
      BY <1>8, <2>4 DEF Settling, Answered
    <3>2. x.number < messagesIn[1].msg.number
      BY <1>2, <2>1, <3>1 DEF Past, Behind
    <3>3. x.number \in Nat
      BY MessageNumber
    <3> QED
      BY <1>2, <1>8, <3>2, <3>3
  <2> QED
    BY <2>3, <2>4 DEF Has
<1>9. q \in Owned /\ q.msg.from = q.remote
  BY <1>2, <1>3
<1> QED
  BY <1>5, <1>6, <1>7, <1>8, <1>9 DEF q

LEMMA BouncePingSettling ==
    ASSUME Inv, Sending, Framing, Lists, Settling, Inv', BouncePing
    PROVE  Settling'
<1>1. /\ broadcast.msg = None /\ messagesIn # <<>> /\ messagesIn' = Tail(messagesIn)
      /\ Head(messagesIn).msg.kind = "ServerPing"
      /\ Post(Server(Head(messagesIn).remote), Head(messagesIn).msg)
      /\ UNCHANGED <<socket, received, connections, broadcast, gone>>
  BY DEF BouncePing, mains
<1>2. /\ Head(messagesIn) \in Owned /\ Queued' /\ InOrder' /\ More
      /\ \A k \in DOMAIN messagesIn' : Heads(k)
  BY <1>1, HeadTaken
<1> PICK x \in Messages, d \in Clients : x = Head(messagesIn).msg /\ d = Head(messagesIn).remote
  BY <1>2 DEF Owned
<1>3. Post(Server(d), x) /\ Past(x)' /\ \A c \in Clients : ~Has(c, x)
  BY <1>1, HeadTaken DEF Past
<1>4. /\ sent'[Server(d)] = Append(sent[Server(d)], x)
      /\ \A c \in Clients \ {d} : sent'[Server(c)] = sent[Server(c)]
  <2>1. \A c \in Clients : Server(c) \in Ends /\ (c # d => Server(c) # Server(d))
    BY Pair DEF Server
  <2> QED
    BY <1>2, <1>3, <2>1 DEF Post, Sending
<1>5. \A m \in Messages : Past(m) => Past(m)'
  BY <1>2, PastOn
<1>6. Answered(d)' /\ Once(d)'
  BY <1>3, <1>4, <1>5, AnsweredMore DEF Settling
<1>7. \A c \in Clients \ {d} : Answered(c)' /\ Once(c)'
  BY <1>4, <1>5, AnsweredOn DEF Settling
<1>8. socket[Server(d)] # "none"
  <2>1. 1 \in DOMAIN messagesIn /\ messagesIn[1].remote = d
    BY <1>1 DEF Inv, Types
  <2> QED
    BY <2>1 DEF Inv, RemotesUsed
<1>9. \A c \in Clients : Unknown(c)' /\ (c \in gone' => socket'[Server(c)] = "closed")
  BY <1>1, <1>4, <1>8 DEF Settling, Unknown
<1>10. Distinct'
  BY <1>1 DEF Settling, Distinct
<1> QED
  BY <1>1, <1>2, <1>6, <1>7, <1>9, <1>10 DEF Settling

LEMMA MessageAllClientsSettling ==
    ASSUME Inv, Sending, Framing, Lists, Settling, Inv', MessageAllClients
    PROVE  Settling'
<1>1. /\ messagesIn # <<>> /\ messagesIn' = Tail(messagesIn)
      /\ gone' = {c \in Clients : socket[Server(c)] = "closed"}
      /\ UNCHANGED <<socket, sent, received, connections>>
  BY DEF MessageAllClients, wires
<1>2. /\ Head(messagesIn) \in Owned /\ Queued' /\ InOrder' /\ More
      /\ \A k \in DOMAIN messagesIn' : Heads(k)
  BY <1>1, HeadTaken
<1>3. [Head(messagesIn).msg EXCEPT !.kind = "ServerMessage"] \in Messages
  BY <1>2 DEF Owned, Messages, Kinds
<1> PICK x \in Messages : x = [Head(messagesIn).msg EXCEPT !.kind = "ServerMessage"]
  BY <1>3
<1>4. /\ broadcast'.msg = x /\ broadcast'.next = 1 /\ broadcast'.end = Len(connections)
  BY DEF MessageAllClients
<1>5. x.kind = "ServerMessage" /\ Past(x)' /\ \A c \in Clients : ~Has(c, x)
  <2>1. /\ x.from = Head(messagesIn).msg.from /\ x.number = Head(messagesIn).msg.number
        /\ x.kind = "ServerMessage"
    BY <1>2 DEF Owned, Messages
  <2> QED
    BY <1>1, <2>1, HeadTaken DEF Past
<1>6. \A m \in Messages : Past(m) => Past(m)'
  BY <1>2, PastOn
<1>7. \A c \in Clients : Answered(c)' /\ Once(c)' /\ \A m : Has(c, m)' <=> Has(c, m)
  BY <1>1, <1>6, AnsweredOn DEF Settling
<1>8. \A c \in Clients : Unknown(c)' /\ (c \in gone' => socket'[Server(c)] = "closed")
  BY <1>1 DEF Settling, Unknown
<1>9. Distinct'
  BY <1>1 DEF Settling, Distinct
<1>10. Len(connections) \in Nat /\ \A i \in DOMAIN connections : connections[i] \in Clients \cup {None}
  BY DEF Lists
<1>11. Ongoing'
  BY <1>4, <1>5 DEF Ongoing, Past
<1>12. NotYet'
  BY <1>1, <1>4, <1>5, <1>7, <1>10 DEF NotYet
<1>13. Visited'
  <2>1. \A i \in DOMAIN connections : ~(i < 1)
    BY <1>10 DEF Lists
  <2> QED
    BY <1>1, <1>4, <2>1 DEF Visited
<1>14. /\ broadcast'.next \in Nat \ {0} /\ broadcast'.end \in Nat /\ gone' \subseteq Clients
       /\ broadcast'.end <= Len(connections')
  BY <1>1, <1>4, <1>10
<1> QED
  BY <1>2, <1>7, <1>8, <1>9, <1>11, <1>12, <1>13, <1>14 DEF Settling

LEMMA VisitSettling ==
    ASSUME Inv, Sending, Framing, Lists, Settling, Inv', Visit
    PROVE  Settling'
<1>1. PICK x \in Messages, n \in Nat \ {0}, d \in Clients \cup {None} :
          x = broadcast.msg /\ n = broadcast.next /\ d = connections[n] /\ n \in DOMAIN connections
  <2>1. /\ broadcast.msg \in Messages /\ broadcast.next \in Nat \ {0}
        /\ broadcast.end \in Nat /\ broadcast.next <= broadcast.end
        /\ broadcast.end <= Len(connections) /\ connections \in Seq(Clients \cup {None})
    BY DEF Visit, Settling, Inv, Types, Lists
  <2>2. broadcast.next \in DOMAIN connections
    BY <2>1
  <2> QED
    BY <2>1, <2>2
<1>2. /\ UNCHANGED <<socket, messagesIn, received, gone>>
      /\ broadcast'.msg = x /\ broadcast'.next = n + 1 /\ broadcast'.end = broadcast.end
      /\ \/ IsConnected(Server(d)) /\ Post(Server(d), x) /\ UNCHANGED connections
         \/ /\ ~IsConnected(Server(d)) /\ UNCHANGED sent
            /\ connections' = [connections EXCEPT ![n] = None]
  BY <1>1 DEF Visit, Sending
<1>3. /\ Ongoing /\ NotYet /\ Visited /\ x # None
      /\ broadcast.end <= Len(connections) /\ broadcast.end \in Nat
  BY <1>1 DEF Settling, Visit
<1>4. More /\ \A k \in DOMAIN messagesIn' : Heads(k)
  BY <1>2 DEF More, Heads
<1>5. \A m \in Messages : Past(m) => Past(m)'
  BY <1>4, PastOn
<1>6. Queued' /\ InOrder'
  BY <1>2 DEF Settling, InOrder, Queued
<1>7. Past(x)' /\ x.kind = "ServerMessage" /\ Ongoing'
  BY <1>1, <1>2, <1>3, <1>5 DEF Ongoing
<1>8. connections \in Seq(Clients \cup {None})
  BY DEF Lists
<1>9. /\ broadcast'.next \in Nat \ {0} /\ broadcast'.end \in Nat /\ gone' \subseteq Clients
  BY <1>1, <1>2, <1>3 DEF Settling
<1>10. CASE d \in Clients /\ IsConnected(Server(d)) /\ Post(Server(d), x) /\ UNCHANGED connections
  <2>1. /\ sent'[Server(d)] = Append(sent[Server(d)], x)
        /\ \A c \in Clients \ {d} : sent'[Server(c)] = sent[Server(c)]
    <3>1. \A c \in Clients : Server(c) \in Ends /\ (c # d => Server(c) # Server(d))
      BY Pair DEF Server
    <3> QED
      BY <1>10, <3>1 DEF Post, Sending
  <2>2. d # None /\ ~Has(d, x)
    BY <1>1, <1>3, <1>10, AsioAssumption DEF NotYet, AsioAssumption
  <2>3. Answered(d)' /\ Once(d)' /\ \A m : Has(d, m)' <=> Has(d, m) \/ m = x
    BY <1>5, <1>7, <1>10, <2>1, <2>2, AnsweredMore DEF Settling
  <2>4. \A c \in Clients \ {d} : Answered(c)' /\ Once(c)' /\ \A m : Has(c, m)' <=> Has(c, m)
    BY <1>5, <2>1, AnsweredOn DEF Settling
  <2>5. \A c \in Clients : Unknown(c)' /\ (c \in gone' => socket'[Server(c)] = "closed")
    BY <1>2, <1>10, <2>1 DEF Settling, Unknown, IsConnected
  <2>6. Distinct'
    BY <1>10 DEF Settling, Distinct
  <2>7. NotYet'
    <3>1. ASSUME NEW i \in DOMAIN connections, i >= n + 1, connections[i] # None
          PROVE  ~Has(connections[i], x)'
      <4>1. i # n /\ i >= n /\ connections[i] \in Clients
        BY <1>1, <1>8, <3>1
      <4>2. connections[i] # d
        BY <1>1, <2>2, <3>1, <4>1 DEF Settling, Distinct
      <4>3. ~Has(connections[i], x)
        BY <1>1, <1>3, <3>1, <4>1 DEF NotYet
      <4> QED
        BY <1>10, <2>4, <4>1, <4>2, <4>3
    <3> QED
      BY <1>2, <1>10, <3>1 DEF NotYet
  <2>8. Visited'
    <3>1. ASSUME NEW i \in DOMAIN connections, i < n + 1, i <= broadcast.end, connections[i] # None
          PROVE  connections[i] \notin gone /\ Has(connections[i], x)'
      <4>1. connections[i] \in Clients /\ i \in Nat
        BY <1>8, <3>1
      <4>2. CASE i = n
        <5>1. connections[i] = d /\ d \notin gone
          BY <1>1, <1>10, <4>2 DEF Settling, IsConnected
        <5> QED
          BY <1>10, <2>3, <5>1
      <4>3. CASE i < n
        <5>1. connections[i] \notin gone /\ Has(connections[i], x)
          BY <1>1, <1>3, <3>1, <4>3 DEF Visited
        <5> QED
          BY <1>10, <2>3, <2>4, <4>1, <5>1
      <4> QED
        BY <1>1, <3>1, <4>1, <4>2, <4>3
    <3> QED
      BY <1>2, <1>10, <3>1 DEF Visited
  <2> QED
    BY <1>2, <1>3, <1>6, <1>7, <1>9, <1>10, <2>3, <2>4, <2>5, <2>6, <2>7, <2>8 DEF Settling
<1>11. CASE /\ \A c \in Clients : sent'[Server(c)] = sent[Server(c)]
            /\ \A i \in DOMAIN connections \ {n} : connections'[i] = connections[i]
            /\ DOMAIN connections' = DOMAIN connections /\ Len(connections') = Len(connections)
            /\ connections'[n] = None
  <2>1. \A c \in Clients : Answered(c)' /\ Once(c)' /\ \A m : Has(c, m)' <=> Has(c, m)
    BY <1>5, <1>11, AnsweredOn DEF Settling
  <2>2. \A c \in Clients : Unknown(c)' /\ (c \in gone' => socket'[Server(c)] = "closed")
    BY <1>2, <1>11, AsioAssumption DEF Settling, Unknown, AsioAssumption
  <2>3. Distinct'
    BY <1>11 DEF Settling, Distinct
  <2>4. NotYet'
    <3>1. ASSUME NEW i \in DOMAIN connections', i >= n + 1, connections'[i] # None
          PROVE  \E c \in Clients : c = connections'[i] /\ ~Has(c, x)'
      <4>1. i >= n /\ connections'[i] = connections[i] /\ connections[i] \in Clients
        BY <1>1, <1>8, <1>11, <3>1
      <4>2. ~Has(connections[i], x)
        BY <1>1, <1>3, <1>11, <3>1, <4>1 DEF NotYet
      <4> QED
        BY <2>1, <4>1, <4>2
    <3> QED
      BY <1>2, <3>1 DEF NotYet, Has
  <2>5. Visited'
    <3>1. ASSUME NEW i \in DOMAIN connections', i < n + 1, i <= broadcast.end, connections'[i] # None
          PROVE  \E c \in Clients : c = connections'[i] /\ c \notin gone /\ Has(c, x)'
      <4>1. i \in Nat /\ i < n /\ connections'[i] = connections[i] /\ connections[i] \in Clients
        BY <1>1, <1>8, <1>11, <3>1
      <4>2. connections[i] \notin gone /\ Has(connections[i], x)
        BY <1>1, <1>3, <1>11, <3>1, <4>1 DEF Visited
      <4> QED
        BY <2>1, <4>1, <4>2
    <3> QED
      BY <1>2, <3>1 DEF Visited, Has
  <2> QED
    BY <1>2, <1>3, <1>6, <1>7, <1>9, <1>11, <2>1, <2>2, <2>3, <2>4, <2>5 DEF Settling
<1>12. CASE ~IsConnected(Server(d))
  BY <1>1, <1>2, <1>8, <1>11, <1>12
<1>13. CASE d = None /\ Post(Server(d), x) /\ UNCHANGED connections
  <2>1. \A c \in Clients : Server(c) # Server(d)
    BY <1>13, AsioAssumption DEF Server, AsioAssumption
  <2>2. \A c \in Clients : sent'[Server(c)] = sent[Server(c)]
    BY <1>13, <2>1, Pair DEF Post, Sending
  <2> QED
    BY <1>1, <1>8, <1>11, <1>13, <2>2
<1> QED
  BY <1>1, <1>2, <1>10, <1>12, <1>13

LEMMA PickedFrom ==
    ASSUME NEW S, IsFiniteSet(S), S \subseteq Nat, NEW s
    PROVE  /\ \A j \in DOMAIN Pick(s, S) : \E i \in S : s[i] = Pick(s, S)[j]
           /\ (\A i, k \in S : s[i] = s[k] => i = k)
                 => \A j, l \in DOMAIN Pick(s, S) : Pick(s, S)[j] = Pick(s, S)[l] => j = l
<1> DEFINE at(j) == CHOOSE i \in S : Rank(S, i) = j
<1>1. \A j \in 1..Cardinality(S) : at(j) \in S /\ Rank(S, at(j)) = j
  BY Ranks
<1>2. /\ DOMAIN Pick(s, S) = 1..Cardinality(S)
      /\ \A j \in 1..Cardinality(S) : Pick(s, S)[j] = s[at(j)]
  BY DEF Pick
<1> DEFINE t == Pick(s, S)
           n == Cardinality(S)
<1> HIDE DEF at, t, n
<1>3. \A j \in DOMAIN t : \E i \in S : s[i] = t[j]
  BY <1>1, <1>2 DEF t, n
<1>4. ASSUME \A i, k \in S : s[i] = s[k] => i = k, NEW j \in DOMAIN t, NEW l \in DOMAIN t, t[j] = t[l]
      PROVE  j = l
  <2>1. at(j) \in S /\ at(l) \in S /\ s[at(j)] = s[at(l)]
    BY <1>1, <1>2, <1>4 DEF t, n
  <2>2. at(j) = at(l)
    BY <1>4, <2>1
  <2>3. Rank(S, at(j)) = j /\ Rank(S, at(l)) = l
    BY <1>1, <1>2 DEF t, n
  <2> QED
    BY <2>2, <2>3
<1> QED
  BY <1>3, <1>4 DEF t

\* Erasing leaves no connection twice, and puts none into the list.
LEMMA WithoutDistinct ==
    ASSUME NEW D, NEW x, NEW s \in Seq(D),
           \A i, j \in DOMAIN s : s[i] = s[j] /\ s[i] # x => i = j
    PROVE  /\ \A j \in DOMAIN Without(s, x) : \E i \in DOMAIN s : s[i] = Without(s, x)[j]
           /\ \A i, j \in DOMAIN Without(s, x) : Without(s, x)[i] = Without(s, x)[j] => i = j
<1> DEFINE K == Kept(s, x)
           t == Pick(s, K)
<1>1. K \subseteq DOMAIN s /\ \A i \in K : s[i] # x
  BY DEF Kept
<1>2. IsFiniteSet(K) /\ K \subseteq Nat
  BY <1>1, KeptFinite
<1> HIDE DEF K
<1>3. \A j \in DOMAIN t : \E i \in K : s[i] = t[j]
  BY <1>2, PickedFrom
<1>4. \A i, j \in DOMAIN t : t[i] = t[j] => i = j
  <2>1. \A i, k \in K : s[i] = s[k] => i = k
    BY <1>1
  <2> QED
    BY <1>2, <2>1, PickedFrom
<1> HIDE DEF t
<1> QED
  BY <1>1, <1>3, <1>4 DEF Without, K, t

LEMMA EraseSettling ==
    ASSUME Inv, Sending, Framing, Lists, Settling, Inv', Erase
    PROVE  Settling'
<1>1. /\ connections' = Without(connections, None) /\ gone' = {}
      /\ broadcast'.msg = None /\ broadcast'.next = 1 /\ broadcast'.end = 0
      /\ UNCHANGED <<socket, messagesIn, sent, received>>
  BY DEF Erase, Silent, wires
<1>2. /\ \A j \in DOMAIN connections' : \E i \in DOMAIN connections : connections[i] = connections'[j]
      /\ \A i, j \in DOMAIN connections' : connections'[i] = connections'[j] => i = j
  BY <1>1, WithoutDistinct DEF Lists, Settling, Distinct
<1>3. More /\ \A k \in DOMAIN messagesIn' : Heads(k)
  BY <1>1 DEF More, Heads
<1>4. \A m \in Messages : Past(m) => Past(m)'
  BY <1>3, PastOn
<1>5. Queued' /\ InOrder'
  BY <1>1 DEF Settling, InOrder, Queued
<1>6. \A c \in Clients : Answered(c)' /\ Once(c)'
  BY <1>1, <1>4, AnsweredOn DEF Settling
<1>7. \A c \in Clients : Unknown(c)' /\ (c \in gone' => socket'[Server(c)] = "closed")
  BY <1>1, <1>2 DEF Settling, Unknown
<1>8. Distinct'
  BY <1>2 DEF Distinct
<1> QED
  BY <1>1, <1>5, <1>6, <1>7, <1>8 DEF Settling

\* A connection that is accepted meanwhile is behind the end of the loop.
LEMMA AcceptSettling ==
    ASSUME Inv, Sending, Framing, Lists, Settling, Inv', NEW d \in Clients,
           WaitForClientConnection(d)
    PROVE  Settling'
<1>1. PICK m \in Messages : m = Message("ServerAccept", d, 0)
  <2>1. Message("ServerAccept", d, 0) \in Messages
    BY AsioAssumption DEF Message, Messages, Kinds, AsioAssumption
  <2> QED
    BY <2>1
<1>2. m.kind = "ServerAccept"
  BY <1>1 DEF Message
<1>3. /\ socket[Server(d)] = "none" /\ socket' = [socket EXCEPT ![Server(d)] = "open"]
      /\ Post(Server(d), m) /\ connections' = Append(connections, d)
      /\ UNCHANGED <<messagesIn, broadcast, received, gone>>
  BY <1>1 DEF WaitForClientConnection
<1>4. \A c \in Clients : Server(c) \in Ends /\ (c # d => Server(c) # Server(d))
  BY Pair DEF Server
<1>5. /\ socket'[Server(d)] = "open" /\ sent'[Server(d)] = Append(sent[Server(d)], m)
      /\ \A c \in Clients \ {d} : /\ sent'[Server(c)] = sent[Server(c)]
                                  /\ socket'[Server(c)] = socket[Server(c)]
  BY <1>3, <1>4 DEF Post, Sending, Inv, Types
<1>6. sent[Server(d)] = <<>> /\ \A i \in DOMAIN connections : connections[i] # d
  BY <1>3 DEF Settling, Unknown
<1> DEFINE n == Len(connections)
<1>7. /\ n \in Nat /\ DOMAIN connections = 1..n /\ DOMAIN connections' = 1..(n + 1)
      /\ Len(connections') = n + 1 /\ connections'[n + 1] = d
      /\ \A i \in 1..n : connections'[i] = connections[i] /\ connections[i] \in Clients \cup {None}
  BY <1>3 DEF Lists
<1> HIDE DEF n
<1>8. More /\ \A k \in DOMAIN messagesIn' : Heads(k)
  BY <1>3 DEF More, Heads
<1>9. \A x \in Messages : Past(x) => Past(x)'
  BY <1>8, PastOn
<1>10. Queued' /\ InOrder'
  BY <1>3 DEF Settling, InOrder, Queued
<1>11. ~Has(d, m)
  BY <1>6 DEF Has
<1>12. Answered(d)' /\ Once(d)' /\ \A x : Has(d, x)' <=> Has(d, x) \/ x = m
  BY <1>2, <1>5, <1>6, <1>9, <1>11, AnsweredMore DEF Settling
<1>13. \A c \in Clients \ {d} : Answered(c)' /\ Once(c)' /\ \A x : Has(c, x)' <=> Has(c, x)
  BY <1>5, <1>9, AnsweredOn DEF Settling
<1>14. ASSUME NEW c \in Clients
       PROVE  Unknown(c)' /\ (c \in gone' => socket'[Server(c)] = "closed")
  <2>1. CASE c = d
    BY <1>3, <1>5, <2>1 DEF Settling, Unknown
  <2>2. CASE c # d
    BY <1>3, <1>5, <1>7, <2>2 DEF Settling, Unknown
  <2> QED
    BY <2>1, <2>2
<1>15. Distinct'
  BY <1>6, <1>7 DEF Settling, Distinct
<1>16. ASSUME broadcast.msg # None
       PROVE  Ongoing' /\ NotYet' /\ Visited' /\ broadcast'.end <= Len(connections')
  <2>1. PICK x \in Messages : x = broadcast.msg
    BY <1>16 DEF Inv, Types
  <2>2. /\ Past(x) /\ x.kind = "ServerMessage" /\ NotYet /\ Visited
        /\ broadcast.end \in Nat /\ broadcast.end <= n
    BY <1>16, <2>1 DEF Settling, Ongoing, n
  <2>3. Ongoing'
    BY <1>3, <1>9, <2>1, <2>2 DEF Ongoing
  <2>4. x # m /\ ~Has(d, x)'
    <3>1. ~Has(d, x)
      BY <1>6 DEF Has
    <3> QED
      BY <1>2, <1>12, <2>2, <3>1
  <2>5. NotYet'
    <3>1. ASSUME NEW i \in 1..(n + 1), i >= broadcast.next, connections'[i] # None
          PROVE  \E c \in Clients : c = connections'[i] /\ ~Has(c, x)'
      <4>1. CASE i = n + 1
        BY <1>7, <2>4, <4>1
      <4>2. CASE i \in 1..n
        <5>1. connections'[i] = connections[i] /\ connections[i] \in Clients /\ connections[i] # d
          BY <1>6, <1>7, <3>1, <4>2
        <5>2. ~Has(connections[i], x)
          BY <1>7, <2>1, <2>2, <3>1, <4>2, <5>1 DEF NotYet
        <5> QED
          BY <1>13, <5>1, <5>2
      <4> QED
        BY <1>7, <4>1, <4>2
    <3>2. ASSUME NEW i \in 1..(n + 1), i >= broadcast.next, connections'[i] # None
          PROVE  ~\E j \in DOMAIN sent'[Server(connections'[i])] :
                     sent'[Server(connections'[i])][j] = x
      BY <3>1, <3>2 DEF Has
    <3> QED
      BY <1>3, <1>7, <2>1, <3>2 DEF NotYet, Has
  <2>6. Visited'
    <3>1. ASSUME NEW i \in 1..(n + 1), i < broadcast.next, i <= broadcast.end, connections'[i] # None
          PROVE  \E c \in Clients : c = connections'[i] /\ c \notin gone /\ Has(c, x)'
      <4>1. i \in 1..n
        BY <1>7, <2>2, <3>1
      <4>2. connections'[i] = connections[i] /\ connections[i] \in Clients /\ connections[i] # d
        BY <1>6, <1>7, <3>1, <4>1
      <4>3. connections[i] \notin gone /\ Has(connections[i], x)
        BY <1>7, <2>1, <2>2, <3>1, <4>1, <4>2 DEF Visited
      <4> QED
        BY <1>13, <4>2, <4>3
    <3> QED
      BY <1>3, <1>7, <2>1, <3>1 DEF Visited, Has
  <2>7. broadcast'.end <= Len(connections')
    BY <1>3, <1>7, <2>2
  <2> QED
    BY <2>3, <2>5, <2>6, <2>7
<1> QED
  BY <1>3, <1>10, <1>12, <1>13, <1>14, <1>15, <1>16 DEF Settling

LEMMA SettlingInit == Init => Settling
<1> SUFFICES ASSUME Init
             PROVE  Settling
  OBVIOUS
<1>1. /\ messagesIn = <<>> /\ connections = <<>> /\ gone = {}
      /\ broadcast.msg = None /\ broadcast.next = 1 /\ broadcast.end = 0
      /\ \A c \in Clients : sent[Server(c)] = <<>>
  BY Pair DEF Init, Silent
<1>2. Queued /\ InOrder /\ Distinct
  BY <1>1 DEF Queued, InOrder, Distinct
<1>3. \A c \in Clients : Answered(c) /\ Once(c) /\ Unknown(c) /\ c \notin gone
  BY <1>1 DEF Answered, Once, Unknown
<1> QED
  BY <1>1, <1>2, <1>3 DEF Settling

LEMMA SettlingStep ==
    ASSUME Inv, Sending, Framing, Lists, Settling, Inv', Heard', [Next]_vars
    PROVE  Settling'
<1>1. CASE UNCHANGED vars
  BY <1>1, QuietSettling DEF vars, wires, mains, history
<1> QED
  BY <1>1, HandlerSettling, ClientSettling, BouncePingSettling, MessageAllClientsSettling,
     VisitSettling, EraseSettling, AcceptSettling DEF Next, Update

(* When a broadcast ends, each connection that the list had when it began  *)
(* was sent the message once or is dropped, and those that were closed by  *)
(* then are dropped, for any number of clients that connect and leave      *)
(* during the loop (MessageAllClients).                                    *)
THEOREM BroadcastAlwaysSettles == Spec => []BroadcastSettles
<1>1. Spec => []Numbered
  BY NumberedInit, NumberedStep, InvAlways, PTL DEF Spec
<1>2. Spec => []Framing
  BY FramingInit, FramingStep, InvAlways, ListsAlways, PTL DEF Spec
<1>3. Spec => []Streams
  BY <1>2, StreamsInit, StreamsStep, InvAlways, ListsAlways, PTL DEF Spec
<1>4. Spec => []Heard
  BY <1>1, <1>2, <1>3, StreamsHeard, InvAlways, PTL
<1>5. Spec => []Settling
  BY <1>2, <1>4, SettlingInit, SettlingStep, InvAlways, ListsAlways, PTL DEF Spec
<1>6. Inv /\ Sending /\ Lists /\ Settling => BroadcastSettles
  <2> SUFFICES ASSUME Sending, Lists, Settling, broadcast.msg # None, broadcast.next > broadcast.end,
                      NEW i \in 1..broadcast.end, connections[i] # None
               PROVE  /\ connections[i] \notin gone
                      /\ \E j \in DOMAIN sent[Server(connections[i])] :
                             sent[Server(connections[i])][j] = broadcast.msg
                      /\ IsInjective(sent[Server(connections[i])])
    BY DEF BroadcastSettles
  <2>1. /\ broadcast.end \in Nat /\ broadcast.next \in Nat /\ broadcast.end <= Len(connections)
        /\ connections \in Seq(Clients \cup {None}) /\ Visited
    BY DEF Settling, Lists
  <2>2. i \in DOMAIN connections /\ i < broadcast.next /\ connections[i] \in Clients
    BY <2>1
  <2>3. connections[i] \notin gone /\ Has(connections[i], broadcast.msg)
    BY <2>1, <2>2 DEF Visited
  <2>4. Once(connections[i])
    BY <2>2 DEF Settling
  <2> QED
    BY <2>3, <2>4 DEF Has, Once, IsInjective
<1> QED
  BY <1>5, <1>6, InvAlways, ListsAlways, PTL

-----------------------------------------------------------------------------
(* The types that no invariant above needs.                                *)

Mains ==
    /\ broadcast \in [msg : Messages \cup {None}, next : Nat, end : Nat,
                      remote : Clients \cup {None}]
    /\ accepted \subseteq Clients /\ gone \subseteq Clients

LEMMA MainsStep ==
    ASSUME Inv, Inv', Lists, Mains, [Next]_vars
    PROVE  Mains'
<1>1. UNCHANGED <<broadcast, accepted, gone>> => Mains'
  BY DEF Mains
<1>2. ASSUME NEW e \in Ends, Handler(e)
      PROVE  UNCHANGED <<broadcast, accepted, gone>>
  BY <1>2 DEF Handler, Send, WriteHeader, WriteBody, WriteValidation, WriteFails,
     ServerReadValidation, ClientReadValidation, ReadHeader, ReadBody, ReadFails, mains, history
<1>3. ASSUME NEW c \in Clients,
             \/ ConnectToServer(c) \/ RunsLate(c) \/ Leave(c) \/ WaitForClientConnection(c)
             \/ \E kind \in {"ServerPing", "MessageAll"} : SendToServer(c, kind)
      PROVE  UNCHANGED <<broadcast, accepted, gone>>
  BY <1>3 DEF ConnectToServer, RunsLate, Leave, WaitForClientConnection, SendToServer, mains, history
<1>4. ASSUME NEW c \in Clients, HandleIncoming(c)
      PROVE  Mains'
  BY <1>4 DEF HandleIncoming, Mains, history
<1>5. CASE BouncePing
  BY <1>1, <1>5 DEF BouncePing, mains
<1>6. CASE MessageAllClients
  <2>1. Head(messagesIn) \in Owned
    BY <1>6 DEF MessageAllClients, Inv, Types
  <2>2. /\ [Head(messagesIn).msg EXCEPT !.kind = "ServerMessage"] \in Messages
        /\ Head(messagesIn).remote \in Clients
    BY <2>1 DEF Owned, Messages, Kinds
  <2>3. Len(connections) \in Nat
    BY DEF Lists
  <2> QED
    BY <1>6, <2>2, <2>3 DEF MessageAllClients, Mains
<1>7. CASE Visit
  BY <1>7 DEF Visit, Mains
<1>8. CASE Erase
  BY <1>8 DEF Erase, Mains, Silent
<1>9. CASE UNCHANGED vars
  BY <1>1, <1>9 DEF vars, mains, history
<1> QED
  BY <1>1, <1>2, <1>3, <1>4, <1>5, <1>6, <1>7, <1>8, <1>9 DEF Next, Update

(* Every variable keeps its type, for any number of clients and messages.  *)
THEOREM TypesKept == Spec => []TypeOK
<1>1. Init => Mains
  BY DEF Init, Mains, Silent
<1>2. Spec => []Framing
  BY FramingInit, FramingStep, InvAlways, ListsAlways, PTL DEF Spec
<1>3. Spec => []Mains
  BY <1>1, MainsStep, InvAlways, ListsAlways, PTL DEF Spec
<1>4. Reads \subseteq [part : Parts \cup {"none"}, open : BOOLEAN, msgTempIn : Messages \cup {None}]
  BY DEF Reads, Parts
<1>5. Inv /\ Sending /\ Lists /\ Framing /\ Mains => TypeOK
  <2> SUFFICES ASSUME Inv, Sending, Lists, Framing, Mains
               PROVE  TypeOK
    OBVIOUS
  <2>1. reading \in [Ends -> [part : Parts \cup {"none"}, open : BOOLEAN,
                              msgTempIn : Messages \cup {None}]]
    BY <1>4 DEF Inv, Types
  <2> QED
    BY <2>1 DEF TypeOK, Inv, Types, Sending, Lists, Framing, Mains, Writes, Owned
<1> QED
  BY <1>2, <1>3, <1>5, InvAlways, ListsAlways, PTL
=============================================================================
