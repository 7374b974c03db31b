------------------------- MODULE FileTransferProofs --------------------------
(***************************************************************************)
(* Proofs about FileTransfer, for any number of transfers, sizes, names,   *)
(* failures and crashes: types, that transfers do not disturb each other,  *)
(* and that the download directory implements FileDrop.                    *)
(***************************************************************************)
EXTENDS FileTransfer, FiniteSetTheorems, TLAPS

\* Phases before a token is taken, after it, and while the temporary file is
\* written.
Early(t)   == rcv[t] \in {"none", "tls", "offer", "open"}
Writing(t) == rcv[t] \in {"body", "publish", "collision", "rename"}
Holding(t) == Writing(t) \/ rcv[t] = "cleanup"

Late == {t \in Transfers : ~Early(t)}

Messages == [type : {"FileOffer"}, size : Nat] \cup [type : {"FileChunk"}, seq : Nat, len : Nat]
            \cup [type : {"FileEnd"}, count : Nat]

\* A name that was accepted.
Taken(t) == rcv[t] \in {"open", "cleanup"} \/ Writing(t)
Named    == \A t \in Transfers : Taken(t) => Wanted[t] # BadName

\* Nobody is received from before it connects.
Idle == \A t \in Transfers : snd[t] = "idle" => rcv[t] = "none"

\* TypeOK is not inductive: a chunk's length is a number because messages are
\* well-formed, a new token is in range because each task takes but one, and a
\* name reserved is a name because a task has it accepted first.
TypeInv == /\ TypeOK /\ toRecv \in [Transfers -> Seq(Messages)]
           /\ rxSeq <= Cardinality(Late)
           /\ Named /\ Idle

-----------------------------------------------------------------------------
(* Types.                                                                  *)

LEMMA SetupTypes ==
    ASSUME TypeOK
    PROVE  /\ Wanted \in [Transfers -> RealNames \cup {BadName}]
           /\ Declared \in [Transfers -> Nat] /\ Actual \in [Transfers -> Nat]
BY TransferAssumption DEF TypeOK, Wanted, Declared, Actual

LEMMA ZeroIsToken ==
    ASSUME NEW t \in Transfers
    PROVE  0 \in Tokens /\ NoGoal \in FileNames
<1>1. Cardinality(Transfers) \in Nat /\ Cardinality(Transfers) # 0
  BY TransferAssumption, FS_CardinalityType, FS_EmptySet
<1>2. 0 \in Tokens
  BY <1>1 DEF Tokens
<1> QED BY <1>2 DEF NoGoal, FileNames

\* There is a token left for a task that has none.
LEMMA TokenLeft ==
    ASSUME TypeInv, NEW t \in Transfers, Early(t)
    PROVE  /\ rxSeq \in Tokens
           /\ Cardinality(Late \cup {t}) = Cardinality(Late) + 1
           /\ Cardinality(Late) \in Nat
           /\ rxSeq + 1 <= Cardinality(Transfers)
<1>1. IsFiniteSet(Late) /\ IsFiniteSet(Transfers) /\ Cardinality(Transfers) \in Nat
  <2>1. Late \in SUBSET Transfers
    BY DEF Late
  <2> QED BY <2>1, TransferAssumption, FS_Subset, FS_CardinalityType
<1>2. Cardinality(Late) \in Nat
  BY <1>1, FS_CardinalityType
<1>3. t \notin Late
  BY DEF Late
<1>4. Cardinality(Late \cup {t}) = Cardinality(Late) + 1
  BY <1>1, <1>3, FS_AddElement
<1>5. Late \cup {t} \in SUBSET Transfers
  BY DEF Late
<1>6. Cardinality(Late \cup {t}) <= Cardinality(Transfers)
  BY <1>1, <1>5, FS_Subset
<1>7. rxSeq \in Nat /\ rxSeq <= Cardinality(Late)
  <2>1. rxSeq \in 0..Cardinality(Transfers) /\ rxSeq <= Cardinality(Late)
    BY DEF TypeInv, TypeOK
  <2> QED BY <2>1, <1>1
<1> QED BY <1>1, <1>2, <1>4, <1>6, <1>7 DEF Tokens

\* The tasks that have a token stay so, while the counter does not move.
LEMMA LateGrows ==
    ASSUME TypeInv, Late \subseteq Late', rxSeq' = rxSeq
    PROVE  rxSeq' <= Cardinality(Late')
<1>1. IsFiniteSet(Late')
  <2>1. Late' \in SUBSET Transfers
    BY DEF Late
  <2> QED BY <2>1, TransferAssumption, FS_Subset
<1>2. Cardinality(Late) <= Cardinality(Late') /\ Cardinality(Late') \in Nat
      /\ Cardinality(Late) \in Nat
  <2>1. IsFiniteSet(Late) /\ Cardinality(Late) <= Cardinality(Late')
    BY <1>1, FS_Subset
  <2> QED BY <1>1, <2>1, FS_CardinalityType
<1>3. rxSeq <= Cardinality(Late) /\ rxSeq \in Int
  BY DEF TypeInv, TypeOK
<1> QED BY <1>2, <1>3

\* What a message taken off the wire is.
LEMMA TakenTyped ==
    ASSUME TypeInv, NEW t \in Transfers, NEW type, Take(t, type)
    PROVE  /\ Head(toRecv[t]) \in Messages /\ Head(toRecv[t]).type = type
           /\ toRecv' \in [Transfers -> Seq(Messages)]
<1>1. toRecv \in [Transfers -> Seq(Messages)] /\ toRecv[t] # <<>>
  BY DEF TypeInv, Take
<1>2. toRecv[t] \in Seq(Messages)
  BY <1>1
<1>3. Head(toRecv[t]) \in Messages /\ Tail(toRecv[t]) \in Seq(Messages)
  <2> HIDE DEF Messages
  <2> QED BY <1>1, <1>2
<1> HIDE DEF Messages
<1> QED BY <1>1, <1>3 DEF Take

LEMMA TypesInit == Init => TypeInv
<1> SUFFICES ASSUME Init PROVE TypeInv
  OBVIOUS
<1>1. TypeOK
  <2>1. Cardinality(Transfers) \in Nat /\ MaxFaults \in Nat /\ MaxCrashes \in Nat
    BY TransferAssumption, FS_CardinalityType
  <2>2. token \in [Transfers -> Tokens] /\ goal \in [Transfers -> FileNames]
    BY ZeroIsToken DEF Init
  <2>3. dir \in [FileNames -> Contents]
    BY DEF Init, Contents, Content
  <2>4. rxSeq \in 0..Cardinality(Transfers) /\ faults \in 0..MaxFaults
        /\ crashes \in 0..MaxCrashes
    BY <2>1 DEF Init
  <2> QED BY <2>2, <2>3, <2>4 DEF Init, TypeOK, Ended
<1>2. toRecv \in [Transfers -> Seq(Messages)]
  BY DEF Init
<1>3. rxSeq <= Cardinality(Late)
  <2>1. Late = {}
    BY DEF Init, Late, Early
  <2> QED BY <2>1, FS_EmptySet DEF Init
<1>4. Named /\ Idle
  BY DEF Init, Named, Idle, Taken, Writing
<1> QED BY <1>1, <1>2, <1>3, <1>4 DEF TypeInv

\* A sender only moves itself on, reads its file and sends.
LEMMA SenderSends ==
    ASSUME TypeInv, NEW t \in Transfers, Sender(t)
    PROVE  /\ UNCHANGED <<file, recvVars, faults, crashes, cut>> /\ Idle'
           /\ snd' \in [Transfers -> {"idle", "hello", "connected", "offered", "sending"}
                                         \cup Ended]
           /\ sent' \in [Transfers -> Nat] /\ nextOut' \in [Transfers -> Nat]
           /\ toRecv' \in [Transfers -> Seq(Messages)]
<1>0. Idle'
  <2>1. /\ rcv' = rcv
        /\ \/ snd' = snd
           \/ \E p \in {"hello", "connected", "offered", "sending", "done", "failed"} :
                 snd' = [snd EXCEPT ![t] = p]
    BY DEF Sender, Connect, Secure, SendOffer, TakeAnswer, SendChunk, SendEnd, SenderFails, recvVars
  <2>2. snd \in [Transfers -> {"idle", "hello", "connected", "offered", "sending"} \cup Ended]
    BY DEF TypeInv, TypeOK
  <2> QED BY <2>1, <2>2 DEF TypeInv, Idle
<1>1. /\ snd \in [Transfers -> {"idle", "hello", "connected", "offered", "sending"} \cup Ended]
      /\ sent \in [Transfers -> Nat] /\ nextOut \in [Transfers -> Nat]
      /\ toRecv \in [Transfers -> Seq(Messages)]
      /\ Declared[t] \in Nat /\ Actual[t] \in Nat
  BY SetupTypes DEF TypeInv, TypeOK
<1>2. ASSUME NEW m \in Messages, Send(t, m)
      PROVE  toRecv' \in [Transfers -> Seq(Messages)]
  <2> HIDE DEF Messages
  <2>1. Append(toRecv[t], m) \in Seq(Messages)
    BY <1>1
  <2> QED BY <1>1, <1>2, <2>1 DEF Send
<1>3. CASE Connect(t) \/ Secure(t) \/ TakeAnswer(t) \/ SenderFails(t)
  <2> HIDE DEF Messages
  <2> QED BY <1>0, <1>1, <1>3 DEF Connect, Secure, TakeAnswer, SenderFails, Ended, recvVars
<1>4. CASE SendOffer(t)
  <2>1. Offer(t) \in Messages
    BY <1>1 DEF Offer, Messages
  <2>2. toRecv' \in [Transfers -> Seq(Messages)]
    BY <1>2, <1>4, <2>1 DEF SendOffer
  <2> HIDE DEF Messages
  <2> QED BY <1>0, <1>1, <1>4, <2>2 DEF SendOffer, Ended, recvVars
<1>5. CASE SendChunk(t)
  <2> DEFINE left == Actual[t] - sent[t]
             len  == IF left < ChunkSize THEN left ELSE ChunkSize
  <2>1. len \in Nat
    BY <1>1, <1>5, TransferAssumption DEF SendChunk
  <2>2. Send(t, Chunk(nextOut[t], len)) /\ sent' = [sent EXCEPT ![t] = @ + len]
        /\ nextOut' = [nextOut EXCEPT ![t] = @ + 1]
        /\ UNCHANGED <<file, snd, toSend, recvVars, faults, crashes, cut>>
    BY <1>5 DEF SendChunk
  <2> HIDE DEF len
  <2>3. Chunk(nextOut[t], len) \in Messages
    BY <1>1, <2>1 DEF Chunk, Messages
  <2>4. toRecv' \in [Transfers -> Seq(Messages)]
    BY <1>2, <2>2, <2>3
  <2>5. sent' \in [Transfers -> Nat] /\ nextOut' \in [Transfers -> Nat]
    <3>1. sent[t] + len \in Nat /\ nextOut[t] + 1 \in Nat
      BY <1>1, <2>1
    <3> QED BY <1>1, <2>2, <3>1
  <2> HIDE DEF Messages
  <2>6. UNCHANGED <<file, snd, recvVars, faults, crashes, cut>>
    BY <2>2
  <2> QED BY <1>0, <1>1, <2>4, <2>5, <2>6
<1>6. CASE SendEnd(t)
  <2>1. End(nextOut[t]) \in Messages
    BY <1>1 DEF End, Messages
  <2>2. toRecv' \in [Transfers -> Seq(Messages)]
    <3> HIDE DEF Messages
    <3> QED BY <1>1, <1>2, <1>6, <2>1 DEF SendEnd
  <2> HIDE DEF Messages
  <2> QED BY <1>0, <1>1, <1>6, <2>2 DEF SendEnd, Ended, recvVars
<1> QED BY <1>0, <1>3, <1>4, <1>5, <1>6 DEF Sender

Phases == {"none", "tls", "offer", "open", "body", "publish", "collision", "rename", "cleanup"}
          \cup Ended

\* A task that moves on without taking a token.
LEMMA MovesOn ==
    ASSUME TypeInv, NEW t \in Transfers, NEW phase \in Phases, Goto(t, phase),
           Early(t) \/ phase \notin {"none", "tls", "offer", "open"},
           phase \in {"none", "tls", "offer"} \cup Ended \/ Wanted[t] # BadName,
           rxSeq' = rxSeq, file' = file
    PROVE  /\ rcv' \in [Transfers -> Phases] /\ Named'
           /\ rxSeq' \in 0..Cardinality(Transfers) /\ rxSeq' <= Cardinality(Late')
<1>1. rcv \in [Transfers -> Phases] /\ rxSeq \in 0..Cardinality(Transfers)
  BY DEF TypeInv, TypeOK, Phases
<1>2. rcv' \in [Transfers -> Phases]
  <2> HIDE DEF Phases
  <2> QED BY <1>1 DEF Goto
<1>3. Late \subseteq Late'
  <2> HIDE DEF Phases
  <2> QED BY <1>1 DEF Goto, Late, Early
<1>4. Named'
  <2> SUFFICES ASSUME NEW u \in Transfers, Taken(u)' PROVE Wanted[u]' # BadName
    BY DEF Named
  <2>1. CASE u = t
    <3>1. phase \in {"open", "cleanup", "body", "publish", "collision", "rename"}
      BY <1>1, <2>1 DEF Goto, Taken, Writing
    <3> QED BY <2>1, <3>1 DEF Ended, Wanted
  <2>2. CASE u # t
    <3>1. Taken(u)
      BY <1>1, <2>2 DEF Goto, Taken, Writing
    <3> QED BY <3>1 DEF TypeInv, Named, Wanted
  <2> QED BY <2>1, <2>2
<1> QED BY <1>1, <1>2, <1>3, <1>4, LateGrows

LEMMA BytesAdded ==
    ASSUME NEW c \in Contents, NEW n \in Nat
    PROVE  [c EXCEPT !.bytes = @ + n] \in Contents
BY DEF Contents

LEMMA TypesReceiver ==
    ASSUME TypeInv, NEW t \in Transfers, Receiver(t) \/ DiskFails(t)
    PROVE  TypeInv'
<1>1. /\ file \in Setups /\ Wanted[t] \in RealNames \cup {BadName}
      /\ snd \in [Transfers -> {"idle", "hello", "connected", "offered", "sending"} \cup Ended]
      /\ sent \in [Transfers -> Nat] /\ nextOut \in [Transfers -> Nat]
      /\ rcv \in [Transfers -> Phases]
      /\ received \in [Transfers -> Nat] /\ nextSeq \in [Transfers -> Nat]
      /\ token \in [Transfers -> Tokens] /\ goal \in [Transfers -> FileNames]
      /\ rxSeq \in 0..Cardinality(Transfers) /\ dir \in [FileNames -> Contents]
      /\ faults \in 0..MaxFaults /\ crashes \in 0..MaxCrashes
      /\ toRecv \in [Transfers -> Seq(Messages)]
  BY SetupTypes DEF TypeInv, TypeOK, Phases
<1>2. Temp(token[t]) \in FileNames
  BY <1>1 DEF FileNames
<1>0. Taken(t) => Wanted[t] # BadName
  BY DEF TypeInv, Named
<1>3. UNCHANGED senderVars /\ crashes' = crashes /\ file' = file
  BY DEF Receiver, DiskFails, Accept, Secured, TakeOffer, NoOffer, OpenTemp, TakeChunk, TakeEnd,
         Stalled, Abandon, ReserveReal, ReserveAlt, Rename, Cleanup, senderVars
<1>16. Idle'
  <2>1. (snd[t] # "idle" /\ rcv[t] # "none") \/ Accept(t)
    BY DEF TypeInv, Idle, Receiver, DiskFails, Secured, TakeOffer, NoOffer, OpenTemp, TakeChunk,
           TakeEnd, Stalled, ReserveReal, ReserveAlt, Rename, Cleanup
  <2>2. snd[t] # "idle"
    BY <2>1 DEF Accept
  <2>3. rcv' = rcv \/ \E p \in Phases : Goto(t, p)
    BY DEF Receiver, DiskFails, Accept, Secured, TakeOffer, NoOffer, OpenTemp, TakeChunk, TakeEnd,
           Stalled, Abandon, ReserveReal, ReserveAlt, Rename, Cleanup, Phases, Ended
  <2> HIDE DEF Phases
  <2> QED BY <1>1, <1>3, <2>2, <2>3 DEF TypeInv, Idle, Goto, senderVars
<1> DEFINE Rest == /\ received' \in [Transfers -> Nat] /\ nextSeq' \in [Transfers -> Nat]
                   /\ token' \in [Transfers -> Tokens] /\ goal' \in [Transfers -> FileNames]
                   /\ dir' \in [FileNames -> Contents] /\ faults' \in 0..MaxFaults
                   /\ toRecv' \in [Transfers -> Seq(Messages)]
           Moved == /\ rcv' \in [Transfers -> Phases] /\ Named'
                    /\ rxSeq' \in 0..Cardinality(Transfers) /\ rxSeq' <= Cardinality(Late')
<1>17. cut' \subseteq Transfers
  <2>1. cut' = cut \/ cut' = cut \cup {t}
    BY DEF Receiver, DiskFails, Accept, Secured, TakeOffer, NoOffer, OpenTemp, TakeChunk, TakeEnd,
           Stalled, Abandon, ReserveReal, ReserveAlt, Rename, Cleanup
  <2> QED BY <2>1 DEF TypeInv, TypeOK
<1>4. SUFFICES Rest /\ Moved
  BY <1>1, <1>3, <1>16, <1>17 DEF TypeInv, TypeOK, senderVars, Phases
<1> HIDE DEF Messages
<1>5. CASE Accept(t)
  <2>1. PICK p \in {"failed", "tls", "offer"} : Goto(t, p)
    <3>1. Goto(t, "failed") \/ Goto(t, "tls") \/ Goto(t, "offer")
      BY <1>5 DEF Accept
    <3> QED BY <3>1
  <2>2. Moved
    BY <1>5, <2>1, <1>3, MovesOn DEF Accept, Early, Phases, Ended
  <2> QED BY <1>1, <1>5, <2>2 DEF Accept
<1>6. CASE Secured(t)
  <2>1. PICK p \in {"failed", "offer"} : Goto(t, p)
    BY <1>6 DEF Secured
  <2>2. Moved
    BY <1>6, <2>1, <1>3, MovesOn DEF Secured, Early, Phases, Ended
  <2> QED BY <1>1, <1>6, <2>2 DEF Secured
<1>7. CASE TakeOffer(t)
  <2>1. PICK p \in {"failed", "open"} : Goto(t, p) /\ (p = "failed" \/ Wanted[t] # BadName)
    BY <1>7 DEF TakeOffer, Acceptable
  <2>2. Moved
    BY <1>3, <1>7, <2>1, MovesOn DEF TakeOffer, Early, Phases, Ended
  <2> QED BY <1>1, <1>7, <2>2, TakenTyped DEF TakeOffer
<1>8. CASE NoOffer(t)
  <2>1. Moved
    BY <1>8, <1>3, MovesOn DEF NoOffer, Abandon, Phases, Ended
  <2> QED BY <1>1, <1>8, <2>1 DEF NoOffer, Abandon
<1>9. CASE OpenTemp(t)
  <2>1. Early(t) /\ rcv[t] = "open" /\ rxSeq' = rxSeq + 1
        /\ token' = [token EXCEPT ![t] = rxSeq]
        /\ UNCHANGED <<toRecv, received, nextSeq, goal, faults>>
    BY <1>9 DEF OpenTemp, Early
  <2>2. /\ rxSeq \in Tokens /\ Cardinality(Late \cup {t}) = Cardinality(Late) + 1
        /\ Cardinality(Late) \in Nat /\ rxSeq + 1 <= Cardinality(Transfers)
    BY <2>1, TokenLeft
  <2>3. PICK p \in {"body", "cleanup"} : Goto(t, p)
    BY <1>9 DEF OpenTemp
  <2>4. Late' = Late \cup {t} /\ rcv' \in [Transfers -> Phases]
    <3>1. p \in Phases
      BY DEF Phases
    <3> HIDE DEF Phases
    <3> QED BY <1>1, <2>3, <3>1 DEF Goto, Late, Early
  <2>5. rxSeq <= Cardinality(Late) /\ Cardinality(Transfers) \in Nat
    BY TransferAssumption, FS_CardinalityType DEF TypeInv
  <2>6. Moved
    <3>1. rxSeq \in Nat
      BY <1>1
    <3>2. rxSeq + 1 \in 0..Cardinality(Transfers)
          /\ rxSeq + 1 <= Cardinality(Late \cup {t})
      BY <2>2, <2>5, <3>1
    <3>3. Named'
      <4> SUFFICES ASSUME NEW u \in Transfers, Taken(u)' PROVE Wanted[u]' # BadName
        BY DEF Named
      <4>1. Taken(u)
        BY <1>1, <2>1, <2>3 DEF Goto, Taken, Writing
      <4> QED BY <1>3, <4>1 DEF TypeInv, Named, Wanted
    <3> QED BY <2>1, <2>4, <3>2, <3>3
  <2>7. dir' \in [FileNames -> Contents]
    <3>1. Content(t, 0) \in Contents
      BY DEF Content, Contents
    <3> HIDE DEF Contents, FileNames
    <3> QED BY <1>1, <1>9, <3>1 DEF OpenTemp
  <2> QED BY <1>1, <2>1, <2>2, <2>6, <2>7
<1>10. CASE TakeChunk(t)
  <2> DEFINE m == Head(toRecv[t])
  <2>1. m.len \in Nat /\ toRecv' \in [Transfers -> Seq(Messages)]
    <3>1. m \in Messages /\ m.type = "FileChunk"
          /\ toRecv' \in [Transfers -> Seq(Messages)]
      BY <1>10, TakenTyped DEF TakeChunk
    <3> HIDE DEF m
    <3> QED BY <3>1 DEF Messages
  <2>2. UNCHANGED <<token, goal, rxSeq, faults>>
    BY <1>10 DEF TakeChunk
  <2>3. CASE ChunkFits(t, m)
    <3>1. /\ received' = [received EXCEPT ![t] = @ + m.len]
          /\ nextSeq' = [nextSeq EXCEPT ![t] = @ + 1]
          /\ dir' = [dir EXCEPT ![Temp(token[t])].bytes = @ + m.len]
          /\ UNCHANGED rcv
      BY <1>10, <2>3 DEF TakeChunk
    <3>2. received[t] + m.len \in Nat /\ nextSeq[t] + 1 \in Nat
      BY <1>1, <2>1
    <3>3. dir' \in [FileNames -> Contents]
      <4>1. dir[Temp(token[t])] \in Contents
        BY <1>1, <1>2
      <4>2. [dir[Temp(token[t])] EXCEPT !.bytes = @ + m.len] \in Contents
        BY <2>1, <4>1, BytesAdded
      <4> HIDE DEF Contents, FileNames, m
      <4> QED BY <1>1, <3>1, <4>2
    <3>4. received' \in [Transfers -> Nat] /\ nextSeq' \in [Transfers -> Nat]
      BY <1>1, <3>1, <3>2
    <3>5. Moved
      <4>1. Late' = Late /\ Named'
        BY <1>3, <3>1 DEF Late, Early, TypeInv, Named, Taken, Writing, Wanted
      <4> QED BY <1>1, <2>2, <3>1, <4>1, LateGrows
    <3> QED BY <1>1, <2>1, <2>2, <3>3, <3>4, <3>5
  <2>4. CASE ~ChunkFits(t, m)
    <3>1. Goto(t, "cleanup") /\ UNCHANGED <<received, nextSeq, dir>>
      BY <1>10, <2>4 DEF TakeChunk
    <3>2. Moved
      <4>1. Taken(t)
        BY <1>10 DEF TakeChunk, Taken, Writing
      <4> QED BY <1>0, <1>3, <2>2, <3>1, <4>1, MovesOn DEF Phases
    <3> QED BY <1>1, <2>1, <2>2, <3>1, <3>2
  <2> QED BY <2>3, <2>4
<1>11. CASE TakeEnd(t)
  <2>1. PICK p \in {"publish", "cleanup"} : Goto(t, p)
    BY <1>11 DEF TakeEnd
  <2>2. Moved
    BY <1>0, <1>3, <1>11, <2>1, MovesOn DEF TakeEnd, Phases, Taken, Writing
  <2> QED BY <1>1, <1>11, <2>2, TakenTyped DEF TakeEnd
<1>12. CASE Stalled(t) \/ DiskFails(t)
  <2>1. Moved
    BY <1>0, <1>3, <1>12, MovesOn DEF Stalled, Abandon, DiskFails, Phases, Taken, Writing
  <2>2. faults' \in 0..MaxFaults
    BY <1>1, <1>12, TransferAssumption DEF Stalled, Abandon, DiskFails
  <2> QED BY <1>1, <1>12, <2>1, <2>2 DEF Stalled, Abandon, DiskFails
<1>13. CASE ReserveReal(t) \/ ReserveAlt(t)
  <2>0. Taken(t) /\ Wanted[t] \in RealNames
    <3>1. Taken(t)
      BY <1>13 DEF ReserveReal, ReserveAlt, Taken, Writing
    <3> QED BY <1>0, <1>1, <3>1
  <2>1. PICK p \in {"collision", "cleanup", "rename"} : Goto(t, p)
    BY <1>13 DEF ReserveReal, ReserveAlt
  <2>2. UNCHANGED <<toRecv, received, nextSeq, token, rxSeq, faults>>
    BY <1>13 DEF ReserveReal, ReserveAlt
  <2>3. Moved
    BY <1>0, <1>3, <2>0, <2>1, <2>2, MovesOn DEF Phases
  <2>4. PICK f \in FileNames : \/ UNCHANGED <<goal, dir>>
                               \/ goal' = [goal EXCEPT ![t] = f]
                                  /\ dir' = [dir EXCEPT ![f] = Content(t, 0)]
    <3>1. Real(Wanted[t]) \in FileNames /\ Alt(token[t], Wanted[t]) \in FileNames
      BY <1>1, <2>0 DEF FileNames, PublicNames
    <3> QED BY <1>13, <3>1 DEF ReserveReal, ReserveAlt
  <2>5. goal' \in [Transfers -> FileNames] /\ dir' \in [FileNames -> Contents]
    <3>1. Content(t, 0) \in Contents
      BY DEF Content, Contents
    <3>2. CASE UNCHANGED <<goal, dir>>
      BY <1>1, <3>2
    <3>3. CASE goal' = [goal EXCEPT ![t] = f] /\ dir' = [dir EXCEPT ![f] = Content(t, 0)]
      <4> HIDE DEF Contents, FileNames
      <4>1. goal' \in [Transfers -> FileNames]
        BY <1>1, <3>3
      <4>2. dir' \in [FileNames -> Contents]
        BY <1>1, <3>1, <3>3
      <4> QED BY <4>1, <4>2
    <3> QED BY <2>4, <3>2, <3>3
  <2> QED BY <1>1, <2>2, <2>3, <2>5
<1>14. CASE Rename(t) \/ Cleanup(t)
  <2>1. PICK p \in Ended : Goto(t, p)
    BY <1>14 DEF Rename, Cleanup, Ended
  <2>2. UNCHANGED <<toRecv, received, nextSeq, token, goal, rxSeq, faults>>
    BY <1>14 DEF Rename, Cleanup
  <2>3. Moved
    BY <1>3, <2>1, <2>2, MovesOn DEF Phases, Ended
  <2>4. dir' \in [FileNames -> Contents]
    <3>1. Content(NoFile, 0) \in Contents /\ dir[Temp(token[t])] \in Contents
      BY <1>1, <1>2 DEF Content, Contents
    <3> HIDE DEF Contents, FileNames
    <3> QED BY <1>1, <1>14, <3>1 DEF Rename, Cleanup
  <2> QED BY <1>1, <2>2, <2>3, <2>4
<1> QED BY <1>5, <1>6, <1>7, <1>8, <1>9, <1>10, <1>11, <1>12, <1>13, <1>14 DEF Receiver

\* A step of the disk or of a receiving task is one of these.
LEMMA TypesCrash ==
    ASSUME TypeInv, Crash
    PROVE  TypeInv'
<1>1. rcv' \in [Transfers -> Phases]
  BY DEF Crash, Phases, Ended
<1>2. rxSeq' = 0 /\ crashes' \in 0..MaxCrashes
  BY TransferAssumption DEF TypeInv, TypeOK, Crash
<1>3. Cardinality(Transfers) \in Nat /\ Cardinality(Late') \in Nat
  <2>1. Late' \in SUBSET Transfers
    BY DEF Late
  <2> QED BY <2>1, TransferAssumption, FS_Subset, FS_CardinalityType
<1>4. Named' /\ Idle'
  BY DEF Crash, Named, Idle, Taken, Writing, Ended, senderVars
<1>5. UNCHANGED <<senderVars, toRecv, received, nextSeq, token, goal, dir, faults, cut>>
  BY DEF Crash
<1>6. TypeOK'
  <2>1. rxSeq' \in 0..Cardinality(Transfers)
    BY <1>2, <1>3
  <2> QED BY <1>1, <1>2, <1>5, <2>1 DEF TypeInv, TypeOK, senderVars, Phases
<1> QED BY <1>2, <1>3, <1>4, <1>5, <1>6 DEF TypeInv

LEMMA TypesNext == TypeInv /\ [Next]_vars => TypeInv'
<1> SUFFICES ASSUME TypeInv, [Next]_vars PROVE TypeInv'
  OBVIOUS
<1>1. ASSUME NEW t \in Transfers, Sender(t) PROVE TypeInv'
  <2>1. TypeOK'
    BY <1>1, SenderSends DEF TypeInv, TypeOK, recvVars
  <2>2. Late' = Late /\ rxSeq' = rxSeq /\ Named'
    BY <1>1, SenderSends DEF TypeInv, recvVars, Late, Early, Named, Taken, Writing, Wanted
  <2> QED BY <1>1, <2>1, <2>2, SenderSends DEF TypeInv
<1>2. ASSUME NEW t \in Transfers, Receiver(t) \/ DiskFails(t) PROVE TypeInv'
  BY <1>2, TypesReceiver
<1>3. CASE Crash
  BY <1>3, TypesCrash
<1>4. CASE UNCHANGED vars
  BY <1>4 DEF TypeInv, TypeOK, vars, senderVars, recvVars, Late, Early, Named, Idle, Taken,
              Writing, Wanted
<1> QED BY <1>1, <1>2, <1>3, <1>4 DEF Next

\* The state keeps its types, and no task goes without a token: for any number of
\* transfers, failures and crashes.
THEOREM FileTypesHold == Spec => []TypeOK
<1>1. TypeInv => TypeOK
  BY DEF TypeInv
<1> QED BY <1>1, TypesInit, TypesNext, PTL DEF Spec

-----------------------------------------------------------------------------
(* Transfers do not disturb each other.                                    *)

\* A task that holds a temporary file has a token no other has and none will get
\* before a restart, and one that has none has received nothing.
Fresh    == \A t \in Transfers : Early(t) => received[t] = 0
Distinct == \A t \in Transfers : Holding(t) =>
                /\ token[t] < rxSeq
                /\ \A u \in Transfers : u # t /\ Holding(u) => token[u] # token[t]

OwnInv == TypeInv /\ Fresh /\ Distinct /\ TempIsOwn

\* Of a step that leaves the temporary files alone.
LEMMA OwnWithout ==
    ASSUME OwnInv, TypeInv', UNCHANGED <<received, token>>, rxSeq' >= rxSeq,
           \A k \in Tokens : dir'[Temp(k)] = dir[Temp(k)],
           \A t \in Transfers : /\ Early(t)' => Early(t)
                                /\ Holding(t)' => Holding(t)
                                /\ Writing(t)' => Writing(t)
    PROVE  OwnInv'
<1>1. Fresh'
  BY DEF OwnInv, Fresh, Early
<1>2. Distinct'
  <2>1. \A t \in Transfers : token[t] \in Int
    BY DEF OwnInv, TypeInv, TypeOK, Tokens
  <2>2. rxSeq \in Int /\ rxSeq' \in Int
    BY DEF OwnInv, TypeInv, TypeOK
  <2> QED BY <2>1, <2>2 DEF OwnInv, Distinct, Holding, Writing
<1>3. TempIsOwn'
  <2> SUFFICES ASSUME NEW t \in Transfers, Writing(t)'
               PROVE  dir'[Temp(token[t])] = Content(t, received[t])
    BY DEF TempIsOwn, Writing
  <2>1. token[t] \in Tokens
    BY DEF OwnInv, TypeInv, TypeOK
  <2>2. dir[Temp(token[t])] = Content(t, received[t])
    BY DEF OwnInv, TempIsOwn, Writing
  <2> QED BY <2>1, <2>2
<1> QED BY <1>1, <1>2, <1>3 DEF OwnInv

LEMMA OwnInit == Init => OwnInv
BY TypesInit DEF Init, OwnInv, Fresh, Distinct, TempIsOwn, Early, Holding, Writing

\* The token a task takes is nobody's, so its file is its own.
LEMMA OwnOpenTemp ==
    ASSUME OwnInv, TypeInv', NEW t \in Transfers, OpenTemp(t)
    PROVE  OwnInv'
<1>1. /\ rcv \in [Transfers -> Phases] /\ token \in [Transfers -> Tokens]
      /\ dir \in [FileNames -> Contents] /\ rxSeq \in Nat
      /\ \A u \in Transfers : token[u] \in Nat
  <2>1. /\ rcv \in [Transfers -> Phases] /\ token \in [Transfers -> Tokens]
        /\ dir \in [FileNames -> Contents] /\ rxSeq \in 0..Cardinality(Transfers)
    BY DEF OwnInv, TypeInv, TypeOK, Phases
  <2>2. \A k \in Tokens : k \in Nat
    BY DEF Tokens
  <2> QED BY <2>1, <2>2
<1>2. /\ rcv[t] = "open" /\ rxSeq' = rxSeq + 1 /\ token' = [token EXCEPT ![t] = rxSeq]
      /\ received' = received /\ received[t] = 0
  BY DEF OpenTemp, OwnInv, Fresh, Early
<1>3. PICK p \in {"body", "cleanup"} : Goto(t, p)
  BY DEF OpenTemp
<1>4. \A u \in Transfers : u # t => /\ rcv'[u] = rcv[u] /\ token'[u] = token[u]
  BY <1>1, <1>2, <1>3 DEF Goto
<1>5. rcv'[t] = p /\ token'[t] = rxSeq
  BY <1>1, <1>2, <1>3 DEF Goto
<1>6. Fresh'
  BY <1>2, <1>4, <1>5 DEF OwnInv, Fresh, Early
<1>7. \A u \in Transfers : u # t /\ Holding(u) => token[u] < rxSeq
  BY DEF OwnInv, Distinct
<1>8. Distinct'
  <2> SUFFICES ASSUME NEW u \in Transfers, Holding(u)'
               PROVE  /\ token'[u] < rxSeq'
                      /\ \A v \in Transfers : v # u /\ Holding(v)' => token'[v] # token'[u]
    BY DEF Distinct
  <2>1. CASE u = t
    BY <1>1, <1>2, <1>4, <1>5, <1>7, <2>1 DEF Holding, Writing
  <2>2. CASE u # t
    BY <1>1, <1>2, <1>4, <1>5, <1>7, <2>2 DEF OwnInv, Distinct, Holding, Writing
  <2> QED BY <2>1, <2>2
<1>9. TempIsOwn'
  <2> SUFFICES ASSUME NEW u \in Transfers, Writing(u)'
               PROVE  dir'[Temp(token'[u])] = Content(u, received[u])
    BY <1>2 DEF TempIsOwn, Writing
  <2>1. Temp(rxSeq) \in FileNames
    <3>1. rxSeq \in Tokens
      BY <1>5 DEF TypeInv, TypeOK
    <3> QED BY <3>1 DEF FileNames
  <2>2. CASE u = t
    <3>1. dir' = [dir EXCEPT ![Temp(rxSeq)] = Content(t, 0)]
      BY <1>1, <1>5, <2>2 DEF OpenTemp, Goto, Writing
    <3> QED BY <1>1, <1>2, <1>5, <2>1, <2>2, <3>1
  <2>3. CASE u # t
    <3>1. Writing(u) /\ token'[u] = token[u]
      BY <1>4, <2>3 DEF Writing
    <3>2. dir[Temp(token[u])] = Content(u, received[u]) /\ token[u] < rxSeq
      BY <1>7, <2>3, <3>1 DEF OwnInv, TempIsOwn, Writing, Holding
    <3>3. Temp(token[u]) # Temp(rxSeq) /\ Temp(token[u]) \in FileNames
      BY <1>1, <3>2 DEF Temp, FileNames
    <3>4. dir' = dir \/ dir' = [dir EXCEPT ![Temp(rxSeq)] = Content(t, 0)]
      BY DEF OpenTemp
    <3> QED BY <1>1, <3>1, <3>2, <3>3, <3>4
  <2> QED BY <2>2, <2>3
<1> QED BY <1>6, <1>8, <1>9 DEF OwnInv

\* A step of the task t on its own temporary file leaves those of the others alone.
LEMMA OwnOthers ==
    ASSUME OwnInv, NEW t \in Transfers, Holding(t), NEW u \in Transfers \ {t}, Writing(u),
           \A k \in Tokens : k # token[t] => dir'[Temp(k)] = dir[Temp(k)]
    PROVE  dir'[Temp(token[u])] = Content(u, received[u])
<1>1. token[u] \in Tokens /\ token[u] # token[t]
  BY DEF OwnInv, TypeInv, TypeOK, Distinct, Holding
<1>2. dir[Temp(token[u])] = Content(u, received[u])
  BY DEF OwnInv, TempIsOwn, Writing
<1> QED BY <1>1, <1>2

LEMMA OwnTakeChunk ==
    ASSUME OwnInv, TypeInv', NEW t \in Transfers, TakeChunk(t)
    PROVE  OwnInv'
<1> DEFINE m == Head(toRecv[t])
<1>1. /\ rcv \in [Transfers -> Phases] /\ token \in [Transfers -> Tokens]
      /\ received \in [Transfers -> Nat] /\ dir \in [FileNames -> Contents] /\ rxSeq \in Nat
  BY DEF OwnInv, TypeInv, TypeOK, Phases
<1>2. rcv[t] = "body" /\ UNCHANGED <<token, rxSeq>> /\ Holding(t) /\ Writing(t)
  BY DEF TakeChunk, Holding, Writing
<1>3. CASE ChunkFits(t, m)
  <2>1. /\ received' = [received EXCEPT ![t] = @ + m.len] /\ rcv' = rcv
        /\ dir' = [dir EXCEPT ![Temp(token[t])].bytes = @ + m.len]
    BY <1>3 DEF TakeChunk
  <2>2. Fresh' /\ Distinct'
    BY <1>1, <1>2, <2>1 DEF OwnInv, Fresh, Distinct, Early, Holding, Writing
  <2>3. \A k \in Tokens : k # token[t] => dir'[Temp(k)] = dir[Temp(k)]
    BY <1>1, <2>1 DEF Temp, FileNames
  <2>4. ASSUME NEW u \in Transfers, Writing(u)'
        PROVE  dir'[Temp(token[u])] = Content(u, received'[u])
    <3>1. CASE u = t
      <4>1. Temp(token[t]) \in FileNames
        BY <1>1 DEF FileNames
      <4>2. dir[Temp(token[t])] = Content(t, received[t])
        BY <1>2 DEF OwnInv, TempIsOwn, Writing
      <4>3. dir'[Temp(token[t])] = [dir[Temp(token[t])] EXCEPT !.bytes = @ + m.len]
        BY <1>1, <2>1, <4>1
      <4>4. received'[t] = received[t] + m.len
        BY <1>1, <2>1
      <4> HIDE DEF m
      <4> QED BY <3>1, <4>2, <4>3, <4>4 DEF Content
    <3>2. CASE u # t
      <4>1. Writing(u) /\ received'[u] = received[u]
        BY <1>1, <2>1, <2>4, <3>2 DEF Writing
      <4> QED BY <1>2, <2>3, <3>2, <4>1, OwnOthers
    <3> QED BY <3>1, <3>2
  <2>5. TempIsOwn'
    BY <1>2, <2>4 DEF TempIsOwn, Writing
  <2> QED BY <2>2, <2>5 DEF OwnInv
<1>4. CASE ~ChunkFits(t, m)
  <2>1. Goto(t, "cleanup") /\ UNCHANGED <<received, dir>>
    BY <1>4 DEF TakeChunk
  <2>2. \A u \in Transfers : /\ Early(u)' => Early(u)
                             /\ Holding(u)' => Holding(u)
                             /\ Writing(u)' => Writing(u)
    BY <1>1, <1>2, <2>1 DEF Goto, Early, Holding, Writing
  <2> QED BY <1>1, <1>2, <2>1, <2>2, OwnWithout
<1> QED BY <1>3, <1>4

\* A file removed or renamed is the task's own.
LEMMA OwnRename ==
    ASSUME OwnInv, TypeInv', NEW t \in Transfers, Cleanup(t) \/ (Rename(t) /\ goal[t] \in PublicNames)
    PROVE  OwnInv'
<1>1. /\ rcv \in [Transfers -> Phases] /\ token \in [Transfers -> Tokens]
      /\ dir \in [FileNames -> Contents] /\ rxSeq \in Nat
  BY DEF OwnInv, TypeInv, TypeOK, Phases
<1>2. Holding(t) /\ UNCHANGED <<received, token, rxSeq>>
  BY DEF Cleanup, Rename, Holding, Writing
<1>3. PICK p \in Ended : Goto(t, p)
  BY DEF Cleanup, Rename, Ended
<1>4. \A u \in Transfers : IF u = t THEN ~Early(u)' /\ ~Holding(u)' /\ ~Writing(u)'
                                     ELSE rcv'[u] = rcv[u]
  BY <1>1, <1>3 DEF Goto, Ended, Early, Holding, Writing
<1>5. Fresh' /\ Distinct'
  BY <1>2, <1>4 DEF OwnInv, Fresh, Distinct, Early, Holding, Writing
<1>6. \A k \in Tokens : k # token[t] => dir'[Temp(k)] = dir[Temp(k)]
  BY <1>1 DEF Cleanup, Rename, Temp, FileNames, PublicNames, Real, Alt
<1>7. TempIsOwn'
  <2> SUFFICES ASSUME NEW u \in Transfers, Writing(u)'
               PROVE  dir'[Temp(token[u])] = Content(u, received[u])
    BY <1>2 DEF TempIsOwn, Writing
  <2>1. u # t /\ Writing(u)
    BY <1>4 DEF Writing
  <2> QED BY <1>2, <1>6, <2>1, OwnOthers
<1> QED BY <1>5, <1>7 DEF OwnInv

-----------------------------------------------------------------------------
(* Only whole files appear.                                                *)

\* A file to be published has all its bytes; a name reserved is still the
\* reserver's when it renames; and what has a public name is the user's, an empty
\* file or a whole one.
Received == \A t \in Transfers : rcv[t] \in {"publish", "collision", "rename"} =>
                received[t] = Declared[t]
Reserved == \A t \in Transfers : rcv[t] = "rename" =>
                goal[t] \in PublicNames /\ dir[goal[t]] = Content(t, 0)
PublicWhole == \A f \in PublicNames : dir[f].of \in Transfers =>
                dir[f].bytes \in {0, Declared[dir[f].of]}

DropInv == OwnInv /\ Received /\ Reserved /\ PublicWhole

\* The steps the names and the temporary files are touched by.
ReservesName(t, f) ==
    /\ rcv[t] \in {"publish", "collision"} /\ f \in PublicNames /\ ~Exists(f)
    /\ Goto(t, "rename")
    /\ goal' = [goal EXCEPT ![t] = f]
    /\ dir' = [dir EXCEPT ![f] = Content(t, 0)]
    /\ UNCHANGED <<file, received, token, rxSeq, faults, crashes>>

SamePublic == \A f \in PublicNames : dir'[f] = dir[f]

\* Every other step leaves the public names alone, and nobody gets to the rename
\* by it.
Quiet == /\ UNCHANGED <<file, goal>> /\ SamePublic
         /\ \A t \in Transfers :
                /\ rcv'[t] = "rename" => rcv[t] = "rename" /\ received'[t] = received[t]
                /\ rcv'[t] \in {"publish", "collision"} => received'[t] = Declared[t]

LEMMA DropInvInit == Init => DropInv
<1> SUFFICES ASSUME Init PROVE DropInv
  OBVIOUS
<1>1. OwnInv /\ Received /\ Reserved
  BY OwnInit DEF Init, Received, Reserved
<1>2. PublicWhole
  <2>1. PublicNames \subseteq FileNames
    BY DEF FileNames
  <2>2. \A f \in PublicNames : dir[f].bytes = 0
    BY <2>1 DEF Init, Content
  <2> QED BY <2>2 DEF PublicWhole
<1> QED BY <1>1, <1>2 DEF DropInv

LEMMA DropQuiet ==
    ASSUME DropInv, OwnInv', Quiet
    PROVE  DropInv'
<1>1. UNCHANGED <<Declared, goal>> /\ SamePublic
  BY DEF Quiet, Declared
<1>2. Received'
  BY <1>1 DEF Quiet, DropInv, Received
<1>3. Reserved'
  BY <1>1 DEF Quiet, SamePublic, DropInv, Reserved
<1>4. PublicWhole'
  BY <1>1 DEF SamePublic, DropInv, PublicWhole
<1> QED BY <1>2, <1>3, <1>4 DEF DropInv

\* Which steps are quiet: all but those that reserve a name and the rename.
LEMMA QuietSender ==
    ASSUME DropInv, NEW t \in Transfers, Sender(t)
    PROVE  OwnInv' /\ Quiet
<1>1. UNCHANGED <<file, recvVars>> /\ TypeInv
  BY SenderSends DEF DropInv, OwnInv
<1>2. TypeInv'
  BY <1>1, TypesNext DEF Next
<1>3. OwnInv'
  BY <1>1, <1>2 DEF recvVars, DropInv, OwnInv, Fresh, Distinct, TempIsOwn, Early, Holding, Writing
<1> QED BY <1>1, <1>3 DEF Quiet, SamePublic, recvVars, DropInv, Received

LEMMA QuietOther ==
    ASSUME DropInv, NEW t \in Transfers, NEW p \in Phases, Goto(t, p),
           UNCHANGED <<file, received, token, goal, rxSeq, dir>>, TypeInv',
           p # "rename", ~Early(t) => p \notin {"none", "tls", "offer", "open"},
           ~Holding(t) => p \notin {"body", "publish", "collision", "cleanup"},
           ~Writing(t) => p \notin {"body", "publish", "collision"},
           p \in {"publish", "collision"} => received[t] = Declared[t]
    PROVE  OwnInv' /\ Quiet
<1>1. rcv \in [Transfers -> Phases] /\ rxSeq \in Int
  BY DEF DropInv, OwnInv, TypeInv, TypeOK, Phases
<1>2. \A u \in Transfers : rcv'[u] = IF u = t THEN p ELSE rcv[u]
  BY <1>1 DEF Goto
<1>3. \A u \in Transfers : /\ Early(u)' => Early(u)
                           /\ Holding(u)' => Holding(u)
                           /\ Writing(u)' => Writing(u)
  BY <1>2 DEF Early, Holding, Writing
<1>4. OwnInv'
  BY <1>1, <1>3, OwnWithout DEF DropInv
<1> QED BY <1>2, <1>4 DEF Quiet, SamePublic, DropInv, Received

LEMMA PublicNotTemp ==
    ASSUME NEW f \in PublicNames, NEW k
    PROVE  f # Temp(k) /\ f \in FileNames
BY DEF PublicNames, Real, Alt, Temp, FileNames

LEMMA QuietReceiver ==
    ASSUME DropInv, NEW t \in Transfers, Receiver(t) \/ DiskFails(t)
    PROVE  \/ OwnInv' /\ Quiet
           \/ \E f \in PublicNames : ReservesName(t, f)
           \/ Rename(t)
<1>1. /\ rcv \in [Transfers -> Phases] /\ Wanted[t] \in RealNames \cup {BadName}
      /\ token \in [Transfers -> Tokens] /\ dir \in [FileNames -> Contents]
      /\ (Taken(t) => Wanted[t] # BadName)
  BY SetupTypes DEF DropInv, OwnInv, TypeInv, TypeOK, Named, Phases
<1>2. TypeInv' /\ OwnInv
  BY TypesReceiver DEF DropInv, OwnInv
<1>3. CASE Accept(t)
  <2>1. PICK p \in {"failed", "tls", "offer"} : Goto(t, p)
    <3>1. Goto(t, "failed") \/ Goto(t, "tls") \/ Goto(t, "offer")
      BY <1>3 DEF Accept
    <3> QED BY <3>1
  <2> QED BY <1>2, <1>3, <2>1, QuietOther DEF Accept, senderVars, Early, Phases, Ended
<1>4. CASE Secured(t)
  <2>1. PICK p \in {"failed", "offer"} : Goto(t, p)
    BY <1>4 DEF Secured
  <2> QED BY <1>2, <1>4, <2>1, QuietOther DEF Secured, senderVars, Early, Phases, Ended
<1>5. CASE TakeOffer(t)
  <2>1. PICK p \in {"failed", "open"} : Goto(t, p)
    BY <1>5 DEF TakeOffer
  <2> QED BY <1>2, <1>5, <2>1, QuietOther DEF TakeOffer, senderVars, Early, Phases, Ended
<1>6. CASE NoOffer(t)
  BY <1>2, <1>6, QuietOther DEF NoOffer, Abandon, senderVars, Phases, Ended
<1>7. CASE OpenTemp(t)
  <2>1. OwnInv'
    BY <1>2, <1>7, OwnOpenTemp
  <2>2. UNCHANGED <<file, goal, received>> /\ (Goto(t, "body") \/ Goto(t, "cleanup"))
    BY <1>7 DEF OpenTemp, senderVars
  <2>3. SamePublic
    BY <1>1, <1>7, PublicNotTemp DEF OpenTemp, SamePublic
  <2> QED BY <1>1, <2>1, <2>2, <2>3 DEF Goto, Quiet, DropInv, Received
<1>8. CASE TakeChunk(t)
  <2>1. OwnInv'
    BY <1>2, <1>8, OwnTakeChunk
  <2>2. rcv[t] = "body" /\ UNCHANGED <<file, goal>> /\ (rcv' = rcv \/ Goto(t, "cleanup"))
        /\ \A u \in Transfers \ {t} : received'[u] = received[u]
    <3>1. received \in [Transfers -> Nat]
      BY <1>2 DEF OwnInv, TypeInv, TypeOK
    <3>2. \/ rcv' = rcv /\ received' = [received EXCEPT ![t] = @ + Head(toRecv[t]).len]
          \/ Goto(t, "cleanup") /\ received' = received
      BY <1>8 DEF TakeChunk
    <3> QED BY <1>8, <3>1, <3>2 DEF TakeChunk, senderVars
  <2>3. SamePublic
    BY <1>1, <1>8, PublicNotTemp DEF TakeChunk, SamePublic
  <2> QED BY <1>1, <2>1, <2>2, <2>3 DEF Goto, Quiet, DropInv, Received
<1>9. CASE TakeEnd(t)
  <2>1. PICK p \in {"publish", "cleanup"} :
            Goto(t, p) /\ (p = "publish" => received[t] = Declared[t])
    BY <1>9 DEF TakeEnd, Complete
  <2> QED BY <1>2, <1>9, <2>1, QuietOther
          DEF TakeEnd, senderVars, Early, Holding, Writing, Phases, Ended
<1>10. CASE Stalled(t) \/ DiskFails(t)
  <2>1. Goto(t, "cleanup") /\ Writing(t) /\ UNCHANGED <<file, received, token, goal, rxSeq, dir>>
    BY <1>10 DEF Stalled, Abandon, DiskFails, Writing, senderVars
  <2> QED BY <1>2, <2>1, QuietOther DEF Early, Holding, Writing, Phases, Ended
<1>11. CASE ReserveReal(t) \/ ReserveAlt(t)
  <2>1. UNCHANGED <<file, received, token, rxSeq, faults, crashes>>
        /\ rcv[t] \in {"publish", "collision"} /\ received[t] = Declared[t]
    BY <1>11 DEF ReserveReal, ReserveAlt, senderVars, DropInv, Received
  <2>2. Real(Wanted[t]) \in PublicNames /\ Alt(token[t], Wanted[t]) \in PublicNames
    BY <1>1, <2>1 DEF PublicNames, Taken, Writing
  <2>3. \/ \E p \in {"collision", "cleanup"} : Goto(t, p) /\ UNCHANGED <<goal, dir>>
        \/ \E f \in PublicNames : ReservesName(t, f)
    BY <1>11, <2>1, <2>2 DEF ReserveReal, ReserveAlt, ReservesName
  <2>4. ASSUME NEW p \in {"collision", "cleanup"}, Goto(t, p) /\ UNCHANGED <<goal, dir>>
        PROVE  OwnInv' /\ Quiet
    BY <1>2, <2>1, <2>4, QuietOther DEF Early, Holding, Writing, Phases, Ended
  <2> QED BY <2>3, <2>4
<1>12. CASE Cleanup(t)
  <2>1. OwnInv'
    BY <1>2, <1>12, OwnRename
  <2>2. UNCHANGED <<file, goal, received>> /\ Goto(t, "failed")
    BY <1>12 DEF Cleanup, senderVars
  <2>3. SamePublic
    BY <1>1, <1>12, PublicNotTemp DEF Cleanup, SamePublic
  <2> QED BY <1>1, <2>1, <2>2, <2>3 DEF Goto, Quiet, DropInv, Received
<1> QED BY <1>3, <1>4, <1>5, <1>6, <1>7, <1>8, <1>9, <1>10, <1>11, <1>12 DEF Receiver

LEMMA QuietNext ==
    ASSUME DropInv, [Next]_vars
    PROVE  \/ OwnInv' /\ Quiet
           \/ \E t \in Transfers, f \in PublicNames : ReservesName(t, f)
           \/ \E t \in Transfers : Rename(t)
<1>1. TypeInv' /\ OwnInv
  BY TypesNext DEF DropInv, OwnInv
<1>2. CASE Crash
  <2>1. UNCHANGED <<file, received, token, goal, dir>>
        /\ \A t \in Transfers : /\ rcv'[t] \in {"none"} \cup Ended
                                /\ rcv'[t] = "none" => rcv[t] = "none"
    BY <1>1, <1>2 DEF Crash, Ended, senderVars, OwnInv, TypeInv, Idle
  <2>2. Fresh'
    BY <1>1, <2>1 DEF OwnInv, Fresh, Early, Ended
  <2>3. Distinct' /\ TempIsOwn'
    BY <2>1 DEF Distinct, TempIsOwn, Holding, Writing, Ended
  <2> QED BY <1>1, <2>1, <2>2, <2>3 DEF OwnInv, Quiet, SamePublic, Ended
<1>3. CASE UNCHANGED vars
  <2>1. OwnInv'
    BY <1>1, <1>3 DEF vars, recvVars, OwnInv, Fresh, Distinct, TempIsOwn, Early, Holding, Writing
  <2> QED BY <1>3, <2>1 DEF vars, senderVars, recvVars, Quiet, SamePublic, DropInv, Received
<1> QED BY <1>2, <1>3, QuietSender, QuietReceiver DEF Next

LEMMA DropReserves ==
    ASSUME DropInv, TypeInv', NEW t \in Transfers, NEW f \in PublicNames, ReservesName(t, f)
    PROVE  DropInv'
<1>1. /\ rcv \in [Transfers -> Phases] /\ goal \in [Transfers -> FileNames]
      /\ dir \in [FileNames -> Contents] /\ rxSeq \in Int /\ f \in FileNames
      /\ UNCHANGED <<received, token, rxSeq>> /\ Declared' = Declared
  BY PublicNotTemp
     DEF DropInv, OwnInv, TypeInv, TypeOK, Phases, ReservesName, Declared
<1>2. \A u \in Transfers : rcv'[u] = IF u = t THEN "rename" ELSE rcv[u]
  BY <1>1 DEF ReservesName, Goto
<1>3. \A g \in FileNames : dir'[g] = IF g = f THEN Content(t, 0) ELSE dir[g]
  BY <1>1 DEF ReservesName
<1>4. \A u \in Transfers : goal'[u] = IF u = t THEN f ELSE goal[u]
  BY <1>1 DEF ReservesName
<1>5. OwnInv'
  <2>1. ASSUME NEW u \in Transfers
        PROVE  (Early(u)' => Early(u)) /\ (Holding(u)' => Holding(u)) /\ (Writing(u)' => Writing(u))
    BY <1>2 DEF ReservesName, Early, Holding, Writing
  <2>2. \A k \in Tokens : dir'[Temp(k)] = dir[Temp(k)]
    BY <1>3, PublicNotTemp DEF FileNames
  <2> QED BY <1>1, <2>1, <2>2, OwnWithout DEF DropInv
<1>6. Received'
  BY <1>1, <1>2 DEF ReservesName, DropInv, Received
<1>7. Reserved'
  <2> SUFFICES ASSUME NEW u \in Transfers, rcv'[u] = "rename"
               PROVE  goal'[u] \in PublicNames /\ dir'[goal'[u]] = Content(u, 0)
    BY DEF Reserved
  <2>1. CASE u = t
    BY <1>1, <1>3, <1>4, <2>1
  <2>2. CASE u # t
    <3>1. goal'[u] = goal[u] /\ goal[u] \in PublicNames /\ dir[goal[u]] = Content(u, 0)
      BY <1>2, <1>4, <2>2 DEF DropInv, Reserved
    <3>2. goal[u] # f
      <4>1. dir[goal[u]].of = u /\ u # NoFile
        BY <3>1, TransferAssumption DEF Content
      <4> QED BY <4>1 DEF ReservesName, Exists
    <3> QED BY <1>3, <3>1, <3>2, PublicNotTemp
  <2> QED BY <2>1, <2>2
<1>8. PublicWhole'
  <2> SUFFICES ASSUME NEW g \in PublicNames, dir'[g].of \in Transfers
               PROVE  dir'[g].bytes \in {0, Declared[dir'[g].of]}
    BY <1>1 DEF PublicWhole
  <2>1. CASE g = f
    BY <1>1, <1>3, <2>1 DEF Content
  <2>2. CASE g # f
    BY <1>3, <2>2, PublicNotTemp DEF DropInv, PublicWhole
  <2> QED BY <2>1, <2>2
<1> QED BY <1>5, <1>6, <1>7, <1>8 DEF DropInv

\* What a rename does: the public name has the whole file.
LEMMA RenameMoves ==
    ASSUME DropInv, NEW t \in Transfers, Rename(t)
    PROVE  /\ goal[t] \in PublicNames /\ dir[goal[t]] = Content(t, 0)
           /\ dir[Temp(token[t])] = Content(t, Declared[t])
           /\ \A g \in FileNames : dir'[g] = IF g = goal[t] THEN Content(t, Declared[t])
                                            ELSE IF g = Temp(token[t]) THEN Content(NoFile, 0)
                                            ELSE dir[g]
           /\ UNCHANGED <<file, received, goal, token>> /\ Declared' = Declared
           /\ \A u \in Transfers : rcv'[u] = IF u = t THEN "done" ELSE rcv[u]
<1>1. /\ rcv \in [Transfers -> Phases] /\ token \in [Transfers -> Tokens]
      /\ dir \in [FileNames -> Contents]
  BY DEF DropInv, OwnInv, TypeInv, TypeOK, Phases
<1>2. goal[t] \in PublicNames /\ dir[goal[t]] = Content(t, 0) /\ received[t] = Declared[t]
  BY DEF Rename, DropInv, Reserved, Received
<1>3. dir[Temp(token[t])] = Content(t, Declared[t])
  BY <1>2 DEF Rename, DropInv, OwnInv, TempIsOwn
<1>4. goal[t] # Temp(token[t]) /\ goal[t] \in FileNames /\ Temp(token[t]) \in FileNames
  <2>1. Temp(token[t]) \in FileNames
    BY <1>1 DEF FileNames
  <2> QED BY <1>2, <2>1, PublicNotTemp
<1>5. \A g \in FileNames : dir'[g] = IF g = goal[t] THEN Content(t, Declared[t])
                                      ELSE IF g = Temp(token[t]) THEN Content(NoFile, 0)
                                      ELSE dir[g]
  BY <1>1, <1>3, <1>4 DEF Rename
<1>6. \A u \in Transfers : rcv'[u] = IF u = t THEN "done" ELSE rcv[u]
  BY <1>1 DEF Rename, Goto
<1> QED BY <1>2, <1>3, <1>5, <1>6 DEF Rename, senderVars, Declared

LEMMA DropRename ==
    ASSUME DropInv, TypeInv', NEW t \in Transfers, Rename(t)
    PROVE  DropInv'
<1>1. OwnInv'
  BY RenameMoves, OwnRename DEF DropInv
<1>2. Received'
  BY RenameMoves DEF DropInv, Received
<1>3. ASSUME NEW u \in Transfers, u # t, rcv[u] = "rename"
      PROVE  goal[u] # goal[t] /\ goal[u] \in PublicNames /\ dir[goal[u]] = Content(u, 0)
  <2>1. goal[u] \in PublicNames /\ dir[goal[u]] = Content(u, 0)
    BY <1>3 DEF DropInv, Reserved
  <2>2. dir[goal[t]] = Content(t, 0)
    BY RenameMoves
  <2> QED BY <1>3, <2>1, <2>2 DEF Content
<1>4. Reserved'
  BY <1>3, RenameMoves, PublicNotTemp DEF Reserved
<1>5. PublicWhole'
  <2> SUFFICES ASSUME NEW g \in PublicNames, dir'[g].of \in Transfers
               PROVE  dir'[g].bytes \in {0, Declared[dir'[g].of]}
    BY RenameMoves DEF PublicWhole
  <2>1. CASE g = goal[t]
    <3>1. dir'[g] = Content(t, Declared[t])
      <4>1. g \in FileNames
        BY PublicNotTemp
      <4> QED BY <2>1, <4>1, RenameMoves
    <3> QED BY <3>1 DEF Content
  <2>2. CASE g # goal[t]
    BY <2>2, RenameMoves, PublicNotTemp DEF DropInv, PublicWhole
  <2> QED BY <2>1, <2>2
<1> QED BY <1>1, <1>2, <1>4, <1>5 DEF DropInv

LEMMA DropInvNext == DropInv /\ [Next]_vars => DropInv'
<1> SUFFICES ASSUME DropInv, [Next]_vars PROVE DropInv'
  OBVIOUS
<1>1. TypeInv'
  BY TypesNext DEF DropInv, OwnInv
<1> QED BY <1>1, QuietNext, DropQuiet, DropReserves, DropRename

\* As long as a transfer writes, its temporary file holds exactly what it has
\* accepted, however many write at the same time and whatever a crash left behind.
THEOREM FileTempIsOwn == Spec => []TempIsOwn
<1>1. DropInv => TempIsOwn
  BY DEF DropInv, OwnInv
<1> QED BY <1>1, DropInvInit, DropInvNext, PTL DEF Spec

-----------------------------------------------------------------------------
(* The directory implements FileDrop.                                      *)

Shown == [f \in PublicNames |-> Visible(dir[f])]

LEMMA VisibleFiles ==
    ASSUME TypeOK, NEW c
    PROVE  /\ c.of \notin Transfers => Visible(c) = c.of
           /\ \A t \in Transfers : c = Content(t, Declared[t]) => Visible(c) = t
           /\ \A t \in Transfers : c = Content(t, 0) /\ Declared[t] # 0 => Visible(c) = NoFile
<1>1. ASSUME c.of \notin Transfers PROVE Visible(c) = c.of
  BY <1>1 DEF Visible, Placeholder, Whole
<1>2. ASSUME NEW t \in Transfers, c = Content(t, Declared[t]) PROVE Visible(c) = t
  <2>1. c.of = t /\ c.bytes = Declared[t]
    BY <1>2 DEF Content
  <2>2. Whole(c) /\ ~Placeholder(c)
    BY <2>1 DEF Whole, Placeholder
  <2> QED BY <2>1, <2>2 DEF Visible
<1>3. ASSUME NEW t \in Transfers, c = Content(t, 0), Declared[t] # 0 PROVE Visible(c) = NoFile
  <2>1. c.of = t /\ c.bytes = 0 /\ Declared[t] \in Nat
    BY <1>3, SetupTypes DEF Content
  <2>2. Placeholder(c) /\ ~Whole(c)
    BY <1>3, <2>1 DEF Whole, Placeholder
  <2> QED BY <2>1, <2>2 DEF Visible
<1> QED BY <1>1, <1>2, <1>3

LEMMA VisibleNext ==
    ASSUME TypeOK, file' = file, NEW f
    PROVE  /\ \A t \in Transfers : dir'[f] = Content(t, Declared[t]) => Visible(dir[f])' = t
           /\ \A t \in Transfers : dir'[f] = Content(t, 0) /\ Declared[t] # 0 =>
                                      Visible(dir[f])' = NoFile
<1>1. Visible(dir[f])' = Visible(dir'[f])
  BY DEF Visible, Placeholder, Whole, Declared
<1> QED BY <1>1, VisibleFiles

LEMMA DropStarts == Init => Drop!DropInit
<1> SUFFICES ASSUME Init PROVE Shown \in [PublicNames -> {NoFile, UserFile}]
  BY DEF Drop!DropInit, Shown
<1>1. TypeOK
  BY TypesInit DEF TypeInv
<1>2. \A f \in PublicNames : dir[f].of \in {UserFile, NoFile}
  BY PublicNotTemp DEF Init, Content
<1>3. \A f \in PublicNames : Visible(dir[f]) \in {NoFile, UserFile}
  BY <1>1, <1>2, VisibleFiles, TransferAssumption
<1> QED BY <1>3 DEF Shown

LEMMA DropStutters ==
    ASSUME SamePublic, file' = file
    PROVE  Shown' = Shown
<1>1. \A f \in PublicNames : Visible(dir[f])' = Visible(dir[f])
  BY DEF SamePublic, Visible, Placeholder, Whole, Declared
<1> QED BY <1>1 DEF Shown

\* A name that shows a whole file after a step, and nothing before it.
LEMMA DropPublishes ==
    ASSUME file' = file, NEW t \in Transfers, NEW f \in PublicNames,
           Visible(dir[f]) = NoFile, Visible(dir[f])' = t,
           \A g \in PublicNames : g # f => dir'[g] = dir[g]
    PROVE  Drop!DropNext
<1>1. \A g \in PublicNames : g # f => Visible(dir[g])' = Visible(dir[g])
  BY DEF Visible, Placeholder, Whole, Declared
<1>2. Shown[f] = NoFile /\ Shown' = [Shown EXCEPT ![f] = t]
  BY <1>1 DEF Shown
<1> QED BY <1>2 DEF Drop!DropNext, Drop!Publish, Shown

\* A name that shows the same before and after a step on it alone.
LEMMA DropKeeps ==
    ASSUME file' = file, NEW f \in PublicNames, Visible(dir[f])' = Visible(dir[f]),
           \A g \in PublicNames : g # f => dir'[g] = dir[g]
    PROVE  Shown' = Shown
<1>1. \A g \in PublicNames : Visible(dir[g])' = Visible(dir[g])
  <2> SUFFICES ASSUME NEW g \in PublicNames, g # f PROVE Visible(dir[g])' = Visible(dir[g])
    OBVIOUS
  <2> QED BY DEF Visible, Placeholder, Whole, Declared
<1> QED BY <1>1 DEF Shown

LEMMA DropSteps ==
    ASSUME DropInv, [Next]_vars
    PROVE  Drop!DropNext \/ Shown' = Shown
<1>1. TypeOK /\ TypeOK'
  BY TypesNext DEF DropInv, OwnInv, TypeInv
<1>2. CASE Quiet
  BY <1>2, DropStutters DEF Quiet
<1>3. ASSUME NEW t \in Transfers, NEW f \in PublicNames, ReservesName(t, f)
      PROVE  Drop!DropNext \/ Shown' = Shown
  <2>1. file' = file /\ Declared' = Declared /\ dir[f].of = NoFile
        /\ \A g \in FileNames : dir'[g] = IF g = f THEN Content(t, 0) ELSE dir[g]
    BY <1>1, <1>3 DEF ReservesName, Exists, Declared, TypeOK
  <2>2. Visible(dir[f]) = NoFile
    BY <1>1, <2>1, VisibleFiles, TransferAssumption
  <2>3. \A g \in PublicNames : g # f => dir'[g] = dir[g]
    BY <2>1, PublicNotTemp
  <2>4. dir'[f] = Content(t, 0)
    BY <2>1, PublicNotTemp
  <2>5. CASE Declared[t] = 0
    <3>1. Visible(dir[f])' = t
      BY <1>1, <2>1, <2>4, <2>5, VisibleNext
    <3> QED BY <2>1, <2>2, <2>3, <3>1, DropPublishes
  <2>6. CASE Declared[t] # 0
    <3>1. Visible(dir[f])' = NoFile
      BY <1>1, <2>1, <2>4, <2>6, VisibleNext
    <3> QED BY <2>1, <2>2, <2>3, <3>1, DropKeeps
  <2> QED BY <2>5, <2>6
<1>4. ASSUME NEW t \in Transfers, Rename(t)
      PROVE  Drop!DropNext \/ Shown' = Shown
  <2>1. PICK f \in PublicNames : /\ file' = file /\ dir[f] = Content(t, 0)
                                 /\ dir'[f] = Content(t, Declared[t])
                                 /\ \A g \in PublicNames : g # f => dir'[g] = dir[g]
    BY <1>4, RenameMoves, PublicNotTemp
  <2>2. Visible(dir[f])' = t
    BY <1>1, <2>1, VisibleNext
  <2>3. CASE Declared[t] = 0
    <3>1. Visible(dir[f]) = t
      BY <1>1, <2>1, <2>3, VisibleFiles
    <3> QED BY <2>1, <2>2, <3>1, DropKeeps
  <2>4. CASE Declared[t] # 0
    <3>1. Visible(dir[f]) = NoFile
      BY <1>1, <2>1, <2>4, VisibleFiles
    <3> QED BY <2>1, <2>2, <3>1, DropPublishes
  <2> QED BY <2>3, <2>4
<1> QED BY <1>2, <1>3, <1>4, QuietNext

\* A file appears in the download directory whole, at once and under a name nothing
\* had, and is never touched again, for any number of transfers, names and crashes.
THEOREM FileImplementsDrop == Spec => ImplementsDrop
<1>1. DropInv /\ [Next]_vars => [Drop!DropNext]_Shown
  BY DropSteps
<1> QED BY <1>1, DropStarts, DropInvInit, DropInvNext, PTL
        DEF Spec, ImplementsDrop, Drop!DropSpec, Shown

-----------------------------------------------------------------------------
(* Nothing is left behind.                                                 *)

\* Every file that was not there before is accounted for: it is the temporary file of
\* a task that holds it, the empty file with which a task has reserved its name, which
\* stays when the rename fails, or the file of a task that is done.
Owner(f) == dir[f].of

\* Phases of a task that has reserved a name, or had one when it failed.
Placed == {"rename", "cleanup", "failed"}

Accounted(f) ==
    /\ Owner(f) \in Transfers
    /\ \/ Holding(Owner(f)) /\ f = Temp(token[Owner(f)])
       \/ rcv[Owner(f)] \in Placed /\ f = goal[Owner(f)] /\ dir[f].bytes = 0
       \/ rcv[Owner(f)] = "done" /\ f = goal[Owner(f)] /\ Whole(dir[f])

OrphanInv == crashes = 0 =>
                \A f \in FileNames : Exists(f) /\ Owner(f) # UserFile => Accounted(f)

LEMMA OrphanInit == Init => OrphanInv
<1> SUFFICES ASSUME Init PROVE OrphanInv
  OBVIOUS
<1>1. \A f \in FileNames : Owner(f) \in {UserFile, NoFile}
  BY DEF Init, Owner, Content
<1> QED BY <1>1 DEF OrphanInv, Exists, Owner

\* Of a file that a step leaves as it is, when its owner goes on holding it.
LEMMA StillAccounted ==
    ASSUME NEW f \in FileNames, Accounted(f), dir'[f] = dir[f], file' = file,
           NEW u \in Transfers, Owner(f) = u, goal'[u] = goal[u], token'[u] = token[u],
           Holding(u) => Holding(u)', rcv[u] = "done" => rcv'[u] = "done",
           rcv[u] \in Placed => rcv'[u] \in Placed
    PROVE  Accounted(f)'
BY DEF Accounted, Owner, Holding, Writing, Whole, Declared

\* The step of one task, on files none or its own.
LEMMA OrphanMoves ==
    ASSUME TypeOK, OrphanInv, NEW t \in Transfers, NEW p \in Phases, Goto(t, p),
           UNCHANGED <<file, token, goal, dir, crashes>>, Holding(t) => Holding(t)',
           rcv[t] # "done", rcv[t] \in Placed => p \in Placed
    PROVE  OrphanInv'
<1>1. rcv \in [Transfers -> Phases]
  BY DEF TypeOK, Phases
<1>2. \A u \in Transfers : u # t => rcv'[u] = rcv[u]
  BY <1>1 DEF Goto
<1>7. rcv'[t] = p
  BY <1>1 DEF Goto
<1> SUFFICES ASSUME crashes = 0, NEW f \in FileNames, Exists(f), Owner(f) # UserFile
             PROVE  Accounted(f)'
  BY DEF OrphanInv, Exists, Owner
<1>3. Accounted(f)
  BY DEF OrphanInv
<1>4. Owner(f) \in Transfers
  BY <1>3 DEF Accounted
<1>5. CASE Owner(f) = t
  BY <1>3, <1>5, <1>7, StillAccounted
<1>6. CASE Owner(f) # t
  BY <1>2, <1>3, <1>4, <1>6, StillAccounted DEF Holding, Writing
<1> QED BY <1>5, <1>6

\* The steps that touch files.
LEMMA OrphanOpenTemp ==
    ASSUME DropInv, OrphanInv, NEW t \in Transfers, OpenTemp(t)
    PROVE  OrphanInv'
<1>1. /\ rcv \in [Transfers -> Phases] /\ token \in [Transfers -> Tokens]
      /\ dir \in [FileNames -> Contents]
  BY DEF DropInv, OwnInv, TypeInv, TypeOK, Phases
<1>2. rcv[t] = "open" /\ token' = [token EXCEPT ![t] = rxSeq]
      /\ UNCHANGED <<file, goal, crashes>> /\ (Goto(t, "body") \/ Goto(t, "cleanup"))
  BY DEF OpenTemp, senderVars
<1>3. \A u \in Transfers : u # t => rcv'[u] = rcv[u] /\ token'[u] = token[u]
  BY <1>1, <1>2 DEF Goto
<1> SUFFICES ASSUME crashes = 0,
                    NEW f \in FileNames, Exists(f)', Owner(f)' # UserFile
             PROVE  Accounted(f)'
  BY <1>2 DEF OrphanInv
<1>4. CASE dir'[f] = dir[f]
  <2>1. Accounted(f) /\ Owner(f) \in Transfers
    BY <1>4 DEF OrphanInv, Exists, Owner, Accounted
  <2>2. Owner(f) # t
    BY <1>2, <2>1 DEF Accounted, Holding, Writing, Placed
  <2> QED BY <1>2, <1>3, <1>4, <2>1, <2>2, StillAccounted DEF Holding, Writing
<1>5. CASE dir'[f] # dir[f]
  <2>1. dir' = [dir EXCEPT ![Temp(rxSeq)] = Content(t, 0)] /\ Goto(t, "body")
    BY <1>5 DEF OpenTemp
  <2>2. f = Temp(rxSeq) /\ dir'[f] = Content(t, 0)
    BY <1>1, <1>5, <2>1
  <2>3. rcv'[t] = "body" /\ token'[t] = rxSeq
    BY <1>1, <1>2, <2>1 DEF Goto
  <2> QED BY <2>2, <2>3 DEF Accounted, Owner, Content, Holding, Writing
<1> QED BY <1>4, <1>5

LEMMA OrphanTakeChunk ==
    ASSUME DropInv, OrphanInv, NEW t \in Transfers, TakeChunk(t)
    PROVE  OrphanInv'
<1>1. /\ rcv \in [Transfers -> Phases] /\ token \in [Transfers -> Tokens]
      /\ dir \in [FileNames -> Contents] /\ TypeOK
  BY DEF DropInv, OwnInv, TypeInv, TypeOK, Phases
<1>2. rcv[t] = "body" /\ UNCHANGED <<file, token, goal, crashes>>
  BY DEF TakeChunk, senderVars
<1>3. CASE Goto(t, "cleanup") /\ dir' = dir
  <2>1. Holding(t)'
    BY <1>1, <1>3 DEF Goto, Holding
  <2> QED BY <1>1, <1>2, <1>3, <2>1, OrphanMoves DEF Phases, Placed
<1>4. ASSUME rcv' = rcv, NEW n, dir' = [dir EXCEPT ![Temp(token[t])].bytes = @ + n]
      PROVE  OrphanInv'
  <2> SUFFICES ASSUME crashes = 0,
                      NEW f \in FileNames, Exists(f)', Owner(f)' # UserFile
               PROVE  Accounted(f)'
    BY <1>2 DEF OrphanInv
  <2>1. dir[Temp(token[t])].of = t
    <3>1. dir[Temp(token[t])] = Content(t, received[t])
      BY <1>2 DEF DropInv, OwnInv, TempIsOwn
    <3> QED BY <3>1 DEF Content
  <2>2. dir'[f].of = dir[f].of
    BY <1>1, <1>4 DEF Contents
  <2>3. Accounted(f)
    BY <2>2 DEF OrphanInv, Exists, Owner
  <2>4. CASE Owner(f) = t
    BY <1>2, <1>4, <2>2, <2>3, <2>4 DEF Accounted, Owner, Holding, Writing, Placed
  <2>5. CASE Owner(f) # t
    <3>1. dir'[f] = dir[f] /\ Owner(f) \in Transfers
      BY <1>1, <1>4, <2>1, <2>3, <2>5 DEF Owner, Accounted
    <3> QED BY <1>2, <1>4, <2>3, <3>1, StillAccounted DEF Holding, Writing
  <2> QED BY <2>4, <2>5
<1>5. \/ Goto(t, "cleanup") /\ dir' = dir
      \/ rcv' = rcv /\ dir' = [dir EXCEPT ![Temp(token[t])].bytes = @ + Head(toRecv[t]).len]
  BY DEF TakeChunk
<1> QED BY <1>3, <1>4, <1>5

LEMMA OrphanReserves ==
    ASSUME DropInv, OrphanInv, NEW t \in Transfers, NEW g \in PublicNames, ReservesName(t, g)
    PROVE  OrphanInv'
<1>1. /\ rcv \in [Transfers -> Phases] /\ goal \in [Transfers -> FileNames]
      /\ dir \in [FileNames -> Contents] /\ UNCHANGED <<file, token, crashes>>
  BY DEF DropInv, OwnInv, TypeInv, TypeOK, Phases, ReservesName
<1>2. \A u \in Transfers : u # t => rcv'[u] = rcv[u] /\ goal'[u] = goal[u]
  BY <1>1 DEF ReservesName, Goto
<1>3. rcv'[t] = "rename" /\ goal'[t] = g /\ Holding(t) /\ rcv[t] \in {"publish", "collision"}
  BY <1>1 DEF ReservesName, Goto, Holding, Writing
<1> SUFFICES ASSUME crashes = 0,
                    NEW f \in FileNames, Exists(f)', Owner(f)' # UserFile
             PROVE  Accounted(f)'
  BY <1>1 DEF OrphanInv
<1>4. CASE f = g
  <2>1. dir'[f] = Content(t, 0)
    BY <1>1, <1>4 DEF ReservesName
  <2> QED BY <1>3, <1>4, <2>1 DEF Accounted, Owner, Content, Placed
<1>5. CASE f # g
  <2>1. dir'[f] = dir[f]
    BY <1>1, <1>5 DEF ReservesName
  <2>2. Accounted(f) /\ Owner(f) \in Transfers
    BY <2>1 DEF OrphanInv, Exists, Owner, Accounted
  <2>3. CASE Owner(f) = t
    <3>1. f = Temp(token[t])
      BY <1>3, <2>2, <2>3 DEF Accounted, Placed
    <3> QED BY <1>1, <1>3, <2>1, <2>3, <3>1 DEF Accounted, Owner, Holding, Writing
  <2>4. CASE Owner(f) # t
    BY <1>1, <1>2, <2>1, <2>2, <2>4, StillAccounted DEF Holding, Writing
  <2> QED BY <2>3, <2>4
<1> QED BY <1>4, <1>5

LEMMA OrphanRename ==
    ASSUME DropInv, OrphanInv, NEW t \in Transfers, Rename(t)
    PROVE  OrphanInv'
<1>1. UNCHANGED <<file, token, goal, crashes>>
  BY DEF Rename, senderVars
<1> SUFFICES ASSUME crashes = 0,
                    NEW f \in FileNames, Exists(f)', Owner(f)' # UserFile
             PROVE  Accounted(f)'
  BY <1>1 DEF OrphanInv
<1>2. CASE f = goal[t]
  <2>1. dir'[f] = Content(t, Declared[t]) /\ Declared' = Declared /\ rcv'[t] = "done"
    BY <1>2, RenameMoves
  <2> QED BY <1>1, <1>2, <2>1 DEF Accounted, Owner, Content, Whole
<1>3. CASE f # goal[t]
  <2>1. f # Temp(token[t]) /\ dir'[f] = dir[f]
    <3>1. dir'[f] = IF f = Temp(token[t]) THEN Content(NoFile, 0) ELSE dir[f]
      BY <1>3, RenameMoves
    <3>2. dir'[f].of # NoFile /\ Content(NoFile, 0).of = NoFile
      BY DEF Exists, Content
    <3> QED BY <3>1, <3>2
  <2>2. Accounted(f) /\ Owner(f) \in Transfers
    BY <2>1 DEF OrphanInv, Exists, Owner, Accounted
  <2>3. Owner(f) # t
    BY <1>3, <2>1, <2>2 DEF Accounted, Rename
  <2>4. rcv'[Owner(f)] = rcv[Owner(f)]
    BY <2>2, <2>3, RenameMoves
  <2> QED BY <1>1, <2>1, <2>2, <2>4, StillAccounted DEF Holding, Writing
<1> QED BY <1>2, <1>3

LEMMA OrphanCleanup ==
    ASSUME DropInv, OrphanInv, NEW t \in Transfers, Cleanup(t)
    PROVE  OrphanInv'
<1>1. /\ rcv \in [Transfers -> Phases] /\ dir \in [FileNames -> Contents]
      /\ UNCHANGED <<file, token, goal, crashes>>
  BY DEF Cleanup, senderVars, DropInv, OwnInv, TypeInv, TypeOK, Phases
<1> SUFFICES ASSUME crashes = 0,
                    NEW f \in FileNames, Exists(f)', Owner(f)' # UserFile
             PROVE  Accounted(f)'
  BY <1>1 DEF OrphanInv
<1>2. f # Temp(token[t]) /\ dir'[f] = dir[f]
  BY <1>1 DEF Cleanup, Exists, Content
<1>3. Accounted(f) /\ Owner(f) \in Transfers
  BY <1>2 DEF OrphanInv, Exists, Owner, Accounted
<1>4. CASE Owner(f) = t
  <2>1. f = goal[t] /\ dir[f].bytes = 0
    BY <1>2, <1>3, <1>4 DEF Accounted, Cleanup
  <2>2. rcv'[t] = "failed"
    BY <1>1 DEF Cleanup, Goto
  <2> QED BY <1>1, <1>2, <1>4, <2>1, <2>2 DEF Accounted, Owner, Placed
<1>5. CASE Owner(f) # t
  <2>1. rcv'[Owner(f)] = rcv[Owner(f)]
    BY <1>1, <1>3, <1>5 DEF Cleanup, Goto
  <2> QED BY <1>1, <1>2, <1>3, <2>1, StillAccounted DEF Holding, Writing
<1> QED BY <1>4, <1>5

\* Only the user's and whole files are left when nothing is under way.
LEMMA OrphanImplies == OrphanInv => NoOrphans
<1> SUFFICES ASSUME OrphanInv, Active = {}, crashes = 0,
                    NEW f \in FileNames, Exists(f), dir[f].of # UserFile
             PROVE  /\ goal[dir[f].of] = f
                    /\ \/ rcv[dir[f].of] = "done" /\ Whole(dir[f])
                       \/ rcv[dir[f].of] = "failed" /\ dir[f].bytes = 0
  BY DEF NoOrphans
<1>1. Accounted(f)
  BY DEF OrphanInv, Owner
<1>2. ~Receiving(Owner(f))
  BY <1>1 DEF Accounted, Active
<1> QED BY <1>1, <1>2 DEF Accounted, Owner, Receiving, Holding, Writing, Placed, Ended

LEMMA OrphanNext ==
    ASSUME DropInv, OrphanInv, [Next]_vars
    PROVE  OrphanInv'
<1>1. TypeOK /\ TypeInv /\ rcv \in [Transfers -> Phases] /\ faults \in Nat /\ crashes \in Nat
  <2>1. faults \in 0..MaxFaults /\ crashes \in 0..MaxCrashes
        /\ MaxFaults \in Nat /\ MaxCrashes \in Nat
    BY TransferAssumption DEF DropInv, OwnInv, TypeInv, TypeOK
  <2> QED BY <2>1 DEF DropInv, OwnInv, TypeInv, TypeOK, Phases
<1>2. CASE UNCHANGED <<file, rcv, token, goal, dir, crashes>>
  BY <1>2 DEF OrphanInv, Accounted, Exists, Owner, Holding, Writing, Whole, Declared
<1>3. ASSUME NEW t \in Transfers, Sender(t) PROVE OrphanInv'
  BY <1>1, <1>2, <1>3, SenderSends DEF recvVars
<1>4. CASE Crash
  BY <1>1, <1>4 DEF Crash, OrphanInv
<1>6. ASSUME NEW t \in Transfers, DiskFails(t) PROVE OrphanInv'
  <2>1. /\ UNCHANGED <<file, token, goal, dir, crashes>> /\ Goto(t, "cleanup")
        /\ rcv[t] # "done"
    BY <1>6 DEF DiskFails, senderVars
  <2>2. Holding(t)'
    BY <1>1, <2>1 DEF Goto, Holding
  <2> QED BY <1>1, <2>1, <2>2, OrphanMoves DEF Phases, Placed
<1>5. ASSUME NEW t \in Transfers, Receiver(t) PROVE OrphanInv'
  <2>1. CASE \/ Accept(t) \/ Secured(t) \/ TakeOffer(t) \/ NoOffer(t) \/ TakeEnd(t) \/ Stalled(t)
    <3>1. UNCHANGED <<file, token, goal, dir, crashes>>
          /\ rcv[t] \in {"none", "tls", "offer", "body"}
          /\ \E p \in {"failed", "tls", "offer", "open", "publish", "cleanup"} :
                Goto(t, p) /\ (rcv[t] = "body" => p \in {"publish", "cleanup"})
      BY <2>1 DEF Accept, Secured, TakeOffer, NoOffer, TakeEnd, Stalled, Abandon, senderVars
    <3>2. PICK p \in {"failed", "tls", "offer", "open", "publish", "cleanup"} :
                Goto(t, p) /\ (rcv[t] = "body" => p \in {"publish", "cleanup"})
      BY <3>1
    <3>3. Holding(t) => Holding(t)'
      BY <1>1, <3>1, <3>2 DEF Goto, Holding, Writing
    <3> QED BY <1>1, <3>1, <3>2, <3>3, OrphanMoves DEF Phases, Ended, Placed
  <2>2. CASE ReserveReal(t) \/ ReserveAlt(t)
    <3>1. \/ \E g \in PublicNames : ReservesName(t, g)
          \/ \E p \in {"collision", "cleanup"} : Goto(t, p) /\ UNCHANGED <<goal, dir>>
      <4>1. /\ rcv[t] \in {"publish", "collision"}
            /\ UNCHANGED <<file, received, token, rxSeq, crashes>>
        BY <2>2 DEF ReserveReal, ReserveAlt, senderVars
      <4>2. Real(Wanted[t]) \in PublicNames /\ Alt(token[t], Wanted[t]) \in PublicNames
        BY <1>1, <4>1, SetupTypes DEF TypeInv, TypeOK, Named, PublicNames, Taken, Writing
      <4> QED BY <2>2, <4>1, <4>2 DEF ReserveReal, ReserveAlt, ReservesName
    <3>2. ASSUME NEW p \in {"collision", "cleanup"}, Goto(t, p) /\ UNCHANGED <<goal, dir>>
          PROVE  OrphanInv'
      <4>1. Holding(t)' /\ rcv[t] \notin Placed \cup {"done"}
            /\ UNCHANGED <<file, token, crashes>>
        BY <1>1, <2>2, <3>2 DEF ReserveReal, ReserveAlt, senderVars, Goto, Holding, Writing, Placed
      <4> QED BY <1>1, <3>2, <4>1, OrphanMoves DEF Phases
    <3> QED BY <3>1, <3>2, OrphanReserves
  <2> QED BY <1>5, <2>1, <2>2, OrphanOpenTemp, OrphanTakeChunk, OrphanRename, OrphanCleanup
          DEF Receiver
<1> QED BY <1>2, <1>3, <1>4, <1>5, <1>6 DEF Next, vars, senderVars, recvVars

\* A failed transfer leaves nothing and a finished one only its whole file, whatever step
\* of the disk fails, but for the empty file of a name whose rename failed: for any number
\* of transfers, as long as the process does not die.
THEOREM FileNoOrphans == Spec => []NoOrphans
<1>1. DropInv /\ OrphanInv /\ [Next]_vars => (DropInv /\ OrphanInv)'
  BY DropInvNext, OrphanNext
<1>2. Init => DropInv /\ OrphanInv
  BY DropInvInit, OrphanInit
<1>3. OrphanInv => NoOrphans
  BY OrphanImplies
<1> QED BY <1>1, <1>2, <1>3, PTL DEF Spec
=============================================================================
