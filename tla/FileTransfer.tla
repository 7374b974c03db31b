---------------------------- MODULE FileTransfer ----------------------------
(***************************************************************************)
(* Files sent to one receiver process, each on a connection of its own:    *)
(* send_file at one end, serve_recv with recv_file_to_dir at the other,    *)
(* and the receiver's download directory.  A file's bytes are counted, not *)
(* stored: what a file on disk holds is the transfer it came from and how  *)
(* many of its bytes, in order.                                            *)
(***************************************************************************)
EXTENDS Integers, Sequences, FiniteSets

CONSTANTS Transfers,  \* the transfers, each tried once
          RealNames,  \* the names files are offered under
          BadName,    \* a name sanitize_filename rejects
          Setups,     \* what the transfers may be of: see file
          ChunkSize,  \* bytes in a chunk
          SizeLimit,  \* the largest size the receiver takes
          MaxConcurrent,  \* MAX_CONCURRENT_TRANSFERS
          Existing,   \* the sets of names that may be taken before: see Init
          UserFile, NoFile, \* what a name taken before has; what a free name has
          NoName,
          WireCap,    \* messages the transport holds
          MaxFaults,  \* bound on failures of the disk
          MaxCrashes  \* bound on crashes of the receiver

Tokens == 0..(Cardinality(Transfers) - 1)

Temp(k)   == [kind |-> "temp", token |-> k, name |-> NoName]
Real(n)   == [kind |-> "real", token |-> 0, name |-> n]
Alt(k, n) == [kind |-> "alt", token |-> k, name |-> n]

PublicNames == {Real(n) : n \in RealNames} \cup {Alt(k, n) : k \in Tokens, n \in RealNames}
FileNames   == {Temp(k) : k \in Tokens} \cup PublicNames

ASSUME TransferAssumption ==
    /\ IsFiniteSet(Transfers)
    /\ BadName \notin RealNames
    /\ Setups \subseteq [wanted   : [Transfers -> RealNames \cup {BadName}],
                        declared : [Transfers -> Nat], actual : [Transfers -> Nat],
                        tls      : BOOLEAN]
    /\ ChunkSize \in Nat \ {0} /\ WireCap \in Nat \ {0} /\ MaxConcurrent \in Nat \ {0}
    /\ {SizeLimit, MaxFaults, MaxCrashes} \subseteq Nat
    /\ Existing \subseteq SUBSET FileNames
    /\ {UserFile, NoFile} \cap Transfers = {}

Content(t, n) == [of |-> t, bytes |-> n]
NoGoal        == Temp(0)

VARIABLES file,     \* for each transfer the name it is offered under, the size
                    \* the sender found first, and the bytes it then reads;
                    \* and whether the receiver and its senders speak TLS
          snd,      \* phase of each sender
          sent,     \* bytes it has read and sent
          nextOut,  \* its number of the next chunk
          toRecv,   \* messages on their way to the receiver
          toSend,   \* the receiver's answer on its way
          rcv,      \* phase of each receiving task
          received, nextSeq,  \* its FileReassembler
          token,    \* its token
          goal,     \* the public name it has reserved
          rxSeq,    \* RX_SEQ, the next token
          dir,      \* the download directory
          faults, crashes,
          cut       \* history: receivers that failed with messages on their way to them

senderVars == <<file, snd, sent, nextOut>>
recvVars   == <<rcv, received, nextSeq, token, goal, rxSeq, dir>>
vars == <<senderVars, toRecv, toSend, recvVars, faults, crashes, cut>>

Wanted   == file.wanted
Declared == file.declared
Actual   == file.actual

Offer(t)      == [type |-> "FileOffer", size |-> Declared[t]]
Accepted(b)   == [type |-> "FileAccept", accept |-> b]
Chunk(n, len) == [type |-> "FileChunk", seq |-> n, len |-> len]
End(n)        == [type |-> "FileEnd", count |-> n]

\* The directory may hold the user's own files, and what earlier runs published or left:
\* their tokens started at 0 too.
Init == /\ file \in Setups
        /\ snd = [t \in Transfers |-> "idle"]
        /\ sent = [t \in Transfers |-> 0]
        /\ nextOut = [t \in Transfers |-> 0]
        /\ toRecv = [t \in Transfers |-> <<>>]
        /\ toSend = [t \in Transfers |-> <<>>]
        /\ rcv = [t \in Transfers |-> "none"]
        /\ received = [t \in Transfers |-> 0]
        /\ nextSeq = [t \in Transfers |-> 0]
        /\ token = [t \in Transfers |-> 0]
        /\ goal = [t \in Transfers |-> NoGoal]
        /\ rxSeq = 0
        /\ \E old \in Existing :
               dir = [f \in FileNames |->
                         Content(IF f \in old THEN UserFile ELSE NoFile, 0)]
        /\ faults = 0
        /\ crashes = 0
        /\ cut = {}

Exists(f) == dir[f].of # NoFile

Ended    == {"done", "failed"}
Receiving(t) == rcv[t] \notin {"none"} \cup Ended

-----------------------------------------------------------------------------
\* The sender.
Send(t, m) == /\ Len(toRecv[t]) < WireCap
              /\ toRecv' = [toRecv EXCEPT ![t] = Append(@, m)]

Connect(t) ==
    /\ snd[t] = "idle"
    /\ snd' = [snd EXCEPT ![t] = IF file.tls THEN "hello" ELSE "connected"]
    /\ UNCHANGED <<file, sent, nextOut, toRecv, toSend, recvVars, faults, crashes, cut>>

\* The handshake at the sender's end: it has the receiver's certificate, which it
\* accepts or not (TrustStore).
Secure(t) ==
    /\ snd[t] = "hello"
    /\ rcv[t] = "tls"
    /\ \E to \in {"connected", "failed"} : snd' = [snd EXCEPT ![t] = to]
    /\ UNCHANGED <<file, sent, nextOut, toRecv, toSend, recvVars, faults, crashes, cut>>

SendOffer(t) ==
    /\ snd[t] = "connected"
    /\ Send(t, Offer(t))
    /\ snd' = [snd EXCEPT ![t] = "offered"]
    /\ UNCHANGED <<file, sent, nextOut, toSend, recvVars, faults, crashes, cut>>

TakeAnswer(t) ==
    /\ snd[t] = "offered"
    /\ toSend[t] # <<>>
    /\ snd' = [snd EXCEPT ![t] = IF Head(toSend[t]).accept THEN "sending" ELSE "failed"]
    /\ toSend' = [toSend EXCEPT ![t] = Tail(@)]
    /\ UNCHANGED <<file, sent, nextOut, toRecv, recvVars, faults, crashes, cut>>

\* Every chunk is full but the last.
SendChunk(t) ==
    /\ snd[t] = "sending"
    /\ sent[t] < Actual[t]
    /\ LET left == Actual[t] - sent[t]
           len  == IF left < ChunkSize THEN left ELSE ChunkSize
       IN  /\ Send(t, Chunk(nextOut[t], len))
           /\ sent' = [sent EXCEPT ![t] = @ + len]
    /\ nextOut' = [nextOut EXCEPT ![t] = @ + 1]
    /\ UNCHANGED <<file, snd, toSend, recvVars, faults, crashes, cut>>

\* At the end of its file: a file that changed during the send is given up.
SendEnd(t) ==
    /\ snd[t] = "sending"
    /\ sent[t] = Actual[t]
    /\ IF sent[t] # Declared[t]
       THEN /\ snd' = [snd EXCEPT ![t] = "failed"]
            /\ UNCHANGED toRecv
       ELSE /\ Send(t, End(nextOut[t]))
            /\ snd' = [snd EXCEPT ![t] = "done"]
    /\ UNCHANGED <<file, sent, nextOut, toSend, recvVars, faults, crashes, cut>>

\* The user stops it, the network fails, or it finds the connection closed.
SenderFails(t) ==
    /\ snd[t] \in {"hello", "connected", "offered", "sending"}
    /\ snd' = [snd EXCEPT ![t] = "failed"]
    /\ UNCHANGED <<file, sent, nextOut, toRecv, toSend, recvVars, faults, crashes, cut>>

Sender(t) == \/ Connect(t) \/ Secure(t) \/ SendOffer(t) \/ TakeAnswer(t)
             \/ SendChunk(t) \/ SendEnd(t) \/ SenderFails(t)

-----------------------------------------------------------------------------
\* The receiver.
Active == {t \in Transfers : Receiving(t)}

Goto(t, phase) == rcv' = [rcv EXCEPT ![t] = phase]

\* serve_recv takes a connection, or drops it when all the permits are taken.
Accept(t) ==
    /\ rcv[t] = "none"
    /\ snd[t] # "idle"
    /\ Goto(t, CASE Cardinality(Active) >= MaxConcurrent -> "failed"
                 [] file.tls                              -> "tls"
                 [] OTHER                                 -> "offer")
    /\ UNCHANGED <<senderVars, toRecv, toSend, received, nextSeq, token, goal, rxSeq, dir,
                   faults, crashes, cut>>

\* The handshake at the receiver's end ends with the sender's, or with the
\* connection; nothing else ends it.
Secured(t) ==
    /\ rcv[t] = "tls"
    /\ snd[t] # "hello"
    /\ Goto(t, IF snd[t] = "failed" THEN "failed" ELSE "offer")
    /\ UNCHANGED <<senderVars, toRecv, toSend, received, nextSeq, token, goal, rxSeq, dir,
                   faults, crashes, cut>>

Take(t, type) == /\ toRecv[t] # <<>>
                 /\ Head(toRecv[t]).type = type
                 /\ toRecv' = [toRecv EXCEPT ![t] = Tail(@)]

\* FileReassembler::begin: declined for its name or its size.
Acceptable(t, m) == Wanted[t] # BadName /\ m.size <= SizeLimit

TakeOffer(t) ==
    /\ rcv[t] = "offer"
    /\ Take(t, "FileOffer")
    /\ LET ok == Acceptable(t, Head(toRecv[t]))
       IN  /\ toSend' = [toSend EXCEPT ![t] = Append(@, Accepted(ok))]
           /\ Goto(t, IF ok THEN "open" ELSE "failed")
    /\ UNCHANGED <<senderVars, received, nextSeq, token, goal, rxSeq, dir, faults, crashes, cut>>

\* Mutants of OpenTemp: the token is the counter's new value; every transfer has
\* the same token.
OpenTempAfter(t) ==
    /\ rcv[t] = "open"
    /\ rxSeq' = rxSeq + 1
    /\ token' = [token EXCEPT ![t] = rxSeq']
    /\ IF Exists(Temp(rxSeq))
       THEN /\ Goto(t, "cleanup")
            /\ UNCHANGED dir
       ELSE /\ Goto(t, "body")
            /\ dir' = [dir EXCEPT ![Temp(rxSeq)] = Content(t, 0)]
    /\ UNCHANGED <<senderVars, toRecv, toSend, received, nextSeq, goal, faults, crashes, cut>>

OpenTempShared(t) ==
    /\ rcv[t] = "open"
    /\ token' = [token EXCEPT ![t] = 0]
    /\ dir' = [dir EXCEPT ![Temp(0)] = Content(t, 0)]
    /\ Goto(t, "body")
    /\ UNCHANGED <<senderVars, toRecv, toSend, received, nextSeq, goal, rxSeq, faults, crashes, cut>>

\* A token is taken and the temporary file created, which must not exist yet.
OpenTemp(t) ==
    /\ rcv[t] = "open"
    /\ rxSeq' = rxSeq + 1
    /\ token' = [token EXCEPT ![t] = rxSeq]
    /\ IF Exists(Temp(rxSeq))
       THEN /\ Goto(t, "cleanup")
            /\ UNCHANGED dir
       ELSE /\ Goto(t, "body")
            /\ dir' = [dir EXCEPT ![Temp(rxSeq)] = Content(t, 0)]
    /\ UNCHANGED <<senderVars, toRecv, toSend, received, nextSeq, goal, faults, crashes, cut>>

\* Mutant of ChunkFits: the last byte does not fit.
ChunkFitsStrict(t, m) == /\ m.seq = nextSeq[t]
                         /\ m.len > 0
                         /\ received[t] + m.len < Declared[t]

\* FileReassembler::accept.
ChunkFits(t, m) == /\ m.seq = nextSeq[t]
                   /\ m.len > 0
                   /\ received[t] + m.len <= Declared[t]

TakeChunk(t) ==
    /\ rcv[t] = "body"
    /\ Take(t, "FileChunk")
    /\ LET m == Head(toRecv[t])
       IN  IF ChunkFits(t, m)
           THEN /\ received' = [received EXCEPT ![t] = @ + m.len]
                /\ nextSeq' = [nextSeq EXCEPT ![t] = @ + 1]
                /\ dir' = [dir EXCEPT ![Temp(token[t])].bytes = @ + m.len]
                /\ UNCHANGED rcv
           ELSE /\ Goto(t, "cleanup")
                /\ UNCHANGED <<received, nextSeq, dir>>
    /\ UNCHANGED <<senderVars, toSend, token, goal, rxSeq, faults, crashes, cut>>

\* FileReassembler::complete.
Complete(t, m) == m.count = nextSeq[t] /\ received[t] = Declared[t]

TakeEnd(t) ==
    /\ rcv[t] = "body"
    /\ Take(t, "FileEnd")
    /\ Goto(t, IF Complete(t, Head(toRecv[t])) THEN "publish" ELSE "cleanup")
    /\ UNCHANGED <<senderVars, toSend, received, nextSeq, token, goal, rxSeq, dir, faults,
                   crashes, cut>>

\* The receiver hears no more: its connection fails or ends, whatever is still on its
\* way, or nothing arrives for IDLE_TIMEOUT.
Abandon(t, to) ==
    /\ Goto(t, to)
    /\ cut' = IF toRecv[t] = <<>> THEN cut ELSE cut \cup {t}
    /\ UNCHANGED <<senderVars, toRecv, toSend, received, nextSeq, token, goal, rxSeq, dir,
                   faults, crashes>>

NoOffer(t) == rcv[t] = "offer" /\ Abandon(t, "failed")

\* Mutants of Stalled: no time limit; the end of the stream taken for the end of
\* the file.
StalledForever(t) == rcv[t] = "body" /\ snd[t] \in Ended /\ Abandon(t, "cleanup")
StalledPublish(t) == rcv[t] = "body" /\ Abandon(t, "publish")

Stalled(t) == rcv[t] = "body" /\ Abandon(t, "cleanup")

\* publish: the name offered is reserved with an empty file, ...
ReserveReal(t) ==
    /\ rcv[t] = "publish"
    /\ LET f == Real(Wanted[t])
       IN  IF Exists(f)
           THEN /\ Goto(t, "collision")
                /\ UNCHANGED <<goal, dir>>
           ELSE /\ Goto(t, "rename")
                /\ goal' = [goal EXCEPT ![t] = f]
                /\ dir' = [dir EXCEPT ![f] = Content(t, 0)]
    /\ UNCHANGED <<senderVars, toRecv, toSend, received, nextSeq, token, rxSeq, faults, crashes, cut>>

\* ... or, when it is taken, one with the token in front, ...
ReserveAlt(t) ==
    /\ rcv[t] = "collision"
    /\ LET f == Alt(token[t], Wanted[t])
       IN  IF Exists(f)
           THEN /\ Goto(t, "cleanup")
                /\ UNCHANGED <<goal, dir>>
           ELSE /\ Goto(t, "rename")
                /\ goal' = [goal EXCEPT ![t] = f]
                /\ dir' = [dir EXCEPT ![f] = Content(t, 0)]
    /\ UNCHANGED <<senderVars, toRecv, toSend, received, nextSeq, token, rxSeq, faults, crashes, cut>>

\* ... and the temporary file is renamed over it.
Rename(t) ==
    /\ rcv[t] = "rename"
    /\ Goto(t, "done")
    /\ dir' = [dir EXCEPT ![goal[t]] = dir[Temp(token[t])],
                          ![Temp(token[t])] = Content(NoFile, 0)]
    /\ UNCHANGED <<senderVars, toRecv, toSend, received, nextSeq, token, goal, rxSeq, faults,
                   crashes, cut>>

\* Mutant of Cleanup: the temporary file is left.
CleanupNothing(t) ==
    /\ rcv[t] = "cleanup"
    /\ Goto(t, "failed")
    /\ UNCHANGED <<senderVars, toRecv, toSend, received, nextSeq, token, goal, rxSeq, dir,
                   faults, crashes, cut>>

\* On any error the temporary file is removed (remove_file).
Cleanup(t) ==
    /\ rcv[t] = "cleanup"
    /\ Goto(t, "failed")
    /\ dir' = [dir EXCEPT ![Temp(token[t])] = Content(NoFile, 0)]
    /\ UNCHANGED <<senderVars, toRecv, toSend, received, nextSeq, token, goal, rxSeq, faults,
                   crashes, cut>>

Receiver(t) == \/ Accept(t) \/ Secured(t) \/ TakeOffer(t) \/ NoOffer(t) \/ OpenTemp(t)
               \/ TakeChunk(t) \/ TakeEnd(t) \/ Stalled(t)
               \/ ReserveReal(t) \/ ReserveAlt(t) \/ Rename(t) \/ Cleanup(t)

\* Mutant of DiskFails: the task ends at once, its temporary file unremoved.
DiskFailsLeaves(t) ==
    /\ faults < MaxFaults
    /\ rcv[t] \in {"body", "publish", "collision", "rename"}
    /\ faults' = faults + 1
    /\ Goto(t, "failed")
    /\ UNCHANGED <<senderVars, toRecv, toSend, received, nextSeq, token, goal, rxSeq, dir, crashes,
                   cut>>

\* A write, a flush, a reservation or the rename fails.
DiskFails(t) ==
    /\ faults < MaxFaults
    /\ rcv[t] \in {"body", "publish", "collision", "rename"}
    /\ faults' = faults + 1
    /\ Goto(t, "cleanup")
    /\ UNCHANGED <<senderVars, toRecv, toSend, received, nextSeq, token, goal, rxSeq, dir, crashes,
                   cut>>

\* The receiver process dies and is started again; the directory stays.
Crash ==
    /\ crashes < MaxCrashes
    /\ crashes' = crashes + 1
    /\ rcv' = [t \in Transfers |-> IF snd[t] = "idle" THEN "none"
                                   ELSE IF rcv[t] = "done" THEN "done" ELSE "failed"]
    /\ rxSeq' = 0
    /\ UNCHANGED <<senderVars, toRecv, toSend, received, nextSeq, token, goal, dir, faults, cut>>

Next == \/ \E t \in Transfers : Sender(t) \/ Receiver(t) \/ DiskFails(t)
        \/ Crash

Spec == Init /\ [][Next]_vars

\* The receiver's tasks run; a sender may stall for ever.
FairSpec == Spec /\ \A t \in Transfers : WF_vars(Receiver(t))

-----------------------------------------------------------------------------
Contents == [of : Transfers \cup {UserFile, NoFile}, bytes : Nat]

\* The types of the state.
TypeOK ==
    /\ file \in Setups
    /\ snd \in [Transfers -> {"idle", "hello", "connected", "offered", "sending"} \cup Ended]
    /\ sent \in [Transfers -> Nat] /\ nextOut \in [Transfers -> Nat]
    /\ rcv \in [Transfers -> {"none", "tls", "offer", "open", "body", "publish",
                              "collision", "rename", "cleanup"} \cup Ended]
    /\ received \in [Transfers -> Nat] /\ nextSeq \in [Transfers -> Nat]
    /\ token \in [Transfers -> Tokens]
    /\ goal \in [Transfers -> FileNames]
    /\ rxSeq \in 0..Cardinality(Transfers)
    /\ dir \in [FileNames -> Contents]
    /\ faults \in 0..MaxFaults /\ crashes \in 0..MaxCrashes /\ cut \subseteq Transfers

\* Transfers do not disturb each other: as long as a transfer writes, its
\* temporary file holds exactly what it has accepted, whatever others do with
\* theirs, and whatever an earlier run of the receiver left behind.
TempIsOwn ==
    \A t \in Transfers : rcv[t] \in {"body", "publish", "collision", "rename"} =>
        dir[Temp(token[t])] = Content(t, received[t])

\* A failed transfer leaves nothing and a finished one only its file, whatever step of
\* the disk failed: with no transfer under way and no crash behind, every file was there
\* before, or is one whole file of a transfer that is done, or is the empty file that
\* reserved its name for a transfer whose rename then failed.
Whole(c) == c.of \in Transfers /\ c.bytes = Declared[c.of]

NoOrphans ==
    Active = {} /\ crashes = 0 =>
        \A f \in FileNames : LET t == dir[f].of
                            IN  Exists(f) /\ t # UserFile =>
                                    /\ goal[t] = f
                                    /\ \/ rcv[t] = "done" /\ Whole(dir[f])
                                       \/ rcv[t] = "failed" /\ dir[f].bytes = 0

\* The download directory implements FileDrop, placeholders left out: a whole
\* file appears under a free name, no part of one does, and it is never replaced,
\* not by a transfer of the same name, nor by one whose token a restart has used
\* again.
Placeholder(c) == c.of \in Transfers /\ c.bytes = 0 /\ Declared[c.of] > 0

Visible(c) == CASE Placeholder(c)                 -> NoFile
                [] Whole(c) \/ c.of \notin Transfers -> c.of
                [] OTHER                            -> BadName

Drop == INSTANCE FileDrop
        WITH Names    <- PublicNames,
             files    <- [f \in PublicNames |-> Visible(dir[f])]

ImplementsDrop == Drop!DropSpec

\* A stalled sender does not keep its slot: every transfer that is taken up ends,
\* at whatever step its sender falls silent but one.  The handshake has no time
\* limit, so that a sender silent there keeps its slot as long as it is connected.
Shaking(t) == rcv[t] = "tls" /\ snd[t] = "hello"

SlotFreed == \A t \in Transfers :
                 Receiving(t) /\ ~Shaking(t) ~> ~Receiving(t)

\* A sender that finishes while its file is being written has it published, unless the
\* connection fails with some of it on its way, the receiver's disk or process fails, or
\* both the names it could have are taken: it waits for no confirmation, and learns of
\* none of these.
NamesTaken(t) == /\ {Real(Wanted[t]), Alt(token[t], Wanted[t])} \subseteq {f \in FileNames : Exists(f)}
                 /\ goal[t] = NoGoal

SentIsPublished ==
    \A t \in Transfers :
        (snd[t] = "done" /\ rcv[t] = "body") ~>
            \/ rcv[t] = "done"
            \/ t \in cut \/ faults > 0 \/ crashes > 0 \/ NamesTaken(t)
=============================================================================
