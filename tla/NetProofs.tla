------------------------------ MODULE NetProofs ------------------------------
(***************************************************************************)
(* Proofs about the crate kvm-net and the codec it carries.  About          *)
(* TrustStore, for any number of attempts, addresses and restarts: what the *)
(* pins are, that an unchanged server is accepted, and that no two          *)
(* fingerprints of one address are.  About Wire and Framing, for every      *)
(* message and every sequence of messages: what is decoded of an encoding   *)
(* is what was encoded, and the frames of a byte stream, however it is      *)
(* handed over and wherever it is cut, make a channel of messages.          *)
(***************************************************************************)
EXTENDS TrustStore, Framing, FiniteSetTheorems, SequenceTheorems, WellFoundedInduction, TLAPS

-----------------------------------------------------------------------------
(* The pins (TrustStore).                                                  *)

Certificates == Hosts \X (1..MaxStarts)
Pins         == Certificates \cup {NoPin, Torn}
Active       == {"loaded", "create", "write"}

\* The state's functions have the domains they should.
Shape == /\ starts \in [Hosts -> 1..MaxStarts] /\ file \in [Hosts -> Pins]
         /\ at \in [Attempts -> Stages] /\ host \in [Attempts -> Hosts]
         /\ seen \in [Attempts -> Certificates] /\ mem \in [Attempts -> [Hosts -> Pins]]
         /\ trusted \in [Hosts -> SUBSET Certificates]
         /\ stale \subseteq Attempts

\* No line is torn unless a write failed.
Untorn == ~failed => \A h \in Hosts : /\ file[h] # Torn
                                      /\ \A a \in Attempts : mem[a][h] # Torn

\* The inductive invariant of the first two theorems.
IInv == Shape /\ TrustTypeOK /\ Untorn /\ UnchangedIsAccepted

-----------------------------------------------------------------------------
\* What a file may hold once it is written over is, line by line, old or new.
LEMMA OverLines ==
    ASSUME NEW old, NEW new, NEW f \in Over(old, new)
    PROVE  /\ DOMAIN f = Hosts /\ f = [h \in Hosts |-> f[h]]
           /\ \A h \in Hosts : f[h] \in {old[h], new[h]}
BY DEF Over

\* A write cut short leaves lines as they are, torn, or out.
LEMMA BeginningLines ==
    ASSUME NEW pins, NEW f \in Beginnings(pins)
    PROVE  /\ DOMAIN f = Hosts /\ f = [h \in Hosts |-> f[h]]
           /\ \A h \in Hosts : f[h] \in {pins[h], Torn, NoPin}
BY DEF Beginnings

\* Written over an emptied file the store is all there is.
LEMMA OverEmpty ==
    ASSUME NEW new \in [Hosts -> Pins], NEW f \in Over(NoPins, new)
    PROVE  f = new
<1>1. Pinned(NoPins) = {}
  BY DEF Pinned, NoPins
<1>2. \E R \in SUBSET Pinned(NoPins) : f = [h \in Hosts |-> IF h \in R THEN NoPins[h] ELSE new[h]]
  BY DEF Over
<1>3. f = [h \in Hosts |-> new[h]]
  BY <1>1, <1>2
<1> QED BY <1>3

\* Starting a server again takes no certificate away.
LEMMA CertsGrow ==
    ASSUME starts \in [Hosts -> 1..MaxStarts], NEW h \in Hosts, Restart(h), NEW g \in Hosts
    PROVE  /\ starts'[g] \in 1..MaxStarts /\ starts'[g] >= starts[g]
           /\ Certs(g) \subseteq Certs(g)'
<1>1. MaxStarts \in Nat
  BY TrustAssumption
<1>2. starts'[g] \in 1..MaxStarts /\ starts'[g] >= starts[g]
  BY <1>1 DEF Restart
<1> QED BY <1>1, <1>2 DEF Certs

\* The certificate of a server that runs is one of its.
LEMMA FingerprintCert ==
    ASSUME starts \in [Hosts -> 1..MaxStarts], NEW h \in Hosts
    PROVE  Fingerprint(h) \in Certs(h) /\ Fingerprint(h) \in Certificates
BY TrustAssumption DEF Fingerprint, Certs, Certificates

\* Pins are certificates of some address, which no other value is.
LEMMA PinsApart ==
    ASSUME NEW c \in Certificates
    PROVE  c # NoPin /\ c # Torn
BY TrustAssumption DEF Certificates

-----------------------------------------------------------------------------
\* The invariant, without its history: what the state holds is genuine.
LEMMA GenuinePin ==
    ASSUME Shape, TrustTypeOK, NEW a \in Attempts, NEW h \in Hosts
    PROVE  /\ mem[a][h] \in Certs(h) \cup {NoPin, Torn}
           /\ file[h] \in Certs(h) \cup {NoPin, Torn}
           /\ seen[a] \in Certs(host[a]) /\ seen[a] \in Certificates
           /\ trusted[h] \subseteq Certs(h)
BY DEF Shape, TrustTypeOK, Genuine

\* The initial state is as it should be.
LEMMA InitIInv == Init => IInv
<1> SUFFICES ASSUME Init PROVE IInv
  OBVIOUS
<1>1. starts \in [Hosts -> 1..MaxStarts]
  BY TrustAssumption DEF Init
<1>2. Shape
  <2>1. seen \in [Attempts -> Certificates]
    BY <1>1, FingerprintCert DEF Init
  <2> QED BY <1>1, <2>1 DEF Init, Shape, Stages, NoPins, Pins
<1>3. TrustTypeOK
  <2>1. \A a \in Attempts : seen[a] \in Certs(host[a])
    BY <1>1, FingerprintCert DEF Init
  <2> QED BY <1>2, <2>1 DEF Init, Shape, TrustTypeOK, Genuine, NoPins
<1>4. Untorn /\ UnchangedIsAccepted
  BY TrustAssumption DEF Init, Untorn, NoPins, UnchangedIsAccepted
<1> QED BY <1>2, <1>3, <1>4 DEF IInv

\* Another start of a server keeps the invariant.
LEMMA RestartIInv ==
    ASSUME IInv, NEW h \in Hosts, Restart(h)
    PROVE  IInv'
<1>1. starts \in [Hosts -> 1..MaxStarts]
  BY DEF IInv, Shape
<1>2. starts' \in [Hosts -> 1..MaxStarts]
  BY <1>1, CertsGrow DEF Restart
<1>3. Shape'
  BY <1>2 DEF IInv, Shape, Restart
<1>4. TrustTypeOK'
  <2>1. \A g \in Hosts : Certs(g) \subseteq Certs(g)'
    BY <1>1, CertsGrow
  <2>2. \A a \in Attempts : host[a] \in Hosts
    BY DEF IInv, Shape
  <2> QED BY <1>2, <2>1, <2>2 DEF IInv, TrustTypeOK, Genuine, Restart
<1>5. UnchangedIsAccepted'
  <2>1. \A g \in Hosts : starts'[g] >= starts[g] /\ starts'[g] \in Nat /\ starts[g] \in Nat
    BY <1>1, CertsGrow, TrustAssumption
  <2> QED BY <2>1 DEF IInv, Shape, UnchangedIsAccepted, Restart
<1>6. Untorn'
  BY DEF IInv, Untorn, Restart
<1> QED BY <1>3, <1>4, <1>5, <1>6 DEF IInv

\* So does a step of an attempt that keeps the shape of the state and what is genuine,
\* tears no line unless a write failed, and rejects nobody.
LEMMA AttemptIInv ==
    ASSUME IInv, Shape', UNCHANGED starts, failed => failed',
           NEW a \in Attempts, NEW to \in Stages \ {"rejected"}, Go(a, to),
           host' = host \/ to = "connected",
           raced' \in BOOLEAN, failed' \in BOOLEAN,
           \A b \in Attempts : seen'[b] \in Certs(host'[b]),
           \A h \in Hosts : trusted'[h] \subseteq Certs(h),
           \A h \in Hosts : /\ file'[h] \in Certs(h) \cup {NoPin, Torn}
                            /\ \A b \in Attempts : mem'[b][h] \in Certs(h) \cup {NoPin, Torn},
           \A h \in Hosts : ~failed' => /\ file'[h] # Torn
                                        /\ \A b \in Attempts : mem'[b][h] # Torn,
           \A b \in Attempts \ {a} : host'[b] = host[b]
    PROVE  IInv'
<1>1. \A h : Certs(h)' = Certs(h)
  BY DEF Certs
<1>2. DOMAIN file' = Hosts /\ \A b \in Attempts : DOMAIN mem'[b] = Hosts
  BY DEF Shape
<1>3. TrustTypeOK'
  <2>1. Genuine(file)'
    BY <1>1, <1>2 DEF Genuine
  <2>2. \A b \in Attempts : Genuine(mem[b])'
    BY <1>1, <1>2 DEF Genuine
  <2>3. \A b \in Attempts : (seen[b] \in Certs(host[b]))'
    BY <1>1
  <2>4. \A h \in Hosts : (trusted[h] \subseteq Certs(h))'
    BY <1>1
  <2> QED BY <2>1, <2>2, <2>3, <2>4 DEF TrustTypeOK, Shape
<1>4. Untorn'
  BY DEF Untorn
<1>5. UnchangedIsAccepted'
  <2> SUFFICES ASSUME NEW b \in Attempts, at'[b] = "rejected", ~failed'
               PROVE  starts'[host'[b]] > 1
    BY DEF UnchangedIsAccepted
  <2>1. b # a /\ at[b] = "rejected"
    BY DEF Go, IInv, Shape, Stages
  <2> QED BY <2>1 DEF IInv, UnchangedIsAccepted
<1> QED BY <1>3, <1>4, <1>5 DEF IInv

\* An attempt that connects is presented a certificate of the server.
LEMMA ConnectIInv ==
    ASSUME IInv, NEW a \in Attempts, NEW h \in Hosts, Connect(a, h)
    PROVE  IInv'
<1>1. Fingerprint(h) \in Certs(h) /\ Fingerprint(h) \in Certificates
  BY FingerprintCert DEF IInv, Shape
<1>2. Shape'
  BY <1>1 DEF IInv, Shape, Connect, Go, Stages
<1>3. \A b \in Attempts : seen'[b] \in Certs(host'[b])
  BY <1>1 DEF IInv, Shape, TrustTypeOK, Connect
<1> QED BY <1>2, <1>3, GenuinePin, AttemptIInv
        DEF IInv, Connect, Stages, Untorn, TrustTypeOK, Shape

\* Loading brings the file's lines to the store.
LEMMA LoadIInv ==
    ASSUME IInv, NEW a \in Attempts, Load(a)
    PROVE  IInv'
<1>1. Shape'
  BY DEF IInv, Shape, Load, Go, Stages
<1>2. \A b \in Attempts : mem'[b] = IF b = a THEN file ELSE mem[b]
  BY DEF IInv, Shape, Load
<1>3. raced' \in BOOLEAN /\ failed' \in BOOLEAN
  BY DEF IInv, TrustTypeOK, Load
<1> QED BY <1>1, <1>2, <1>3, GenuinePin, AttemptIInv
        DEF IInv, Load, Stages, Untorn, TrustTypeOK

\* Accepting a certificate is accepting one of its server's.
LEMMA Accepted ==
    ASSUME IInv, NEW a \in Attempts, Accept(a)
    PROVE  /\ trusted' \in [Hosts -> SUBSET Certificates]
           /\ \A h \in Hosts : trusted'[h] \subseteq Certs(h)
           /\ \A h \in Hosts : trusted'[h] = IF h = host[a] THEN trusted[h] \cup {seen[a]}
                                             ELSE trusted[h]
BY GenuinePin DEF IInv, Shape, Accept

\* A certificate that is known is accepted.
LEMMA KnownIInv ==
    ASSUME IInv, NEW a \in Attempts, Known(a)
    PROVE  IInv'
<1>1. Shape'
  BY Accepted DEF IInv, Shape, Known, Go, Stages
<1> QED BY <1>1, Accepted, GenuinePin, AttemptIInv
        DEF IInv, Known, Stages, Untorn, TrustTypeOK

\* Only a server that was restarted shows another certificate than the one pinned.
LEMMA ChangedIInv ==
    ASSUME IInv, NEW a \in Attempts, Changed(a)
    PROVE  IInv'
<1>1. Shape'
  BY DEF IInv, Shape, Changed, Go, Stages
<1>2. TrustTypeOK'
  BY <1>1 DEF IInv, TrustTypeOK, Shape, Changed, Genuine, Certs
<1>3. Untorn'
  BY DEF IInv, Untorn, Changed
<1>4. ~failed => starts[host[a]] > 1
  <2> DEFINE h == host[a]
  <2> SUFFICES ASSUME ~failed, ~(starts[h] > 1) PROVE FALSE
    OBVIOUS
  <2>1. h \in Hosts /\ starts[h] \in 1..MaxStarts /\ MaxStarts \in Nat
    BY TrustAssumption DEF IInv, Shape
  <2>2. starts[h] = 1
    BY <2>1
  <2>3. Certs(h) = {<<h, 1>>}
    <3>1. 1..1 = {1}
      OBVIOUS
    <3> QED BY <2>2, <3>1 DEF Certs
  <2>4. mem[a][h] \in Certs(h) /\ seen[a] \in Certs(h)
    BY <2>1, GenuinePin DEF IInv, Changed, Untorn
  <2> QED BY <2>3, <2>4 DEF Changed
<1>5. UnchangedIsAccepted'
  <2> SUFFICES ASSUME NEW b \in Attempts, at'[b] = "rejected", ~failed'
               PROVE  starts'[host'[b]] > 1
    BY DEF UnchangedIsAccepted
  <2>1. b = a \/ at[b] = "rejected"
    BY DEF Changed, Go, IInv, Shape
  <2> QED BY <1>4, <2>1 DEF Changed, IInv, UnchangedIsAccepted
<1> QED BY <1>1, <1>2, <1>3, <1>5 DEF IInv

\* A first use pins what was presented in the store.
LEMMA FirstUseIInv ==
    ASSUME IInv, NEW a \in Attempts, FirstUse(a)
    PROVE  IInv'
<1>1. host[a] \in Hosts /\ seen[a] \in Certs(host[a]) /\ seen[a] \in Certificates
  BY GenuinePin DEF IInv, Shape
<1>2. \A b \in Attempts, h \in Hosts :
        mem'[b][h] = IF b = a /\ h = host[a] THEN seen[a] ELSE mem[b][h]
  BY DEF IInv, Shape, FirstUse
<1>3. Shape'
  BY <1>1 DEF IInv, Shape, FirstUse, Go, Stages, Pins
<1>4. seen[a] # Torn
  BY <1>1, PinsApart
<1> QED BY <1>1, <1>2, <1>3, <1>4, GenuinePin, AttemptIInv
        DEF IInv, FirstUse, Stages, Untorn, TrustTypeOK

\* Emptying the file leaves nothing in it that is not genuine.
LEMMA CreateIInv ==
    ASSUME IInv, NEW a \in Attempts, Create(a)
    PROVE  IInv'
<1>1. Shape'
  BY DEF IInv, Shape, Create, Go, Stages, NoPins, Pins
<1>2. \A h \in Hosts : file'[h] = NoPin
  BY DEF Create, NoPins
<1>3. raced' \in BOOLEAN
  BY DEF Create
<1> QED BY <1>1, <1>2, <1>3, TrustAssumption, GenuinePin, AttemptIInv
        DEF IInv, Create, Stages, Untorn, TrustTypeOK

\* So does a file that cannot be opened.
LEMMA CreateFailsIInv ==
    ASSUME IInv, NEW a \in Attempts, CreateFails(a)
    PROVE  IInv'
<1>1. Shape'
  BY Accepted DEF IInv, Shape, CreateFails, Go, Stages
<1> QED BY <1>1, Accepted, GenuinePin, AttemptIInv
        DEF IInv, CreateFails, Stages, Untorn, TrustTypeOK

\* The store is written, over what others may have written since it was emptied.
LEMMA WriteIInv ==
    ASSUME IInv, NEW a \in Attempts, Write(a)
    PROVE  IInv'
<1>1. /\ file' = [h \in Hosts |-> file'[h]]
      /\ \A h \in Hosts : file'[h] \in {file[h], mem[a][h]}
  BY OverLines DEF Write
<1>2. file' \in [Hosts -> Pins]
  BY <1>1 DEF IInv, Shape
<1>3. Shape'
  BY <1>2, Accepted DEF IInv, Shape, Write, Go, Stages
<1> QED BY <1>1, <1>3, Accepted, GenuinePin, AttemptIInv
        DEF IInv, Write, Stages, Untorn, TrustTypeOK

\* A write cut short tears a line, and counts as failed.
LEMMA WriteShortIInv ==
    ASSUME IInv, NEW a \in Attempts, WriteShort(a)
    PROVE  IInv'
<1>1. /\ file' = [h \in Hosts |-> file'[h]]
      /\ \A h \in Hosts : file'[h] \in {mem[a][h], Torn, NoPin}
  BY BeginningLines DEF WriteShort
<1>2. file' \in [Hosts -> Pins]
  BY <1>1 DEF IInv, Shape, Pins
<1>3. Shape'
  BY <1>2, Accepted DEF IInv, Shape, WriteShort, Go, Stages
<1> QED BY <1>1, <1>3, Accepted, GenuinePin, AttemptIInv
        DEF IInv, WriteShort, Stages, Untorn, TrustTypeOK

\* An attempt that ends leaves its store empty.
LEMMA EndIInv ==
    ASSUME IInv, NEW a \in Attempts, End(a)
    PROVE  IInv'
<1>1. Shape'
  BY DEF IInv, Shape, End, Go, Stages, NoPins, Pins
<1>2. \A b \in Attempts, h \in Hosts : mem'[b][h] = IF b = a THEN NoPin ELSE mem[b][h]
  BY DEF IInv, Shape, End, NoPins
<1>3. failed' \in BOOLEAN /\ (failed => failed')
  BY DEF End
<1> QED BY <1>1, <1>2, <1>3, TrustAssumption, GenuinePin, AttemptIInv
        DEF IInv, End, Stages, Untorn, TrustTypeOK

\* The invariant is inductive.
LEMMA NextIInv == IInv /\ [Next]_vars => IInv'
<1> SUFFICES ASSUME IInv, [Next]_vars PROVE IInv'
  OBVIOUS
<1>1. ASSUME NEW h \in Hosts, Restart(h) PROVE IInv'
  BY <1>1, RestartIInv
<1>2. ASSUME NEW a \in Attempts, Attempt(a) PROVE IInv'
  BY <1>2, ConnectIInv, LoadIInv, KnownIInv, ChangedIInv, FirstUseIInv, CreateIInv,
     CreateFailsIInv, WriteIInv, WriteShortIInv, EndIInv DEF Attempt, Check, Persist
<1>3. CASE UNCHANGED vars
  BY <1>3 DEF vars, IInv, Shape, TrustTypeOK, Genuine, Certs, Untorn, UnchangedIsAccepted
<1> QED BY <1>1, <1>2, <1>3 DEF Next

LEMMA Invariance == Spec => []IInv
BY InitIInv, NextIInv, PTL DEF Spec

\* What is pinned for an address, in the file and in every store, is a fingerprint
\* that address has presented, or the rest of a line that was torn (tls.rs, check
\* and persist), whatever attempts and restarts there are.
THEOREM TrustStoreTypeOK == Spec => []TrustTypeOK
<1>1. IInv => TrustTypeOK
  BY DEF IInv
<1> QED BY <1>1, Invariance, PTL

\* A server that was never restarted is never rejected, however many others are
\* pinned at the same time, if no write failed (tls.rs, check).
THEOREM TrustUnchangedIsAccepted == Spec => []UnchangedIsAccepted
<1>1. IInv => UnchangedIsAccepted
  BY DEF IInv
<1> QED BY <1>1, Invariance, PTL

-----------------------------------------------------------------------------
(* One fingerprint.  The file and the stores hold nothing but accepted      *)
(* pins and the one each attempt is about to add; a store that is not stale *)
(* has all the accepted ones; so has the file, except while it is emptied,  *)
(* when its only writer has, and all other stores are stale.                *)

Single      == \A h \in Hosts : \A f, g \in trusted[h] : f = g
FileKnown   == \A h \in Hosts : file[h] \in trusted[h] \cup {NoPin}
StoreKnown  == \A a \in Attempts, h \in Hosts :
                 /\ at[a] = "loaded" => mem[a][h] \in trusted[h] \cup {NoPin}
                 /\ at[a] \in {"create", "write"} =>
                      IF h = host[a] THEN mem[a][h] = seen[a]
                                     ELSE mem[a][h] \in trusted[h] \cup {NoPin}
StoreHasAll == \A a \in Attempts \ stale : \A h \in Hosts : \A f \in trusted[h] :
                 at[a] \in Active => mem[a][h] = f
OneWriter   == \A w \in Attempts : at[w] = "write" =>
                 /\ w \notin stale
                 /\ file = NoPins
                 /\ \A b \in Attempts \ {w} : at[b] \in Active => b \in stale
FileHasAll  == (\A w \in Attempts : at[w] # "write") =>
                 \A h \in Hosts : \A f \in trusted[h] : file[h] = f

Agreed     == Single /\ FileKnown /\ StoreKnown /\ StoreHasAll /\ OneWriter /\ FileHasAll
Consistent == ~raced /\ ~failed => Agreed

\* Nothing is accepted at first.
LEMMA InitConsistent == Init => Consistent
BY DEF Init, Consistent, Agreed, Single, FileKnown, StoreKnown, StoreHasAll, OneWriter,
       FileHasAll, NoPins, Active

\* Starting and ending an attempt, and refusing a certificate, accept nothing.
LEMMA OutsideConsistent ==
    ASSUME IInv, Consistent, NEW a \in Attempts, NEW to \in {"connected", "rejected", "idle"},
           Go(a, to), UNCHANGED <<file, trusted, raced>>, ~failed' => ~failed /\ at[a] # "write",
           stale \ {a} \subseteq stale', stale' \subseteq stale,
           \A b \in Attempts \ {a} : /\ host'[b] = host[b] /\ seen'[b] = seen[b]
                                     /\ mem'[b] = mem[b]
    PROVE  Consistent'
<1> SUFFICES ASSUME ~raced', ~failed' PROVE Agreed'
  BY DEF Consistent
<1>1. Agreed /\ at[a] # "write"
  BY DEF Consistent
<1>2. \A b \in Attempts : at'[b] = IF b = a THEN to ELSE at[b]
  BY DEF IInv, Shape, Go
<1>3. Single' /\ FileKnown'
  BY <1>1 DEF Agreed, Single, FileKnown
<1>4. StoreKnown'
  BY <1>1, <1>2 DEF Agreed, StoreKnown
<1>5. StoreHasAll'
  BY <1>1, <1>2 DEF Agreed, StoreHasAll, Active
<1>6. OneWriter'
  BY <1>1, <1>2 DEF Agreed, OneWriter, NoPins, Active
<1>7. FileHasAll'
  BY <1>1, <1>2 DEF Agreed, FileHasAll
<1> QED BY <1>3, <1>4, <1>5, <1>6, <1>7 DEF Agreed

\* A store that is loaded while nobody writes has all that is accepted.
LEMMA LoadConsistent ==
    ASSUME IInv, Consistent, NEW a \in Attempts, Load(a)
    PROVE  Consistent'
<1> SUFFICES ASSUME ~raced', ~failed' PROVE Agreed'
  BY DEF Consistent
<1>1. Agreed /\ \A w \in Attempts : at[w] # "write"
  BY DEF Consistent, Load
<1>2. \A b \in Attempts : /\ at'[b] = IF b = a THEN "loaded" ELSE at[b]
                          /\ mem'[b] = IF b = a THEN file ELSE mem[b]
  BY DEF IInv, Shape, Load, Go
<1>3. UNCHANGED <<file, host, seen, trusted>> /\ stale' = stale \ {a}
  BY DEF Load
<1>4. Single' /\ FileKnown'
  BY <1>1, <1>3 DEF Agreed, Single, FileKnown
<1>5. StoreKnown'
  BY <1>1, <1>2, <1>3 DEF Agreed, StoreKnown, FileKnown
<1>6. StoreHasAll'
  BY <1>1, <1>2, <1>3 DEF Agreed, StoreHasAll, FileHasAll, Active
<1>7. OneWriter'
  BY <1>1, <1>2 DEF OneWriter
<1>8. FileHasAll'
  BY <1>1, <1>3 DEF Agreed, FileHasAll
<1> QED BY <1>4, <1>5, <1>6, <1>7, <1>8 DEF Agreed

\* What a store knows has been accepted before.
LEMMA KnownConsistent ==
    ASSUME IInv, Consistent, NEW a \in Attempts, Known(a)
    PROVE  Consistent'
<1> SUFFICES ASSUME ~raced', ~failed' PROVE Agreed'
  BY DEF Consistent
<1>1. Agreed
  BY DEF Consistent, Known
<1>2. \A b \in Attempts : at'[b] = IF b = a THEN "accepted" ELSE at[b]
  BY DEF IInv, Shape, Known, Go
<1>3. UNCHANGED <<file, host, seen, mem, stale>> /\ at[a] = "loaded"
  BY DEF Known
<1>4. trusted' = trusted
  <2>1. host[a] \in Hosts /\ seen[a] # NoPin
    BY GenuinePin, PinsApart DEF IInv, Shape
  <2>2. seen[a] \in trusted[host[a]]
    BY <1>1, <2>1 DEF Known, Agreed, StoreKnown
  <2> QED BY <2>1, <2>2 DEF Known, Accept, IInv, Shape
<1>5. Single' /\ FileKnown'
  BY <1>1, <1>3, <1>4 DEF Agreed, Single, FileKnown
<1>6. StoreKnown'
  BY <1>1, <1>2, <1>3, <1>4 DEF Agreed, StoreKnown
<1>7. StoreHasAll'
  BY <1>1, <1>2, <1>3, <1>4 DEF Agreed, StoreHasAll, Active
<1>8. OneWriter'
  BY <1>1, <1>2, <1>3 DEF Agreed, OneWriter, NoPins, Active
<1>9. FileHasAll'
  BY <1>1, <1>2, <1>3, <1>4 DEF Agreed, FileHasAll
<1> QED BY <1>5, <1>6, <1>7, <1>8, <1>9 DEF Agreed

\* A store that is not stale pins only what nothing was accepted for.
LEMMA FirstUseConsistent ==
    ASSUME IInv, Consistent, NEW a \in Attempts, FirstUse(a)
    PROVE  Consistent'
<1> SUFFICES ASSUME ~raced', ~failed' PROVE Agreed'
  BY DEF Consistent
<1>1. Agreed /\ host[a] \in Hosts
  BY DEF Consistent, FirstUse, IInv, Shape
<1>2. \A b \in Attempts :
        /\ at'[b] = IF b = a THEN "create" ELSE at[b]
        /\ \A h \in Hosts : mem'[b][h] = IF b = a /\ h = host[a] THEN seen[a] ELSE mem[b][h]
  BY DEF IInv, Shape, FirstUse, Go
<1>3. UNCHANGED <<file, host, seen, trusted, stale>>
      /\ at[a] = "loaded" /\ mem[a][host[a]] = NoPin
  BY DEF FirstUse
<1>4. a \notin stale => trusted[host[a]] = {}
  <2> SUFFICES ASSUME a \notin stale, NEW f \in trusted[host[a]] PROVE FALSE
    OBVIOUS
  <2>1. f \in Certificates
    BY <1>1 DEF IInv, Shape
  <2>2. f = NoPin
    BY <1>1, <1>3 DEF Agreed, StoreHasAll, Active
  <2> QED BY <2>1, <2>2, PinsApart
<1>5. Single' /\ FileKnown'
  BY <1>1, <1>3 DEF Agreed, Single, FileKnown
<1>6. StoreKnown'
  BY <1>1, <1>2, <1>3 DEF Agreed, StoreKnown
<1>7. StoreHasAll'
  BY <1>1, <1>2, <1>3, <1>4 DEF Agreed, StoreHasAll, Active
<1>8. OneWriter'
  BY <1>1, <1>2, <1>3 DEF Agreed, OneWriter, NoPins, Active
<1>9. FileHasAll'
  BY <1>1, <1>2, <1>3 DEF Agreed, FileHasAll
<1> QED BY <1>5, <1>6, <1>7, <1>8, <1>9 DEF Agreed

\* Emptying the file makes every other store stale; only one that is not does.
LEMMA CreateConsistent ==
    ASSUME IInv, Consistent, NEW a \in Attempts, Create(a)
    PROVE  Consistent'
<1> SUFFICES ASSUME ~raced', ~failed' PROVE Agreed'
  BY DEF Consistent
<1>1. Agreed /\ a \notin stale
  BY DEF Consistent, Create
<1>2. \A b \in Attempts : at'[b] = IF b = a THEN "write" ELSE at[b]
  BY DEF IInv, Shape, Create, Go
<1>3. /\ UNCHANGED <<host, seen, mem, trusted>>
      /\ file' = NoPins /\ at[a] = "create"
      /\ stale' = stale \cup {b \in Attempts \ {a} : at[b] \in Active}
  BY DEF Create, Active
<1>4. \A b \in Attempts : at[b] # "write"
  BY <1>1, <1>3 DEF Agreed, OneWriter, Active
<1>5. Single' /\ FileKnown'
  BY <1>1, <1>3 DEF Agreed, Single, FileKnown, NoPins
<1>6. StoreKnown'
  BY <1>1, <1>2, <1>3 DEF Agreed, StoreKnown
<1>7. StoreHasAll'
  BY <1>1, <1>2, <1>3 DEF Agreed, StoreHasAll, Active
<1>8. OneWriter'
  BY <1>1, <1>2, <1>3, <1>4 DEF OneWriter, NoPins, Active
<1>9. FileHasAll'
  BY <1>2 DEF FileHasAll
<1> QED BY <1>5, <1>6, <1>7, <1>8, <1>9 DEF Agreed

\* The writer's store becomes the file, and its pin is accepted with it.
LEMMA WriteConsistent ==
    ASSUME IInv, Consistent, NEW a \in Attempts, Write(a)
    PROVE  Consistent'
<1> SUFFICES ASSUME ~raced', ~failed' PROVE Agreed'
  BY DEF Consistent
<1>1. Agreed
  BY DEF Consistent, Write
<1>2. \A b \in Attempts : at'[b] = IF b = a THEN "accepted" ELSE at[b]
  BY DEF IInv, Shape, Write, Go
<1>3. UNCHANGED <<host, seen, mem, stale>> /\ at[a] = "write"
  BY DEF Write
<1>4. /\ a \notin stale /\ file = NoPins
      /\ \A b \in Attempts \ {a} : at[b] # "write" /\ (at[b] \in Active => b \in stale)
  BY <1>1, <1>3 DEF Agreed, OneWriter, Active
<1>5. file' = mem[a]
  BY <1>4, OverEmpty DEF Write, IInv, Shape
<1>6. \A h \in Hosts : trusted'[h] = IF h = host[a] THEN trusted[h] \cup {seen[a]}
                                     ELSE trusted[h]
  BY Accepted DEF Write
<1>7. \A h \in Hosts : \A f \in trusted[h] : mem[a][h] = f
  BY <1>1, <1>3, <1>4 DEF Agreed, StoreHasAll, Active
<1>8. \A h \in Hosts : IF h = host[a] THEN mem[a][h] = seen[a]
                       ELSE mem[a][h] \in trusted[h] \cup {NoPin}
  BY <1>1, <1>3 DEF Agreed, StoreKnown
<1>9. ASSUME NEW h \in Hosts, NEW f \in trusted'[h] PROVE mem[a][h] = f
  <2>1. CASE f \in trusted[h]
    BY <1>7, <2>1
  <2>2. CASE f \notin trusted[h]
    <3>1. h = host[a] /\ f = seen[a]
      BY <1>6, <2>2
    <3> QED BY <1>8, <3>1
  <2> QED BY <2>1, <2>2
<1>10. Single' /\ FileHasAll'
  BY <1>5, <1>9 DEF Single, FileHasAll
<1>11. FileKnown'
  BY <1>5, <1>6, <1>8 DEF FileKnown
<1>12. StoreKnown'
  BY <1>1, <1>2, <1>3, <1>6 DEF Agreed, StoreKnown
<1>13. StoreHasAll'
  BY <1>2, <1>3, <1>4 DEF StoreHasAll, Active
<1>14. OneWriter'
  BY <1>2, <1>4 DEF OneWriter
<1> QED BY <1>10, <1>11, <1>12, <1>13, <1>14 DEF Agreed

\* Every step keeps it.
LEMMA NextConsistent == IInv /\ Consistent /\ [Next]_vars => Consistent'
<1> SUFFICES ASSUME IInv, Consistent, [Next]_vars PROVE Consistent'
  OBVIOUS
<1>1. ASSUME NEW h \in Hosts, Restart(h) PROVE Consistent'
  BY <1>1 DEF Restart, Consistent, Agreed, Single, FileKnown, StoreKnown, StoreHasAll,
              OneWriter, FileHasAll, NoPins
<1>2. ASSUME NEW a \in Attempts, Attempt(a) PROVE Consistent'
  <2>1. CASE \E h \in Hosts : Connect(a, h)
    BY <2>1, OutsideConsistent DEF Connect, IInv, Shape
  <2>2. CASE Load(a)
    BY <2>2, LoadConsistent
  <2>3. CASE Known(a) \/ FirstUse(a)
    BY <2>3, KnownConsistent, FirstUseConsistent
  <2>4. CASE Changed(a)
    BY <2>4, OutsideConsistent DEF Changed
  <2>5. CASE Create(a) \/ Write(a)
    BY <2>5, CreateConsistent, WriteConsistent
  <2>6. CASE CreateFails(a) \/ WriteShort(a)
    BY <2>6 DEF CreateFails, WriteShort, Consistent
  <2>7. CASE End(a)
    BY <2>7, OutsideConsistent DEF End, IInv, Shape
  <2> QED BY <1>2, <2>1, <2>2, <2>3, <2>4, <2>5, <2>6, <2>7 DEF Attempt, Check, Persist
<1>3. CASE UNCHANGED vars
  BY <1>3 DEF vars, Consistent, Agreed, Single, FileKnown, StoreKnown, StoreHasAll,
              OneWriter, FileHasAll, NoPins
<1> QED BY <1>1, <1>2, <1>3 DEF Next

LEMMA Consistency == Spec => []Consistent
BY InitConsistent, NextConsistent, Invariance, PTL DEF Spec

\* No two fingerprints are ever accepted for one address, whatever number of attempts
\* runs at the same time and whatever is restarted, unless a stale store was written,
\* an emptied file loaded or a write failed (tls.rs, check and persist).
THEOREM TrustOneFingerprint == Spec => []OneFingerprint
<1>1. ASSUME Consistent PROVE OneFingerprint
  <2> SUFFICES ASSUME ~raced, ~failed, NEW h \in Hosts
               PROVE  Cardinality(trusted[h]) <= 1
    BY DEF OneFingerprint
  <2>1. \A f, g \in trusted[h] : f = g
    BY <1>1 DEF Consistent, Agreed, Single
  <2>2. CASE trusted[h] = {}
    BY <2>2, FS_EmptySet
  <2>3. CASE trusted[h] # {}
    <3>1. PICK f \in trusted[h] : TRUE
      BY <2>3
    <3>2. trusted[h] = {f}
      BY <2>1, <3>1
    <3> QED BY <3>2, FS_Singleton
  <2> QED BY <2>2, <2>3
<1> QED BY <1>1, Consistency, PTL

-----------------------------------------------------------------------------
(* No pin is lost that all attempts know.                                  *)

\* Stores of the attempts that have one have the pin; the file has it, or one of them
\* is about to write it.
Everywhere(h, f) == \A a \in Attempts : at[a] \in Active => mem[a][h] = f
Kept(h, f)       == \/ file[h] = f
                    \/ file[h] = NoPin /\ \E a \in Attempts : at[a] = "write" /\ mem[a][h] = f

LEMMA HeldParts ==
    ASSUME NEW h, NEW f
    PROVE  /\ Held(h, f) <=> Kept(h, f) /\ Everywhere(h, f)
           /\ Held(h, f)' <=> Kept(h, f)' /\ Everywhere(h, f)'
BY DEF Held, Kept, Everywhere, Active

\* A step of an attempt that neither writes nor is about to leaves the pin where it is,
\* if the attempt's store, when it has one, has the pin.
LEMMA HeldElsewhere ==
    ASSUME Shape, NEW h \in Hosts, NEW f, Held(h, f), NEW a \in Attempts, NEW to \in Stages,
           at[a] # "write", Go(a, to), file' = file,
           \A b \in Attempts \ {a} : mem'[b] = mem[b],
           to \in Active => mem'[a][h] = f
    PROVE  Held(h, f)'
<1>1. at' = [at EXCEPT ![a] = to] /\ at \in [Attempts -> Stages]
  BY DEF Go, Shape
<1>2. Everywhere(h, f)'
  BY <1>1, HeldParts DEF Everywhere
<1>3. CASE file[h] = f
  BY <1>2, <1>3, HeldParts DEF Kept
<1>4. CASE file[h] = NoPin /\ \E b \in Attempts : at[b] = "write" /\ mem[b][h] = f
  <2>1. PICK b \in Attempts : at[b] = "write" /\ mem[b][h] = f
    BY <1>4
  <2>2. at'[b] = "write" /\ mem'[b][h] = f
    BY <1>1, <2>1
  <2> QED BY <1>2, <1>4, <2>2, HeldParts DEF Kept
<1> QED BY <1>3, <1>4, HeldParts DEF Kept

LEMMA AttemptHeld ==
    ASSUME IInv, NEW h \in Hosts, NEW f \in Certs(h), Held(h, f), ~FoundEmpty,
           NEW a \in Attempts, Attempt(a)
    PROVE  Held(h, f)'
<1>1. Shape /\ f # NoPin
  <2>1. starts[h] \in 1..MaxStarts
    BY DEF IInv, Shape
  <2>2. f \in Certificates
    BY <2>1, TrustAssumption DEF Certs, Certificates
  <2> QED BY <2>2, PinsApart DEF IInv
<1>2. at[a] \in Active => mem[a][h] = f
  BY HeldParts DEF Everywhere
<1>3. ASSUME NEW g \in Hosts, Connect(a, g) PROVE Held(h, f)'
  BY <1>1, <1>3, HeldElsewhere DEF Connect, Stages, Active
<1>4. CASE Load(a)
  <2>1. file[h] = f
    BY <1>4, HeldParts DEF FoundEmpty, Kept
  <2>2. mem'[a][h] = f /\ \A b \in Attempts \ {a} : mem'[b] = mem[b]
    BY <1>1, <1>4, <2>1 DEF Load, Shape
  <2> QED BY <1>1, <1>4, <2>2, HeldElsewhere DEF Load, Stages, Active
<1>5. CASE Known(a) \/ Changed(a) \/ CreateFails(a)
  BY <1>1, <1>5, HeldElsewhere DEF Known, Changed, CreateFails, Stages, Active
<1>6. CASE FirstUse(a)
  <2>1. at[a] = "loaded" /\ mem[a][host[a]] = NoPin /\ mem' = [mem EXCEPT ![a][host[a]] = seen[a]]
    BY <1>6 DEF FirstUse
  <2>2. host[a] # h /\ mem[a][h] = f
    BY <1>1, <1>2, <2>1 DEF Active
  <2>3. mem'[a][h] = f /\ \A b \in Attempts \ {a} : mem'[b] = mem[b]
    BY <1>1, <2>1, <2>2 DEF Shape
  <2> QED BY <1>1, <1>6, <2>3, HeldElsewhere DEF FirstUse, Stages, Active
<1>7. CASE Create(a)
  <2>1. mem[a][h] = f /\ mem' = mem /\ at' = [at EXCEPT ![a] = "write"] /\ file' = NoPins
    BY <1>2, <1>7 DEF Create, Go, Active
  <2>2. at'[a] = "write" /\ \A b \in Attempts : at'[b] \in Active => at[b] \in Active
    BY <1>1, <1>7, <2>1 DEF Create, Shape, Active
  <2>3. Everywhere(h, f)'
    BY <2>1, <2>2, HeldParts DEF Everywhere
  <2>4. file'[h] = NoPin
    BY <2>1 DEF NoPins
  <2> QED BY <2>1, <2>2, <2>3, <2>4, HeldParts DEF Kept
<1>8. CASE Write(a)
  <2>1. /\ mem[a][h] = f /\ mem' = mem /\ at' = [at EXCEPT ![a] = "accepted"]
        /\ file' \in Over(file, mem[a])
    BY <1>2, <1>8 DEF Write, Go, Active
  <2>2. \A b \in Attempts : at'[b] \in Active => at[b] \in Active
    BY <1>1, <2>1 DEF Shape, Active
  <2>3. Everywhere(h, f)'
    BY <2>1, <2>2, HeldParts DEF Everywhere
  <2>4. file'[h] = f
    <3>1. \E R \in SUBSET Pinned(file) : file' = [g \in Hosts |-> IF g \in R THEN file[g] ELSE mem[a][g]]
      BY <2>1 DEF Over
    <3>2. file[h] = f \/ h \notin Pinned(file)
      BY HeldParts DEF Kept, Pinned
    <3> QED BY <2>1, <3>1, <3>2
  <2> QED BY <2>3, <2>4, HeldParts DEF Kept
<1>9. CASE End(a)
  <2>1. at[a] # "write" /\ mem' = [mem EXCEPT ![a] = NoPins]
    BY <1>9 DEF FoundEmpty, End
  <2>2. \A b \in Attempts \ {a} : mem'[b] = mem[b]
    BY <1>1, <2>1 DEF Shape
  <2> QED BY <1>1, <1>9, <2>1, <2>2, HeldElsewhere DEF End, Stages, Active
<1>10. ~WriteShort(a)
  BY DEF FoundEmpty
<1> QED BY <1>3, <1>4, <1>5, <1>6, <1>7, <1>8, <1>9, <1>10 DEF Attempt, Check, Persist

\* A pin that is in the file and that every attempt under way knows is not lost, however
\* many attempts pin other addresses at the same time, unless the file is found emptied
\* (tls.rs, load_or_default and persist).
THEOREM TrustPinKept == Spec => PinKept
<1> DEFINE Keeps == \A h \in Hosts : \A f \in Certs(h) : Held(h, f) /\ ~FoundEmpty => Held(h, f)'
<1>1. ASSUME IInv, Next PROVE Keeps
  <2> SUFFICES ASSUME NEW h \in Hosts, NEW f \in Certs(h), Held(h, f), ~FoundEmpty
               PROVE  Held(h, f)'
    OBVIOUS
  <2>1. ASSUME NEW g \in Hosts, Restart(g) PROVE Held(h, f)'
    BY <2>1 DEF Restart, Held
  <2> QED BY <1>1, <2>1, AttemptHeld DEF Next
<1>2. IInv /\ [Next]_vars => [Keeps]_vars
  BY <1>1
<1> QED BY <1>2, Invariance, PTL DEF Spec, PinKept

-----------------------------------------------------------------------------
(* Definitions by recursion on a number, and sequences joined.             *)

LEMMA LeastNumber ==
    ASSUME NEW S \in SUBSET Nat, S # {}
    PROVE  \E n \in S : \A m \in S : n <= m
<1> DEFINE R == OpToRel(<, Nat)
<1>1. IsWellFoundedOn(R, Nat)
  BY NatLessThanWellFounded
<1>2. \A x, y \in Nat : x < y => <<x, y>> \in R
  BY DEF OpToRel
<1> HIDE DEF R
<1>3. PICK n \in S : \A m \in S : ~ (<<m, n>> \in R)
  BY <1>1, WFMin
<1>4. \A m \in S : ~ (m < n)
  BY <1>2, <1>3
<1>5. \A m \in S : n <= m
  BY <1>4
<1> QED BY <1>5

\* A sequence of values that begins in X[0] and whose every step leads from X[i - 1]
\* into X[i] never leaves them.
LEMMA StaysIn ==
    ASSUME NEW N \in Nat, NEW X, NEW f, f[0] \in X[0],
           \A i \in 1..N : f[i - 1] \in X[i - 1] => f[i] \in X[i]
    PROVE  \A i \in 0..N : f[i] \in X[i]
<1> DEFINE Bad == {n \in 0..N : f[n] \notin X[n]}
<1>1. ASSUME Bad # {} PROVE FALSE
  <2>1. PICK n \in Bad : \A m \in Bad : n <= m
    <3>1. Bad \in SUBSET Nat
      OBVIOUS
    <3> HIDE DEF Bad
    <3> QED BY <1>1, <3>1, LeastNumber
  <2>2. n # 0 /\ n - 1 \in 0..N /\ n \in 1..N
    BY <2>1
  <2>3. f[n - 1] \in X[n - 1]
    BY <2>1, <2>2
  <2> QED BY <2>1, <2>2, <2>3
<1>2. Bad = {}
  BY <1>1
<1> QED BY <1>2

IsRun(f, N, base, step) == f = [i \in 0..N |-> IF i = 0 THEN base ELSE step[i][f[i - 1]]]

\* Where every step leads on, there is such a sequence of values: what a definition
\* by recursion on i needs to define anything.
LEMMA Recursion ==
    ASSUME NEW N \in Nat, NEW X, NEW base, base \in X[0], NEW step,
           \A i \in 1..N : \A x \in X[i - 1] : step[i][x] \in X[i]
    PROVE  \E f : IsRun(f, N, base, step) /\ \A i \in 0..N : f[i] \in X[i]
<1> DEFINE Upto(f, n) == /\ f = [i \in 0..n |-> IF i = 0 THEN base ELSE step[i][f[i - 1]]]
                         /\ \A i \in 0..n : f[i] \in X[i]
           Bad == {n \in 0..N : ~ \E f : Upto(f, n)}
<1>1. ASSUME Bad # {} PROVE FALSE
  <2>1. PICK n \in Bad : \A m \in Bad : n <= m
    <3>1. Bad \in SUBSET Nat
      OBVIOUS
    <3> HIDE DEF Bad
    <3> QED BY <1>1, <3>1, LeastNumber
  <2>2. n # 0
    <3> DEFINE f == [i \in 0..0 |-> base]
    <3>1. Upto(f, 0)
      OBVIOUS
    <3> QED BY <2>1, <3>1
  <2>3. n - 1 \in 0..N /\ n - 1 \notin Bad
    BY <2>1, <2>2
  <2>4. PICK f : Upto(f, n - 1)
    BY <2>3
  <2> DEFINE h == [i \in 0..n |-> IF i = n THEN step[n][f[n - 1]] ELSE f[i]]
  <2>5. \A i \in 0..(n - 1) : h[i] = f[i]
    BY <2>1
  <2>6. \A i \in 0..(n - 1) : f[i] = (IF i = 0 THEN base ELSE step[i][f[i - 1]]) /\ f[i] \in X[i]
    BY <2>4
  <2>7. step[n][f[n - 1]] \in X[n]
    BY <2>1, <2>2, <2>3, <2>6
  <2>8. \A i \in 0..n : h[i] = (IF i = 0 THEN base ELSE step[i][h[i - 1]]) /\ h[i] \in X[i]
    <3> SUFFICES ASSUME NEW i \in 0..n
                 PROVE  h[i] = (IF i = 0 THEN base ELSE step[i][h[i - 1]]) /\ h[i] \in X[i]
      OBVIOUS
    <3>1. CASE i = n
      <4>1. h[i] = step[n][f[n - 1]] /\ h[i - 1] = f[n - 1]
        BY <2>1, <2>2, <2>5, <3>1
      <4> QED BY <2>2, <2>7, <3>1, <4>1
    <3>2. CASE i # n
      <4>1. i \in 0..(n - 1) /\ h[i] = f[i] /\ (i # 0 => h[i - 1] = f[i - 1])
        BY <2>1, <2>5, <3>2
      <4> QED BY <2>6, <3>2, <4>1
    <3> QED BY <3>1, <3>2
  <2>9. h = [i \in 0..n |-> IF i = 0 THEN base ELSE step[i][h[i - 1]]]
    <3>1. \A i \in 0..n : h[i] = IF i = 0 THEN base ELSE step[i][h[i - 1]]
      BY <2>8
    <3> QED BY <3>1
  <2> HIDE DEF h
  <2>10. \E g : Upto(g, n)
    BY <2>8, <2>9
  <2> QED BY <2>1, <2>10
<1> HIDE DEF Upto
<1>2. N \notin Bad
  BY <1>1
<1>3. \E f : Upto(f, N)
  BY <1>2
<1> QED BY <1>3 DEF Upto, IsRun

\* s is what follows the first n elements of t, as far as it goes.
Within(s, n, t) == n + Len(s) <= Len(t) /\ \A j \in 1..Len(s) : t[n + j] = s[j]

\* What is where in two sequences joined.
LEMMA ConcatParts ==
    ASSUME NEW S, NEW s \in Seq(S), NEW t \in Seq(S), NEW u, u = s \o t
    PROVE  /\ u \in Seq(S)
           /\ Len(s) \in Nat /\ Len(t) \in Nat
           /\ Len(u) = Len(s) + Len(t)
           /\ Within(s, 0, u)
           /\ Within(t, Len(s), u)
<1>1. Len(s) \in Nat /\ Len(t) \in Nat
  BY LenProperties
<1>2. /\ s \o t \in Seq(S) /\ Len(s \o t) = Len(s) + Len(t)
      /\ \A i \in 1..(Len(s) + Len(t)) : (s \o t)[i] = IF i <= Len(s) THEN s[i] ELSE t[i - Len(s)]
  BY ConcatProperties
<1> QED BY <1>1, <1>2 DEF Within

\* What is in a part is in the whole.
LEMMA WithinPart ==
    ASSUME NEW s, NEW t, NEW u, NEW m \in Nat, NEW n \in Nat,
           Len(s) \in Nat, Len(t) \in Nat, Len(u) \in Nat,
           Within(s, m, t), Within(t, n, u)
    PROVE  Within(s, n + m, u)
<1>1. n + m + Len(s) <= Len(u)
  BY DEF Within
<1>2. ASSUME NEW j \in 1..Len(s) PROVE u[n + m + j] = s[j]
  <2>1. m + j \in 1..Len(t)
    BY DEF Within
  <2>2. u[n + (m + j)] = t[m + j] /\ t[m + j] = s[j]
    BY <2>1 DEF Within
  <2>3. n + (m + j) = n + m + j
    OBVIOUS
  <2> QED BY <2>2, <2>3
<1> QED BY <1>1, <1>2 DEF Within

\* Joining sequences one by one.
LEMMA JoinedStep ==
    ASSUME NEW S, NEW parts, Len(parts) \in Nat, \A i \in 1..Len(parts) : parts[i] \in Seq(S)
    PROVE  /\ Joined(parts)[0] = <<>>
           /\ \A n \in 1..Len(parts) : Joined(parts)[n] = Joined(parts)[n - 1] \o parts[n]
           /\ \A n \in 0..Len(parts) : Joined(parts)[n] \in Seq(S)
<1> DEFINE N == Len(parts)
           X == [n \in 0..N |-> Seq(S)]
           step == [n \in 1..N |-> [s \in X[n - 1] |-> s \o parts[n]]]
           run == Joined(parts)
<1>1. N \in Nat
  OBVIOUS
<1>2. <<>> \in X[0]
  BY <1>1
<1>3. \A n \in 1..N : \A s \in X[n - 1] : s \o parts[n] \in X[n]
  <2> SUFFICES ASSUME NEW n \in 1..N, NEW s \in X[n - 1] PROVE s \o parts[n] \in X[n]
    OBVIOUS
  <2>1. s \in Seq(S) /\ parts[n] \in Seq(S)
    BY <1>1
  <2>2. s \o parts[n] \in Seq(S)
    BY <2>1, ConcatProperties
  <2>3. X[n] = Seq(S)
    BY <1>1
  <2> QED BY <2>2, <2>3
<1>4. \A n \in 1..N : \A s \in X[n - 1] : step[n][s] = s \o parts[n]
  OBVIOUS
<1>5. PICK f : IsRun(f, N, <<>>, step) /\ \A n \in 0..N : f[n] \in X[n]
  <2> HIDE DEF N, X, step
  <2>1. \A n \in 1..N : \A s \in X[n - 1] : step[n][s] \in X[n]
    BY <1>3, <1>4
  <2> QED BY <1>1, <1>2, <2>1, Recursion
<1>6. f = [n \in 0..N |-> IF n = 0 THEN <<>> ELSE f[n - 1] \o parts[n]]
  <2> HIDE DEF X, step
  <2>1. \A n \in 1..N : n - 1 \in 0..N /\ step[n][f[n - 1]] = f[n - 1] \o parts[n]
    <3>1. \A n \in 1..N : n - 1 \in 0..N
      BY <1>1
    <3> QED BY <1>4, <1>5, <3>1
  <2>2. \A n \in 0..N : n = 0 \/ n \in 1..N
    BY <1>1
  <2> HIDE DEF N
  <2> QED BY <1>5, <2>1, <2>2 DEF IsRun
<1>7. run = [n \in 0..N |-> IF n = 0 THEN <<>> ELSE run[n - 1] \o parts[n]]
  <2> HIDE DEF N
  <2> QED BY <1>6 DEF Joined, N
<1> HIDE DEF run, X
<1>8. run[0] = <<>> /\ \A n \in 1..N : run[n] = run[n - 1] \o parts[n]
  BY <1>1, <1>7
<1>9. \A n \in 0..N : run[n] \in X[n]
  BY <1>1, <1>2, <1>3, <1>8, StaysIn
<1>10. \A n \in 0..N : run[n] \in Seq(S)
  BY <1>9 DEF X
<1> QED BY <1>8, <1>10 DEF run

\* Where each of the sequences is in the whole.
LEMMA JoinedParts ==
    ASSUME NEW S, NEW parts, Len(parts) \in Nat, \A i \in 1..Len(parts) : parts[i] \in Seq(S),
           NEW n \in 1..Len(parts)
    PROVE  /\ Len(Joined(parts)[n - 1]) \in Nat /\ Len(Joined(parts)[n]) \in Nat
           /\ Len(parts[n]) \in Nat /\ Len(Whole(parts)) \in Nat
           /\ Len(Joined(parts)[n]) = Len(Joined(parts)[n - 1]) + Len(parts[n])
           /\ Within(Joined(parts)[n], 0, Whole(parts))
           /\ Within(parts[n], Len(Joined(parts)[n - 1]), Whole(parts))
<1> DEFINE N == Len(parts)
           run == Joined(parts)
           X == [m \in 0..N |-> {s \in Seq(S) : n <= m => Within(run[n], 0, s)}]
<1>1. /\ run[0] = <<>>
      /\ \A m \in 1..N : run[m] = run[m - 1] \o parts[m]
      /\ \A m \in 0..N : run[m] \in Seq(S)
  BY JoinedStep
<1>2. /\ N \in Nat /\ n \in 1..N
      /\ \A m \in 1..N : parts[m] \in Seq(S)
  OBVIOUS
<1> HIDE DEF run, N
<1>3. \A m \in 1..N : m \in 0..N /\ m - 1 \in 0..N
  BY <1>2
<1>4. \A m \in 1..N :
         /\ Len(run[m - 1]) \in Nat /\ Len(parts[m]) \in Nat
         /\ Len(run[m]) = Len(run[m - 1]) + Len(parts[m])
         /\ Within(run[m - 1], 0, run[m])
         /\ Within(parts[m], Len(run[m - 1]), run[m])
  <2> SUFFICES ASSUME NEW m \in 1..N
               PROVE  /\ Len(run[m - 1]) \in Nat /\ Len(parts[m]) \in Nat
                      /\ Len(run[m]) = Len(run[m - 1]) + Len(parts[m])
                      /\ Within(run[m - 1], 0, run[m])
                      /\ Within(parts[m], Len(run[m - 1]), run[m])
    OBVIOUS
  <2>1. run[m - 1] \in Seq(S) /\ parts[m] \in Seq(S) /\ run[m] = run[m - 1] \o parts[m]
    BY <1>1, <1>2, <1>3
  <2> DEFINE s == run[m - 1]
             t == parts[m]
             u == run[m]
  <2>2. s \in Seq(S) /\ t \in Seq(S) /\ u = s \o t
    BY <2>1
  <2> HIDE DEF s, t, u
  <2>3. /\ Len(s) \in Nat /\ Len(t) \in Nat /\ Len(u) = Len(s) + Len(t)
        /\ Within(s, 0, u) /\ Within(t, Len(s), u)
    <3>1. s \in Seq(S)
      BY <2>2
    <3>2. t \in Seq(S)
      BY <2>2
    <3>3. u = s \o t
      BY <2>2
    <3>4. Len(s) \in Nat /\ Len(t) \in Nat
      BY <3>1, <3>2, <3>3, ConcatParts
    <3>5. Len(u) = Len(s) + Len(t)
      BY <3>1, <3>2, <3>3, ConcatParts
    <3>6. Within(s, 0, u)
      BY <3>1, <3>2, <3>3, ConcatParts
    <3>7. Within(t, Len(s), u)
      BY <3>1, <3>2, <3>3, ConcatParts
    <3> QED BY <3>4, <3>5, <3>6, <3>7
  <2> QED BY <2>3 DEF s, t, u
<1>5. \A m \in 0..N : Len(run[m]) \in Nat
  BY <1>1, LenProperties
<1>6. run[0] \in X[0]
  BY <1>1, <1>2
<1>7. \A m \in 1..N : run[m - 1] \in X[m - 1] => run[m] \in X[m]
  <2> SUFFICES ASSUME NEW m \in 1..N, run[m - 1] \in X[m - 1] PROVE run[m] \in X[m]
    OBVIOUS
  <2>1. m \in 0..N /\ m - 1 \in 0..N /\ n \in 0..N
    BY <1>3, <1>2
  <2>2. run[m] \in Seq(S) /\ (n <= m - 1 => Within(run[n], 0, run[m - 1]))
    BY <1>1, <2>1
  <2>3. ASSUME n <= m PROVE Within(run[n], 0, run[m])
    <3>1. CASE n = m
      BY <1>5, <2>1, <3>1 DEF Within
    <3>2. CASE n # m
      <4>1. n <= m - 1
        BY <1>2, <2>3, <3>2
      <4>2. Within(run[n], 0, run[m - 1]) /\ Within(run[m - 1], 0, run[m])
        BY <1>4, <2>2, <4>1
      <4>3. Within(run[n], 0 + 0, run[m])
        BY <1>5, <2>1, <4>2, WithinPart
      <4> QED BY <4>3
    <3> QED BY <3>1, <3>2
  <2>4. X[m] = {s \in Seq(S) : n <= m => Within(run[n], 0, s)}
    BY <2>1
  <2> HIDE DEF X
  <2> QED BY <2>2, <2>3, <2>4
<1>8. Within(run[n], 0, run[N])
  <2>1. run[N] \in X[N]
    <3> HIDE DEF X
    <3>1. \A m \in 0..N : run[m] \in X[m]
      BY <1>2, <1>6, <1>7, StaysIn
    <3> QED BY <1>2, <3>1
  <2>2. N \in 0..N /\ n <= N
    BY <1>2
  <2> QED BY <2>1, <2>2
<1>9. /\ Len(run[n - 1]) \in Nat /\ Len(parts[n]) \in Nat
      /\ Len(run[n]) = Len(run[n - 1]) + Len(parts[n])
      /\ Within(parts[n], Len(run[n - 1]), run[n])
  BY <1>2, <1>4
<1>10. Len(run[n]) \in Nat /\ Len(run[N]) \in Nat
  BY <1>2, <1>5
<1>11. Within(parts[n], 0 + Len(run[n - 1]), run[N])
  BY <1>8, <1>9, <1>10, WithinPart
<1>12. Within(parts[n], Len(run[n - 1]), run[N])
  BY <1>9, <1>11
<1> QED BY <1>8, <1>9, <1>10, <1>12 DEF Whole, run, N

\* The whole is a sequence, as long as its parts together.
LEMMA WholeIsSeq ==
    ASSUME NEW S, NEW parts, Len(parts) \in Nat, \A i \in 1..Len(parts) : parts[i] \in Seq(S)
    PROVE  Whole(parts) \in Seq(S) /\ Len(Whole(parts)) \in Nat
<1>1. Whole(parts) \in Seq(S)
  <2>1. Len(parts) \in 0..Len(parts)
    OBVIOUS
  <2> QED BY <2>1, JoinedStep DEF Whole
<1> QED BY <1>1, LenProperties

-----------------------------------------------------------------------------
(* Numbers as bytes (Wire).                                                *)

\* Cutting bytes off a number, one by one.
LEMMA ShiftedStep ==
    ASSUME NEW v \in Int, NEW n \in Nat
    PROVE  /\ Shifted(v, n)[0] = v
           /\ \A p \in 1..n : Shifted(v, n)[p] = Shifted(v, n)[p - 1] \div 256
           /\ \A p \in 0..n : Shifted(v, n)[p] \in Int
<1> DEFINE X == [p \in 0..n |-> Int]
           step == [p \in 1..n |-> [u \in X[p - 1] |-> u \div 256]]
           run == Shifted(v, n)
<1>1. v \in X[0]
  OBVIOUS
<1>2. \A p \in 1..n : \A u \in X[p - 1] : u \div 256 \in X[p]
  <2>1. \A p \in 1..n : X[p] = Int /\ X[p - 1] = Int
    OBVIOUS
  <2>2. \A u \in Int : u \div 256 \in Int
    OBVIOUS
  <2> HIDE DEF X
  <2> QED BY <2>1, <2>2
<1>3. \A p \in 1..n : \A u \in X[p - 1] : step[p][u] = u \div 256
  OBVIOUS
<1>4. PICK f : IsRun(f, n, v, step) /\ \A p \in 0..n : f[p] \in X[p]
  <2> HIDE DEF X, step
  <2>1. \A p \in 1..n : \A u \in X[p - 1] : step[p][u] \in X[p]
    BY <1>2, <1>3
  <2> QED BY <1>1, <2>1, Recursion
<1>5. f = [p \in 0..n |-> IF p = 0 THEN v ELSE f[p - 1] \div 256]
  <2> HIDE DEF X, step
  <2>1. \A p \in 1..n : p - 1 \in 0..n /\ step[p][f[p - 1]] = f[p - 1] \div 256
    <3>1. \A p \in 1..n : p - 1 \in 0..n
      OBVIOUS
    <3> QED BY <1>3, <1>4, <3>1
  <2>2. \A p \in 0..n : p = 0 \/ p \in 1..n
    OBVIOUS
  <2> QED BY <1>4, <2>1, <2>2 DEF IsRun
<1>6. run = [p \in 0..n |-> IF p = 0 THEN v ELSE run[p - 1] \div 256]
  BY <1>5 DEF Shifted
<1> HIDE DEF run, X
<1>7. run[0] = v /\ \A p \in 1..n : run[p] = run[p - 1] \div 256
  BY <1>6
<1>8. \A p \in 0..n : run[p] \in X[p]
  BY <1>1, <1>2, <1>7, StaysIn
<1>9. \A p \in 0..n : run[p] \in Int
  BY <1>8 DEF X
<1> QED BY <1>7, <1>9 DEF run

\* The bytes of a number.
LEMMA BytesFacts ==
    ASSUME NEW v \in Int, NEW n \in Nat
    PROVE  /\ Bytes(n, v) \in Seq(0..255) /\ Bytes(n, v) \in Seq(Nat) /\ Len(Bytes(n, v)) = n
           /\ \A i \in 1..n : Bytes(n, v)[i] = Shifted(v, n)[n - i] % 256
<1>1. \A i \in 1..n : Shifted(v, n)[n - i] \in Int
  <2>1. \A i \in 1..n : n - i \in 0..n
    OBVIOUS
  <2> QED BY <2>1, ShiftedStep
<1>2. \A x \in Int : x % 256 \in 0..255
  OBVIOUS
<1>3. Bytes(n, v) \in [1..n -> 0..255]
  BY <1>1, <1>2 DEF Bytes
<1>4. Bytes(n, v) \in Seq(0..255) /\ Len(Bytes(n, v)) = n
  BY <1>3
<1>5. Bytes(n, v) \in Seq(Nat)
  <2>1. Bytes(n, v) \in [1..n -> Nat]
    <3>1. \A x \in 0..255 : x \in Nat
      OBVIOUS
    <3> QED BY <1>3, <3>1
  <2> QED BY <2>1
<1> QED BY <1>4, <1>5 DEF Bytes

\* Gathering bytes, one by one.
LEMMA GatheredStep ==
    ASSUME NEW start \in Int, NEW b \in Seq(Nat)
    PROVE  /\ Gathered(start, b)[0] = start
           /\ \A i \in 1..Len(b) : Gathered(start, b)[i] = Gathered(start, b)[i - 1] * 256 + b[i]
<1> DEFINE N == Len(b)
           X == [i \in 0..N |-> Int]
           step == [i \in 1..N |-> [u \in X[i - 1] |-> u * 256 + b[i]]]
           run == Gathered(start, b)
<1>1. N \in Nat /\ \A i \in 1..N : b[i] \in Int
  OBVIOUS
<1>2. start \in X[0]
  BY <1>1
<1>3. \A i \in 1..N : \A u \in X[i - 1] : u * 256 + b[i] \in X[i]
  <2>1. \A i \in 1..N : X[i] = Int /\ X[i - 1] = Int
    BY <1>1
  <2>2. \A u, c \in Int : u * 256 + c \in Int
    OBVIOUS
  <2> HIDE DEF X, N
  <2> QED BY <1>1, <2>1, <2>2
<1>4. \A i \in 1..N : \A u \in X[i - 1] : step[i][u] = u * 256 + b[i]
  OBVIOUS
<1>5. PICK f : IsRun(f, N, start, step) /\ \A i \in 0..N : f[i] \in X[i]
  <2> HIDE DEF N, X, step
  <2>1. \A i \in 1..N : \A u \in X[i - 1] : step[i][u] \in X[i]
    BY <1>3, <1>4
  <2> QED BY <1>1, <1>2, <2>1, Recursion
<1>6. f = [i \in 0..N |-> IF i = 0 THEN start ELSE f[i - 1] * 256 + b[i]]
  <2> HIDE DEF X, step
  <2>1. \A i \in 1..N : i - 1 \in 0..N /\ step[i][f[i - 1]] = f[i - 1] * 256 + b[i]
    <3>1. \A i \in 1..N : i - 1 \in 0..N
      BY <1>1
    <3> QED BY <1>4, <1>5, <3>1
  <2>2. \A i \in 0..N : i = 0 \/ i \in 1..N
    BY <1>1
  <2> HIDE DEF N
  <2> QED BY <1>5, <2>1, <2>2 DEF IsRun
<1>7. run = [i \in 0..N |-> IF i = 0 THEN start ELSE run[i - 1] * 256 + b[i]]
  <2> HIDE DEF N
  <2> QED BY <1>6 DEF Gathered, N
<1> HIDE DEF run
<1>8. run[0] = start
  <2>1. 0 \in 0..N
    BY <1>1
  <2> QED BY <1>7, <2>1
<1>9. \A i \in 1..N : run[i] = run[i - 1] * 256 + b[i]
  <2>1. \A i \in 1..N : i \in 0..N /\ i # 0
    BY <1>1
  <2> QED BY <1>7, <2>1
<1> QED BY <1>8, <1>9 DEF run

\* What was cut off, gathered again from what was left, is the number.
LEMMA GatheredBytes ==
    ASSUME NEW v \in Int, NEW n \in Nat, NEW start, start = Shifted(v, n)[n]
    PROVE  Gathered(start, Bytes(n, v))[n] = v
<1> DEFINE H == Shifted(v, n)
           b == Bytes(n, v)
           run == Gathered(start, b)
           X == [i \in 0..n |-> {H[n - i]}]
<1>1. /\ H[0] = v
      /\ \A p \in 1..n : H[p] = H[p - 1] \div 256
      /\ \A p \in 0..n : H[p] \in Int
  BY ShiftedStep
<1>2. /\ b \in Seq(Nat) /\ Len(b) = n
      /\ \A i \in 1..n : b[i] = H[n - i] % 256
  BY BytesFacts
<1>3. start = H[n] /\ start \in Int
  BY <1>1
<1> HIDE DEF H, b
<1>4. run[0] = start /\ \A i \in 1..n : run[i] = run[i - 1] * 256 + b[i]
  <2>1. b \in Seq(Nat) /\ start \in Int
    BY <1>2, <1>3
  <2>2. Gathered(start, b)[0] = start
    BY <2>1, GatheredStep
  <2>3. \A i \in 1..Len(b) : Gathered(start, b)[i] = Gathered(start, b)[i - 1] * 256 + b[i]
    BY <2>1, GatheredStep
  <2> QED BY <1>2, <2>2, <2>3
<1> HIDE DEF run
<1>5. run[0] \in X[0]
  BY <1>3, <1>4
<1>6. \A i \in 1..n : run[i - 1] \in X[i - 1] => run[i] \in X[i]
  <2> SUFFICES ASSUME NEW i \in 1..n, run[i - 1] \in X[i - 1] PROVE run[i] \in X[i]
    OBVIOUS
  <2>1. n - i \in 0..n /\ n - i + 1 \in 1..n /\ n - (i - 1) = n - i + 1 /\ (n - i + 1) - 1 = n - i
    OBVIOUS
  <2>2. run[i - 1] = H[n - i + 1]
    BY <2>1
  <2>3. H[n - i + 1] = H[n - i] \div 256 /\ H[n - i] \in Int
    BY <1>1, <2>1
  <2>4. run[i] = H[n - i + 1] * 256 + (H[n - i] % 256)
    BY <1>2, <1>4, <2>2
  <2> DEFINE h == H[n - i]
  <2>5. run[i] = (h \div 256) * 256 + (h % 256) /\ h \in Int
    BY <2>3, <2>4
  <2> HIDE DEF h
  <2>6. run[i] = h
    BY <2>5
  <2> QED BY <2>6 DEF h
<1>7. run[n] \in X[n]
  <2> HIDE DEF X
  <2>1. \A i \in 0..n : run[i] \in X[i]
    BY <1>5, <1>6, StaysIn
  <2> QED BY <2>1
<1>8. run[n] = H[0]
  BY <1>7
<1> QED BY <1>1, <1>8 DEF run, b

\* What is written of a number in the range of its type is read as that number.
LEMMA NumberRead ==
    ASSUME NEW k \in {"i8", "u8", "bool", "bytes", "string", "i16", "u16", "i32s", "u32", "u64"},
           NEW v, Fits(k, v)
    PROVE  /\ Width(k) \in Nat \ {0} /\ v \in Int
           /\ Value(k, Bytes(Width(k), v)) = v
<1> DEFINE n == Width(k)
           b == Bytes(n, v)
<1>1. n \in Nat \ {0}
  BY DEF Width
<1>2. v \in Int
  BY DEF Fits
<1> HIDE DEF n
<1>3. b \in Seq(Nat) /\ Len(b) = n /\ b[1] = Shifted(v, n)[n - 1] % 256
  BY <1>1, <1>2, BytesFacts
<1>4. Shifted(v, n)[n] = Shifted(v, n)[n - 1] \div 256 /\ Shifted(v, n)[n - 1] \in Int
  BY <1>1, <1>2, ShiftedStep
<1>5. CASE k \in {"i8", "i16", "i32s"}
  <2>1. Shifted(v, n)[n - 1] \in -128..127
    BY <1>5 DEF Fits, n
  <2>2. Shifted(v, n)[n] = IF b[1] < 128 THEN 0 ELSE -1
    <3> DEFINE h == Shifted(v, n)[n - 1]
    <3>1. h \in -128..127 /\ b[1] = h % 256 /\ Shifted(v, n)[n] = h \div 256
      BY <1>3, <1>4, <2>1
    <3> HIDE DEF h, b
    <3>2. CASE h < 0
      BY <3>1, <3>2
    <3>3. CASE h >= 0
      BY <3>1, <3>3
    <3> QED BY <3>1, <3>2, <3>3
  <2>3. Signed(b) = v
    BY <1>1, <1>2, <1>3, <2>2, GatheredBytes DEF Signed
  <2> QED BY <1>1, <1>2, <1>5, <2>3 DEF Value, n
<1>6. CASE k \notin {"i8", "i16", "i32s"}
  <2>1. Shifted(v, n)[n] = 0
    BY <1>6 DEF Fits, n
  <2>2. Unsigned(b) = v
    BY <1>1, <1>2, <1>3, <2>1, GatheredBytes DEF Unsigned
  <2>3. CASE k # "bool"
    BY <1>1, <1>2, <1>6, <2>2, <2>3 DEF Value, n
  <2>4. CASE k = "bool"
    <3>1. v \in {0, 1} /\ n = 1
      BY <2>4 DEF Fits, n, Width
    <3>2. Shifted(v, n)[0] = v
      BY <1>1, <1>2, ShiftedStep
    <3>3. b[1] = v
      BY <1>3, <3>1, <3>2
    <3> QED BY <1>1, <1>2, <2>4, <3>1, <3>3 DEF Value, n
  <2> QED BY <2>3, <2>4
<1> QED BY <1>5, <1>6

\* Parts of one length.
LengthsBy(parts, w) == \A n \in 0..Len(parts) : Len(Joined(parts)[n]) = n * w

LEMMA EqualParts ==
    ASSUME NEW S, NEW parts, NEW w \in Nat, Len(parts) \in Nat,
           \A i \in 1..Len(parts) : parts[i] \in Seq(S) /\ Len(parts[i]) = w
    PROVE  LengthsBy(parts, w)
<1> DEFINE N == Len(parts)
           run == Joined(parts)
           X == [n \in 0..N |-> {s \in Seq(S) : Len(s) = n * w}]
<1>1. /\ run[0] = <<>>
      /\ \A n \in 1..N : run[n] = run[n - 1] \o parts[n]
  BY JoinedStep
<1>2. N \in Nat /\ \A n \in 1..N : parts[n] \in Seq(S) /\ Len(parts[n]) = w
  OBVIOUS
<1> HIDE DEF run, N
<1>3. run[0] \in X[0]
  BY <1>1, <1>2
<1>4. \A n \in 1..N : run[n - 1] \in X[n - 1] => run[n] \in X[n]
  <2> SUFFICES ASSUME NEW n \in 1..N, run[n - 1] \in X[n - 1] PROVE run[n] \in X[n]
    OBVIOUS
  <2>1. n \in 0..N /\ n - 1 \in 0..N /\ n \in Nat
    BY <1>2
  <2>2. run[n - 1] \in Seq(S) /\ Len(run[n - 1]) = (n - 1) * w
    BY <2>1
  <2>3. parts[n] \in Seq(S) /\ Len(parts[n]) = w /\ run[n] = run[n - 1] \o parts[n]
    BY <1>1, <1>2
  <2>4. run[n] \in Seq(S) /\ Len(run[n]) = (n - 1) * w + w
    <3>1. \A a, b \in Seq(S) : a \o b \in Seq(S) /\ Len(a \o b) = Len(a) + Len(b)
      BY ConcatProperties
    <3> QED BY <2>2, <2>3, <3>1
  <2>5. (n - 1) * w + w = n * w
    BY <2>1
  <2> QED BY <2>1, <2>4, <2>5
<1>5. \A n \in 0..N : run[n] \in X[n]
  <2> HIDE DEF X
  <2> QED BY <1>2, <1>3, <1>4, StaysIn
<1> QED BY <1>5 DEF run, N, LengthsBy

\* What is within a sequence is read from it.
LEMMA PartRead ==
    ASSUME NEW S, NEW s \in Seq(S), NEW buf \in Seq(S), NEW pos \in Nat, Within(s, pos, buf)
    PROVE  SubSeq(buf, pos + 1, pos + Len(s)) = s
<1>1. Len(s) \in Nat /\ Len(buf) \in Nat /\ s \in [1..Len(s) -> S] /\ buf \in [1..Len(buf) -> S]
  BY LenProperties
<1>2. pos + Len(s) <= Len(buf) /\ \A j \in 1..Len(s) : buf[pos + j] = s[j]
  BY DEF Within
<1>3. pos + 1 \in 1..(Len(buf) + 1) /\ pos + Len(s) \in 0..Len(buf)
  BY <1>1, <1>2
<1> DEFINE t == SubSeq(buf, pos + 1, pos + Len(s))
<1>4. t \in Seq(S) /\ Len(t) = Len(s) /\ \A j \in 1..Len(s) : t[j] = buf[pos + j]
  <2>1. \A i \in (pos + 1)..(pos + Len(s)) : buf[i] \in S
    BY <1>1, <1>2
  <2>2. pos + 1 <= pos + Len(s) + 1
    BY <1>1
  <2>3. pos + 1 \in Int /\ pos + Len(s) \in Int
    BY <1>1
  <2> DEFINE m == pos + 1
             n == pos + Len(s)
  <2>4. \A i \in m..n : buf[i] \in S
    BY <2>1
  <2>5. m \in Int /\ n \in Int
    BY <2>3
  <2>6. m = pos + 1 /\ n = pos + Len(s)
    OBVIOUS
  <2> HIDE DEF m, n
  <2>7. /\ SubSeq(buf, m, n) \in Seq(S)
        /\ Len(SubSeq(buf, m, n)) = IF m <= n THEN n - m + 1 ELSE 0
        /\ \A i \in 1..n - m + 1 : SubSeq(buf, m, n)[i] = buf[m + i - 1]
    BY <2>4, <2>5, SubSeqProperties
  <2>8. n - m + 1 = Len(s) /\ (IF m <= n THEN n - m + 1 ELSE 0) = Len(s)
    BY <1>1, <2>6
  <2>9. \A j \in 1..Len(s) : m + j - 1 = pos + j
    BY <1>1, <2>6
  <2> QED BY <2>6, <2>7, <2>8, <2>9
<1> HIDE DEF t
<1>5. t = s
  BY <1>1, <1>2, <1>4, SeqEqual
<1> QED BY <1>5 DEF t

-----------------------------------------------------------------------------
(* A field (Wire).                                                         *)

Kinds == {"i8", "u8", "bool", "bytes", "string", "i16", "u16", "i32s", "u32", "u64"}

\* A field as it is written: the bytes of its count, then those of its numbers.
LEMMA PutFacts ==
    ASSUME NEW k \in Kinds, NEW v, IsField(k, v)
    PROVE  /\ Put(k, v) \in Seq(Nat)
           /\ Len(v) \in Nat
           /\ Len(Put(k, v)) = Skip(k) + Len(v) * Width(k)
           /\ k \in Counted => Within(Bytes(4, Len(v)), 0, Put(k, v))
           /\ \A i \in 1..Len(v) :
                 Within(Bytes(Width(k), v[i]), Skip(k) + (i - 1) * Width(k), Put(k, v))
<1> DEFINE w == Width(k)
           N == Len(v)
           nums == [i \in 1..N |-> Bytes(w, v[i])]
           count == IF k \in Counted THEN Bytes(4, N) ELSE <<>>
           b == Put(k, v)
<1>1. w \in Nat \ {0}
  BY DEF Width, Kinds
<1>2. v \in Seq(Int) /\ N \in Nat
  BY DEF IsField
<1> HIDE DEF w, N
<1>3. Len(nums) = N /\ \A i \in 1..N : nums[i] = Bytes(w, v[i])
  BY <1>2
<1>4. \A i \in 1..N : nums[i] \in Seq(Nat) /\ Len(nums[i]) = w
  <2> SUFFICES ASSUME NEW i \in 1..N PROVE nums[i] \in Seq(Nat) /\ Len(nums[i]) = w
    OBVIOUS
  <2>1. v[i] \in Int
    BY <1>2 DEF N
  <2> QED BY <1>1, <1>3, <2>1, BytesFacts
<1>5. count \in Seq(Nat) /\ Len(count) = Skip(k)
  <2>1. CASE k \in Counted
    <3>1. Bytes(4, N) \in Seq(Nat) /\ Len(Bytes(4, N)) = 4
      <4>1. N \in Int /\ 4 \in Nat
        BY <1>2
      <4>2. \A x \in Int, y \in Nat : Bytes(y, x) \in Seq(Nat) /\ Len(Bytes(y, x)) = y
        BY BytesFacts
      <4> QED BY <4>1, <4>2
    <3> QED BY <2>1, <3>1 DEF Skip
  <2>2. CASE k \notin Counted
    BY <2>2 DEF Skip
  <2> QED BY <2>1, <2>2
<1>6. b = count \o Whole(nums)
  BY DEF Put, w, N
<1>7. k \in Counted => count = Bytes(4, N)
  OBVIOUS
<1> HIDE DEF nums, count, b
<1>12. \A n \in 0..N : Len(Joined(nums)[n]) = n * w
  <2>1. w \in Nat
    BY <1>1
  <2>4. Len(nums) \in Nat
    BY <1>2, <1>3
  <2>2. \A i \in 1..Len(nums) : nums[i] \in Seq(Nat) /\ Len(nums[i]) = w
    BY <1>3, <1>4
  <2>3. LengthsBy(nums, w)
    BY <2>1, <2>2, <2>4, EqualParts
  <2> QED BY <1>3, <2>3 DEF LengthsBy
<1>8. Whole(nums) \in Seq(Nat) /\ Len(Whole(nums)) = N * w
  <2>1. Whole(nums) \in Seq(Nat)
    BY <1>2, <1>3, <1>4, WholeIsSeq
  <2> QED BY <1>2, <1>3, <1>12, <2>1 DEF Whole
<1>9. b \in Seq(Nat) /\ Len(b) = Skip(k) + N * w /\ Within(count, 0, b) /\ Within(Whole(nums), Skip(k), b)
  <2>1. /\ b \in Seq(Nat) /\ Len(b) = Len(count) + Len(Whole(nums))
        /\ Within(count, 0, b) /\ Within(Whole(nums), Len(count), b)
    <3>1. count \in Seq(Nat)
      BY <1>5
    <3>2. Whole(nums) \in Seq(Nat)
      BY <1>8
    <3>3. b \in Seq(Nat)
      BY <1>6, <3>1, <3>2, ConcatParts
    <3>4. Len(b) = Len(count) + Len(Whole(nums))
      BY <1>6, <3>1, <3>2, ConcatParts
    <3>5. Within(count, 0, b)
      BY <1>6, <3>1, <3>2, ConcatParts
    <3>6. Within(Whole(nums), Len(count), b)
      BY <1>6, <3>1, <3>2, ConcatParts
    <3> QED BY <3>3, <3>4, <3>5, <3>6
  <2> QED BY <1>5, <1>8, <2>1
<1>10. ASSUME NEW i \in 1..N PROVE Within(Bytes(w, v[i]), Skip(k) + (i - 1) * w, b)
  <2>1. Within(nums[i], Len(Joined(nums)[i - 1]), Whole(nums)) /\ Len(Whole(nums)) \in Nat
    BY <1>2, <1>3, <1>4, JoinedParts
  <2>2. Len(Joined(nums)[i - 1]) = (i - 1) * w
    <3>1. i - 1 \in 0..N
      BY <1>2
    <3> QED BY <1>12, <3>1
  <2> DEFINE s == nums[i]
             m == (i - 1) * w
             t == Whole(nums)
             n == Skip(k)
  <2>3. s = Bytes(w, v[i]) /\ Within(s, m, t)
    BY <1>3, <2>1, <2>2
  <2>4. m \in Nat
    <3>1. i - 1 \in Nat /\ w \in Nat
      BY <1>1, <1>2
    <3>2. \A x, y \in Nat : x * y \in Nat
      OBVIOUS
    <3> QED BY <3>1, <3>2
  <2>5. n \in Nat /\ Len(s) \in Nat /\ Len(t) \in Nat /\ Len(b) \in Nat /\ Within(t, n, b)
    <3>1. Len(s) = w
      BY <1>4
    <3> QED BY <1>1, <1>5, <1>9, <2>1, <3>1, LenProperties DEF Skip
  <2>6. n + m = Skip(k) + (i - 1) * w
    OBVIOUS
  <2> HIDE DEF s, m, t, n
  <2>7. Within(s, n + m, b)
    BY <2>3, <2>4, <2>5, WithinPart
  <2> QED BY <2>3, <2>6, <2>7
<1> QED BY <1>2, <1>7, <1>9, <1>10 DEF w, N, b

\* The number of a field at a place where its bytes are.
LEMMA NumberAt ==
    ASSUME NEW k \in Kinds, NEW x, Fits(k, x), NEW buf \in Seq(Nat), NEW pos \in Nat,
           Within(Bytes(Width(k), x), pos, buf)
    PROVE  Value(k, SubSeq(buf, pos + 1, pos + Width(k))) = x
<1> DEFINE b == Bytes(Width(k), x)
<1>1. Width(k) \in Nat /\ x \in Int /\ Value(k, b) = x
  BY NumberRead DEF Kinds
<1>2. b \in Seq(Nat) /\ Len(b) = Width(k)
  BY <1>1, BytesFacts
<1> HIDE DEF b
<1>3. Within(b, pos, buf)
  BY DEF b
<1>4. SubSeq(buf, pos + 1, pos + Len(b)) = b
  BY <1>2, <1>3, PartRead
<1> QED BY <1>1, <1>2, <1>4

\* A field that is somewhere in a message no longer than allowed is read there as
\* what was written.
FieldIs(k, v, pos, buf) == /\ Readable(k, pos, buf)
                          /\ FieldEnd(k, pos, buf) = pos + Len(Put(k, v))
                          /\ Get(k, pos, buf) = v

LEMMA FieldRead ==
    ASSUME NEW k \in Kinds, NEW v, IsField(k, v), NEW buf \in Seq(Nat), Len(buf) <= MaxField,
           NEW pos \in Nat, Within(Put(k, v), pos, buf)
    PROVE  FieldIs(k, v, pos, buf)
<1> DEFINE w == Width(k)
           N == Len(v)
           b == Put(k, v)
           M == MaxField
<1>1. /\ b \in Seq(Nat) /\ N \in Nat /\ Len(b) = Skip(k) + N * w
      /\ k \in Counted => Within(Bytes(4, N), 0, b)
      /\ \A i \in 1..N : Within(Bytes(w, v[i]), Skip(k) + (i - 1) * w, b)
  BY PutFacts
<1>2. /\ w \in {1, 2, 4, 8} /\ (k \in Counted => w \in {1, 4})
      /\ (k \in Counted => Skip(k) = 4) /\ (k \notin Counted => Skip(k) = 0) /\ Skip(k) \in Nat
  BY DEF Width, Kinds, Counted, Skip
<1>3. Len(buf) \in Nat /\ Len(b) \in Nat /\ pos + Len(b) <= Len(buf) /\ Within(b, pos, buf)
  BY <1>1, LenProperties DEF Within
<1>4. v \in Seq(Int) /\ (\A i \in 1..N : Fits(k, v[i])) /\ (k \in Counted => Fits("u32", N)) /\ (k \notin Counted => N = 1)
  BY DEF IsField
<1>5. M \in Nat /\ Len(buf) <= M
  BY WireAssumption
<1> HIDE DEF w, N, b, M
<1>6. Count(k, pos, buf) = N
  <2>1. CASE k \in Counted
    <3> DEFINE c == Bytes(4, N)
    <3>1. Width("u32") = 4
      BY DEF Width
    <3>2. Within(c, pos + 0, buf)
      <4>1. Len(c) \in Nat
        <5>1. N \in Int /\ 4 \in Nat
          BY <1>1
        <5>2. \A x \in Int, y \in Nat : Len(Bytes(y, x)) = y
          BY BytesFacts
        <5> QED BY <5>1, <5>2
      <4>2. Within(c, 0, b)
        BY <1>1, <2>1
      <4> HIDE DEF c
      <4> QED BY <1>3, <4>1, <4>2, WithinPart
    <3>3. Within(Bytes(Width("u32"), N), pos, buf)
      BY <3>1, <3>2
    <3>4. Value("u32", SubSeq(buf, pos + 1, pos + Width("u32"))) = N
      BY <1>4, <2>1, <3>3, NumberAt DEF Kinds
    <3> QED BY <2>1, <3>1, <3>4 DEF Value, Count
  <2>2. CASE k \notin Counted
    BY <1>4, <2>2 DEF Count
  <2> QED BY <2>1, <2>2
<1>7. FieldEnd(k, pos, buf) = pos + Len(b)
  <2>1. CASE k \in Counted
    <3>1. pos + 4 <= Len(buf)
      <4>1. N * w \in Nat
        BY <1>1, <1>2
      <4> QED BY <1>1, <1>2, <1>3, <2>1, <4>1
    <3>2. FieldEnd(k, pos, buf) = pos + 4 + N * w
      BY <1>3, <1>6, <2>1, <3>1 DEF FieldEnd, w
    <3>3. N * w \in Nat
      BY <1>1, <1>2
    <3> QED BY <1>1, <1>2, <2>1, <3>2, <3>3
  <2>2. CASE k \notin Counted
    <3>1. Len(b) = w
      BY <1>1, <1>2, <1>4, <2>2
    <3> QED BY <2>2, <3>1 DEF FieldEnd, w
  <2> QED BY <2>1, <2>2
<1>8. Readable(k, pos, buf)
  <2>1. pos + Skip(k) <= Len(buf)
    <3>1. N * w \in Nat
      BY <1>1, <1>2
    <3> QED BY <1>1, <1>2, <1>3, <3>1
  <2>2. ASSUME k \in Counted PROVE Count(k, pos, buf) <= MaxField \div Width(k)
    <3>1. N * w <= M
      BY <1>1, <1>2, <1>3, <1>5, <2>2
    <3>2. CASE w = 1
      BY <1>1, <1>5, <3>1, <3>2, <1>6 DEF w, M
    <3>3. CASE w = 4
      BY <1>1, <1>5, <3>1, <3>3, <1>6 DEF w, M
    <3> QED BY <1>2, <2>2, <3>2, <3>3
  <2>3. FieldEnd(k, pos, buf) <= Len(buf)
    BY <1>3, <1>7
  <2>4. ASSUME k = "string" PROVE IsText(SubSeq(buf, pos + 5, FieldEnd(k, pos, buf)))
    <3>1. k \in Counted /\ w = 1
      BY <2>4 DEF Counted, Width, w
    <3>2. Len(b) = 4 + N
      BY <1>1, <1>2, <3>1
    <3> DEFINE m == pos + 5
               n == pos + 4 + N
    <3>3. FieldEnd(k, pos, buf) = n
      <4>1. pos + Len(b) = n
        <5>1. N \in Nat
          BY <1>1
        <5>2. \A x, y \in Nat : x + (4 + y) = x + 4 + y
          OBVIOUS
        <5> QED BY <3>2, <5>1, <5>2
      <4> QED BY <1>7, <4>1
    <3>4. ASSUME NEW i \in m..n PROVE buf[i] \in Nat /\ buf[i] # 255
      <4> DEFINE j == i - pos - 4
      <4>1. j \in 1..N /\ 4 + j \in 1..Len(b) /\ pos + (4 + j) = i
        BY <1>1, <3>2
      <4>2. buf[i] = b[4 + j]
        BY <1>3, <4>1 DEF Within
      <4>3. b[4 + j] = Bytes(1, v[j])[1]
        <5>1. Within(Bytes(1, v[j]), 4 + (j - 1) * 1, b)
          BY <1>1, <1>2, <3>1, <4>1
        <5>2. v[j] \in Int /\ Len(Bytes(1, v[j])) = 1
          <6>1. v[j] \in Int
            BY <1>4, <4>1 DEF N
          <6>2. \A x \in Int, y \in Nat : Len(Bytes(y, x)) = y
            BY BytesFacts
          <6> QED BY <6>1, <6>2
        <5>3. 4 + (j - 1) * 1 + 1 = 4 + j
          BY <4>1
        <5> DEFINE s == Bytes(1, v[j])
                   p == 4 + (j - 1) * 1
        <5>4. Within(s, p, b)
          BY <5>1
        <5>8. Len(s) = 1
          BY <5>2
        <5>6. p + 1 = 4 + j
          BY <5>3
        <5> HIDE DEF s, p, j
        <5>5. 1 \in 1..Len(s)
          BY <5>8
        <5>7. b[p + 1] = s[1]
          BY <5>4, <5>5 DEF Within
        <5> QED BY <5>6, <5>7 DEF s
      <4>4. Bytes(1, v[j])[1] = v[j]
        <5> DEFINE x == v[j]
        <5>1. x \in Int /\ Shifted(x, 1)[1] = 0
          BY <1>4, <4>1, <2>4, <3>1 DEF Fits, w
        <5> HIDE DEF x
        <5>2. Shifted(x, 1)[0] = x /\ Shifted(x, 1)[1] = Shifted(x, 1)[0] \div 256
          <6>1. \A p \in 1..1 : Shifted(x, 1)[p] = Shifted(x, 1)[p - 1] \div 256
            BY <5>1, ShiftedStep
          <6>2. Shifted(x, 1)[0] = x
            BY <5>1, ShiftedStep
          <6> QED BY <6>1, <6>2
        <5>3. Bytes(1, x)[1] = x % 256
          <6>1. \A l \in 1..1 : Bytes(1, x)[l] = Shifted(x, 1)[1 - l] % 256
            BY <5>1, BytesFacts
          <6> QED BY <5>2, <6>1
        <5>4. x % 256 = x
          BY <5>1, <5>2
        <5> QED BY <5>3, <5>4 DEF x
      <4>5. v[j] # 255 /\ v[j] \in Int
        BY <1>4, <2>4, <4>1 DEF Fits
      <4>6. buf[i] \in Nat
        BY <1>3, <4>1
      <4> QED BY <4>2, <4>3, <4>4, <4>5, <4>6
    <3>5. m \in Int /\ n \in Int
      BY <1>1
    <3>6. n - m + 1 \in Nat
      BY <1>1
    <3>9. m = pos + 5
      OBVIOUS
    <3> HIDE DEF m, n
    <3>7. /\ SubSeq(buf, m, n) \in Seq(Nat)
          /\ Len(SubSeq(buf, m, n)) = IF m <= n THEN n - m + 1 ELSE 0
          /\ \A i \in 1..n - m + 1 : SubSeq(buf, m, n)[i] = buf[m + i - 1]
      BY <3>4, <3>5, SubSeqProperties
    <3>8. ASSUME NEW i \in DOMAIN SubSeq(buf, m, n) PROVE SubSeq(buf, m, n)[i] # 255
      <4>1. i \in 1..n - m + 1
        BY <3>5, <3>6, <3>7
      <4>2. m + i - 1 \in m..n
        BY <3>5, <4>1
      <4> QED BY <3>4, <3>7, <4>1, <4>2
    <3> QED BY <3>3, <3>8, <3>9 DEF IsText
  <2> QED BY <2>1, <2>2, <2>3, <2>4 DEF Readable
<1>9. Get(k, pos, buf) = v
  <2>1. ASSUME NEW i \in 1..N
        PROVE  Value(k, SubSeq(buf, pos + Skip(k) + (i - 1) * w + 1, pos + Skip(k) + i * w)) = v[i]
    <3> DEFINE p == Skip(k) + (i - 1) * w
               q == pos + p
    <3>1. p \in Nat /\ q \in Nat
      <4>1. i - 1 \in Nat /\ w \in Nat
        BY <1>1, <1>2
      <4>2. \A x, y \in Nat : x * y \in Nat
        OBVIOUS
      <4>3. (i - 1) * w \in Nat
        BY <4>1, <4>2
      <4> QED BY <1>2, <4>3
    <3>8. w \in Nat /\ i \in Nat /\ i * w = (i - 1) * w + w
      BY <1>1, <1>2
    <3>9. i * w \in Nat /\ (i - 1) * w \in Nat
      <4>1. \A x, y \in Nat : x * y \in Nat
        OBVIOUS
      <4>2. i - 1 \in Nat
        OBVIOUS
      <4> QED BY <3>8, <4>1, <4>2
    <3>2. pos + Skip(k) + (i - 1) * w + 1 = q + 1 /\ pos + Skip(k) + i * w = q + w
      <4> DEFINE x == (i - 1) * w
                 y == i * w
                 c == Skip(k)
      <4>1. x \in Nat /\ y \in Nat /\ y = x + w /\ c \in Nat /\ w \in Nat
        BY <1>2, <3>8, <3>9
      <4>2. q = pos + (c + x)
        OBVIOUS
      <4> HIDE DEF x, y, c, q
      <4>3. pos + c + x + 1 = q + 1 /\ pos + c + y = q + w
        BY <4>1, <4>2
      <4> QED BY <4>3 DEF x, y, c
    <3> DEFINE s == Bytes(w, v[i])
    <3>3. Within(s, p, b)
      BY <1>1
    <3>4. Len(s) \in Nat
      <4>1. v[i] \in Int /\ w \in Nat
        BY <1>2, <1>4 DEF N
      <4>2. \A x \in Int, y \in Nat : Len(Bytes(y, x)) = y
        BY BytesFacts
      <4> QED BY <4>1, <4>2
    <3> HIDE DEF p, s
    <3>5. Within(s, q, buf)
      BY <1>3, <3>1, <3>3, <3>4, WithinPart
    <3> HIDE DEF q
    <3>6. Within(Bytes(Width(k), v[i]), q, buf) /\ Fits(k, v[i])
      BY <1>4, <3>5 DEF s, w
    <3>7. Value(k, SubSeq(buf, q + 1, q + Width(k))) = v[i]
      BY <3>1, <3>6, NumberAt
    <3> QED BY <3>2, <3>7 DEF w
  <2>2. Get(k, pos, buf) = [i \in 1..N |-> v[i]]
    BY <1>6, <2>1 DEF Get, w
  <2>3. v = [i \in 1..N |-> v[i]]
    BY <1>4 DEF N
  <2> QED BY <2>2, <2>3
<1> QED BY <1>7, <1>8, <1>9 DEF FieldIs, b

-----------------------------------------------------------------------------
(* A message (Wire).                                                       *)

\* Fields written one after the other, after any head, are read as they were given.
IsPut(m, kinds, head, parts, buf) ==
    /\ m = [type |-> m.type, fields |-> m.fields]
    /\ m.fields = [i \in 1..Len(kinds) |-> m.fields[i]] /\ Len(parts) = Len(kinds)
    /\ \A i \in 1..Len(kinds) : IsField(kinds[i], m.fields[i]) /\ parts[i] = Put(kinds[i], m.fields[i])
    /\ buf = head \o Whole(parts)
    /\ Len(buf) <= MaxField

IsRead(m, kinds, pos, buf) == Message(m.type, kinds, pos, buf) = m

LEMMA FieldsRead ==
    ASSUME NEW kinds \in Seq(Kinds), NEW head \in Seq(Nat), NEW m, NEW parts, NEW buf,
           IsPut(m, kinds, head, parts, buf)
    PROVE  IsRead(m, kinds, Len(head), buf)
<1> DEFINE t == m.type
           values == m.fields
           N == Len(kinds)
           pos == Len(head)
           run == FieldEnds(kinds, pos, buf)
           X == [i \in 0..N |-> {pos + Len(Joined(parts)[i])}]
           step == [i \in 1..N |-> [x \in X[i - 1] |-> FieldEnd(kinds[i], x, buf)]]
<1>1. N \in Nat /\ pos \in Nat /\ \A i \in 1..N : kinds[i] \in Kinds /\ IsField(kinds[i], values[i])
  BY LenProperties, ElementOfSeq DEF IsPut
<1>2. Len(parts) = N /\ \A i \in 1..N : parts[i] = Put(kinds[i], values[i])
  BY <1>1 DEF IsPut
<1>3. \A i \in 1..N : parts[i] \in Seq(Nat)
  <2> SUFFICES ASSUME NEW i \in 1..N PROVE parts[i] \in Seq(Nat)
    OBVIOUS
  <2>1. kinds[i] \in Kinds /\ IsField(kinds[i], values[i])
    BY <1>1
  <2> DEFINE k == kinds[i]
             v == values[i]
  <2>2. k \in Kinds /\ IsField(k, v)
    BY <2>1
  <2> HIDE DEF k, v
  <2>3. Put(k, v) \in Seq(Nat)
    BY <2>2, PutFacts
  <2> QED BY <1>2, <2>3 DEF k, v
<1>4. buf = head \o Whole(parts) /\ Len(buf) <= MaxField /\ m = [type |-> t, fields |-> values]
  BY DEF IsPut
<1>5. values = [i \in 1..N |-> values[i]]
  BY DEF IsPut
<1> HIDE DEF N, t, values
<1>6. Whole(parts) \in Seq(Nat) /\ Len(Whole(parts)) \in Nat
  BY <1>1, <1>2, <1>3, WholeIsSeq
<1>7. buf \in Seq(Nat) /\ Within(Whole(parts), pos, buf) /\ Len(buf) \in Nat
  <2> DEFINE w == Whole(parts)
  <2>1. w \in Seq(Nat) /\ buf = head \o w
    BY <1>4, <1>6
  <2> HIDE DEF w
  <2>2. buf \in Seq(Nat)
    BY <2>1, ConcatParts
  <2>3. Within(w, Len(head), buf)
    BY <2>1, ConcatParts
  <2> QED BY <2>2, <2>3, LenProperties DEF w
<1> HIDE DEF pos
<1>8. Len(Joined(parts)[0]) = 0 /\ \A i \in 0..N : Len(Joined(parts)[i]) \in Nat
  <2>1. Joined(parts)[0] = <<>> /\ \A i \in 0..N : Joined(parts)[i] \in Seq(Nat)
    BY <1>1, <1>2, <1>3, JoinedStep
  <2> QED BY <2>1, LenProperties
<1>9. ASSUME NEW i \in 1..N, NEW x, x = pos + Len(Joined(parts)[i - 1])
      PROVE  /\ Readable(kinds[i], x, buf)
             /\ FieldEnd(kinds[i], x, buf) = pos + Len(Joined(parts)[i])
             /\ Get(kinds[i], x, buf) = values[i]
  <2> DEFINE k == kinds[i]
             v == values[i]
             q == Len(Joined(parts)[i - 1])
             n == Len(Joined(parts)[i])
             w == Whole(parts)
  <2>1. k \in Kinds /\ IsField(k, v) /\ parts[i] = Put(k, v)
    BY <1>1, <1>2
  <2>2. /\ q \in Nat /\ n \in Nat /\ Len(parts[i]) \in Nat /\ n = q + Len(parts[i])
        /\ Within(parts[i], q, w)
    <3>1. Len(parts) \in Nat /\ i \in 1..Len(parts) /\ \A j \in 1..Len(parts) : parts[j] \in Seq(Nat)
      BY <1>1, <1>2, <1>3
    <3> HIDE DEF q, n, w
    <3>2. Len(Joined(parts)[i - 1]) \in Nat /\ Len(Joined(parts)[i]) \in Nat /\ Len(parts[i]) \in Nat
      BY <3>1, JoinedParts
    <3>3. Len(Joined(parts)[i]) = Len(Joined(parts)[i - 1]) + Len(parts[i])
      BY <3>1, JoinedParts
    <3>4. Within(parts[i], Len(Joined(parts)[i - 1]), Whole(parts))
      BY <3>1, JoinedParts
    <3> QED BY <3>2, <3>3, <3>4 DEF q, n, w
  <2>3. x = pos + q /\ x \in Nat
    BY <1>1, <1>9, <2>2
  <2>4. Within(Put(k, v), pos + q, buf)
    <3> DEFINE s == Put(k, v)
    <3>1. Len(s) \in Nat /\ Len(w) \in Nat /\ Len(buf) \in Nat /\ Within(s, q, w) /\ Within(w, pos, buf)
      BY <1>6, <1>7, <2>1, <2>2
    <3> HIDE DEF s, w, q
    <3>2. Within(s, pos + q, buf)
      BY <1>1, <2>2, <3>1, WithinPart
    <3> QED BY <3>2 DEF s
  <2> HIDE DEF k, v, q, n, w
  <2>5. Within(Put(k, v), x, buf)
    BY <2>3, <2>4
  <2>6. FieldIs(k, v, x, buf)
    BY <1>4, <1>7, <2>1, <2>3, <2>5, FieldRead
  <2>7. /\ Readable(k, x, buf) /\ FieldEnd(k, x, buf) = x + Len(Put(k, v))
        /\ Get(k, x, buf) = v
    BY <2>6 DEF FieldIs
  <2>9. x + Len(Put(k, v)) = pos + n
    BY <1>1, <2>1, <2>2, <2>3
  <2> QED BY <2>7, <2>9 DEF k, v, n
<1>10. pos \in X[0]
  <2>1. 0 \in 0..N /\ pos + 0 = pos
    BY <1>1
  <2>2. X[0] = {pos + Len(Joined(parts)[0])}
    BY <2>1
  <2> HIDE DEF X
  <2> QED BY <1>8, <2>1, <2>2
<1>11. \A i \in 1..N : \A x \in X[i - 1] : FieldEnd(kinds[i], x, buf) \in X[i]
  <2> SUFFICES ASSUME NEW i \in 1..N, NEW x \in X[i - 1] PROVE FieldEnd(kinds[i], x, buf) \in X[i]
    OBVIOUS
  <2>1. i \in 0..N /\ i - 1 \in 0..N
    BY <1>1
  <2>2. x = pos + Len(Joined(parts)[i - 1]) /\ X[i] = {pos + Len(Joined(parts)[i])}
    BY <2>1
  <2> HIDE DEF X
  <2> QED BY <1>9, <2>2
<1>12. \A i \in 1..N : \A x \in X[i - 1] : step[i][x] = FieldEnd(kinds[i], x, buf)
  OBVIOUS
<1>13. PICK f : IsRun(f, N, pos, step) /\ \A i \in 0..N : f[i] \in X[i]
  <2> HIDE DEF X, step
  <2>1. \A i \in 1..N : \A x \in X[i - 1] : step[i][x] \in X[i]
    BY <1>11, <1>12
  <2> QED BY <1>1, <1>10, <2>1, Recursion
<1>14. f = [i \in 0..N |-> IF i = 0 THEN pos ELSE FieldEnd(kinds[i], f[i - 1], buf)]
  <2> HIDE DEF X, step
  <2>1. \A i \in 1..N : i - 1 \in 0..N /\ step[i][f[i - 1]] = FieldEnd(kinds[i], f[i - 1], buf)
    <3>1. \A i \in 1..N : i - 1 \in 0..N
      BY <1>1
    <3> QED BY <1>12, <1>13, <3>1
  <2>2. \A i \in 0..N : i = 0 \/ i \in 1..N
    BY <1>1
  <2> QED BY <1>13, <2>1, <2>2 DEF IsRun
<1>15. run = [i \in 0..N |-> IF i = 0 THEN pos ELSE FieldEnd(kinds[i], run[i - 1], buf)]
  BY <1>14 DEF FieldEnds, N
<1> HIDE DEF run, X
<1>16. run[0] = pos
  <2>1. 0 \in 0..N
    BY <1>1
  <2> QED BY <1>15, <2>1
<1>17. \A i \in 1..N : run[i] = FieldEnd(kinds[i], run[i - 1], buf)
  <2>1. \A i \in 1..N : i \in 0..N /\ i # 0
    BY <1>1
  <2> QED BY <1>15, <2>1
<1>18. \A i \in 0..N : run[i] \in X[i]
  BY <1>1, <1>10, <1>11, <1>16, <1>17, StaysIn
<1>19. \A i \in 0..N : run[i] = pos + Len(Joined(parts)[i])
  BY <1>18 DEF X
<1>20. \A i \in 1..N : Readable(kinds[i], run[i - 1], buf) /\ Get(kinds[i], run[i - 1], buf) = values[i]
  <2> SUFFICES ASSUME NEW i \in 1..N
               PROVE  Readable(kinds[i], run[i - 1], buf) /\ Get(kinds[i], run[i - 1], buf) = values[i]
    OBVIOUS
  <2>1. i - 1 \in 0..N
    BY <1>1
  <2>2. run[i - 1] = pos + Len(Joined(parts)[i - 1])
    BY <1>19, <2>1
  <2> QED BY <1>9, <2>2
<1>21. [i \in 1..N |-> Get(kinds[i], run[i - 1], buf)] = values
  BY <1>5, <1>20
<1>22. Message(t, kinds, pos, buf) =
         IF \A i \in 1..N : Readable(kinds[i], run[i - 1], buf)
         THEN [type |-> t, fields |-> [i \in 1..N |-> Get(kinds[i], run[i - 1], buf)]]
         ELSE Malformed
  BY DEF Message, run, N
<1>23. Message(t, kinds, pos, buf) = m
  BY <1>4, <1>20, <1>21, <1>22
<1> QED BY <1>23 DEF IsRead, pos, t

\* What the tables are made of, and that they agree.
LEMMA Tables ==
    /\ \A t \in Types : Written(t) \in Seq(Kinds)
    /\ \A t \in CodedTypes : Parsed(t) = Written(t) /\ t # "Hello" /\ t # "HelloBack"
    /\ Written("Hello") = <<"i16", "i16">> /\ Written("HelloBack") = <<"i16", "i16", "string">>
    /\ "Malformed" \notin Types
<1>1. \A t \in CodedTypes : \E i \in 1..29 : t = Coded[i]
  BY DEF CodedTypes, ToSet, Coded
<1>2. \A t \in CodedTypes : t # "Hello" /\ t # "HelloBack" /\ t # "Malformed"
  BY <1>1 DEF Coded
<1>3. "Malformed" \notin Types
  BY <1>2 DEF Types
<1>4. \A t \in Types : Written(t) \in Seq(Kinds)
  <2>1. /\ <<>> \in Seq(Kinds) /\ <<"i16", "i16">> \in Seq(Kinds)
        /\ <<"i16", "i16", "string">> \in Seq(Kinds) /\ <<"i32s">> \in Seq(Kinds)
        /\ <<"i16", "i16", "i16", "i16", "i16", "i16", "i16">> \in Seq(Kinds)
        /\ <<"bool">> \in Seq(Kinds) /\ <<"i16", "i16", "u32", "u16">> \in Seq(Kinds)
        /\ KeyData \in Seq(Kinds) /\ <<"u16", "u16", "u16", "u16">> \in Seq(Kinds)
        /\ <<"i8">> \in Seq(Kinds) /\ XY \in Seq(Kinds)
        /\ <<"i8", "u32">> \in Seq(Kinds) /\ <<"i8", "u32", "i8", "bytes">> \in Seq(Kinds)
        /\ <<"u32", "string", "u64">> \in Seq(Kinds) /\ <<"u32", "u32", "bytes">> \in Seq(Kinds)
        /\ <<"u32", "u32">> \in Seq(Kinds) /\ <<"u32", "bool">> \in Seq(Kinds)
    BY DEF KeyData, XY, Kinds
  <2> QED BY <2>1 DEF Written
<1>5. Written("Hello") = <<"i16", "i16">> /\ Written("HelloBack") = <<"i16", "i16", "string">>
  BY DEF Written
<1>6. ASSUME NEW t \in CodedTypes PROVE Parsed(t) = Written(t)
  <2>1. t # "Hello" /\ t # "HelloBack"
    BY <1>2
  <2>2. CASE t \in {"DeviceInfo", "SetOptions", "ScreenSaver", "Enter", "KeyRepeat", "ErrIncompatible"}
    BY <2>2 DEF Written, Parsed
  <2>3. CASE t \in {"KeyDown", "KeyUp", "MouseDown", "MouseUp", "MouseMove", "MouseRelMove", "MouseWheel"}
    BY <2>3 DEF Written, Parsed, KeyData, XY
  <2>4. CASE t \in {"ClipboardGrab", "ClipboardData", "FileOffer", "FileChunk", "FileEnd", "FileAccept"}
    BY <2>4 DEF Written, Parsed
  <2>5. CASE t \notin {"DeviceInfo", "SetOptions", "ScreenSaver", "Enter", "KeyRepeat", "ErrIncompatible",
                      "KeyDown", "KeyUp", "MouseDown", "MouseUp", "MouseMove", "MouseRelMove", "MouseWheel",
                      "ClipboardGrab", "ClipboardData", "FileOffer", "FileChunk", "FileEnd", "FileAccept"}
    BY <2>1, <2>5 DEF Written, Parsed
  <2> QED BY <2>2, <2>3, <2>4, <2>5
<1> QED BY <1>2, <1>3, <1>4, <1>5, <1>6

LEMMA LetterFacts ==
    /\ \A t \in CodedTypes : Letter(t) \in Nat /\ Letter(t) > 256
    /\ \A t, u \in CodedTypes : Letter(t) = Letter(u) => t = u
<1>1. \A t \in CodedTypes : \E i \in DOMAIN Coded : Coded[i] = t
  BY DEF CodedTypes, ToSet
<1> DEFINE I(t) == CHOOSE i \in DOMAIN Coded : Coded[i] = t
<1>2. \A t \in CodedTypes : I(t) \in DOMAIN Coded /\ Coded[I(t)] = t
  BY <1>1
<1>3. \A i \in DOMAIN Coded : i \in Nat /\ i > 0
  BY DEF Coded
<1>4. \A t : Letter(t) = 256 + I(t)
  BY DEF Letter
<1> HIDE DEF I
<1>5. \A t \in CodedTypes : I(t) \in Nat /\ I(t) > 0
  BY <1>2, <1>3
<1>6. \A t \in CodedTypes : Letter(t) \in Nat /\ Letter(t) > 256
  BY <1>4, <1>5
<1>7. ASSUME NEW t \in CodedTypes, NEW u \in CodedTypes, Letter(t) = Letter(u) PROVE t = u
  <2>1. I(t) = I(u)
    BY <1>4, <1>5, <1>7
  <2> QED BY <1>2, <2>1
<1> QED BY <1>6, <1>7

\* A message as it is written: what it opens with, then its fields.
LEMMA EncodeFacts ==
    ASSUME NEW m, IsMessage(m)
    PROVE  /\ Opening(m.type) \in Seq(Nat)
           /\ m.type \in CodedTypes => Opening(m.type) = Code(m.type) /\ Len(Opening(m.type)) = 4
           /\ m.type \notin CodedTypes => Opening(m.type) = Magic /\ Len(Opening(m.type)) = 7
           /\ Whole(Fields(m)) \in Seq(Nat)
           /\ Encode(m) \in Seq(Nat) /\ Len(Encode(m)) \in Nat
           /\ Len(Encode(m)) = Len(Opening(m.type)) + Len(Whole(Fields(m)))
           /\ Within(Opening(m.type), 0, Encode(m))
<1> DEFINE h == Opening(m.type)
           w == Whole(Fields(m))
<1>1. ASSUME m.type \in CodedTypes PROVE h = Code(m.type) /\ Len(h) = 4
  <2>1. h = Code(m.type)
    BY <1>1 DEF Opening
  <2>2. Letter(m.type) \in Nat
    BY <1>1, LetterFacts
  <2>3. Code(m.type) \in Seq(Nat) /\ Len(Code(m.type)) = 4
    BY <2>2 DEF Code
  <2> QED BY <1>1, <2>1, <2>3
<1>2. ASSUME m.type \notin CodedTypes PROVE h = Magic /\ Len(h) = 7
  BY <1>2 DEF Opening, Magic
<1>3. h \in Seq(Nat)
  <2>1. Magic \in Seq(Nat)
    BY DEF Magic
  <2>2. m.type \in CodedTypes => Code(m.type) \in Seq(Nat)
    BY LetterFacts DEF Code
  <2> QED BY <2>1, <2>2 DEF Opening
<1>4. w \in Seq(Nat)
  <2> DEFINE parts == Fields(m)
             N == Len(m.fields)
  <2>1. m.fields \in Seq(Seq(Int)) /\ N = Len(Written(m.type)) /\ m.type \in Types
    BY DEF IsMessage
  <2>2. N \in Nat /\ Len(parts) = N /\ \A i \in 1..N : parts[i] = Put(Written(m.type)[i], m.fields[i])
    BY <2>1, LenProperties DEF Fields
  <2>3. ASSUME NEW i \in 1..N PROVE parts[i] \in Seq(Nat)
    <3> DEFINE k == Written(m.type)[i]
               v == m.fields[i]
    <3>1. k \in Kinds
      BY <2>1, Tables, ElementOfSeq
    <3>2. IsField(k, v)
      BY <2>1, LenProperties DEF IsMessage
    <3>3. parts[i] = Put(k, v)
      BY <2>2
    <3> HIDE DEF k, v
    <3>4. Put(k, v) \in Seq(Nat)
      BY <3>1, <3>2, PutFacts
    <3> QED BY <3>3, <3>4
  <2> HIDE DEF parts, N
  <2>4. Whole(parts) \in Seq(Nat)
    BY <2>2, <2>3, WholeIsSeq
  <2> QED BY <2>4 DEF parts
<1>5. Encode(m) = h \o w
  BY DEF Encode
<1> HIDE DEF h, w
<1>6. Encode(m) \in Seq(Nat)
  BY <1>3, <1>4, <1>5, ConcatParts
<1>7. Len(Encode(m)) = Len(h) + Len(w)
  BY <1>3, <1>4, <1>5, ConcatParts
<1>8. Within(h, 0, Encode(m))
  BY <1>3, <1>4, <1>5, ConcatParts
<1>9. Len(Encode(m)) \in Nat
  BY <1>6, LenProperties
<1> QED BY <1>1, <1>2, <1>3, <1>4, <1>6, <1>7, <1>8, <1>9 DEF h, w

\* The fields of a message are read, with the kinds they were written with.
LEMMA MessageRead ==
    ASSUME NEW m, IsMessage(m), Len(Encode(m)) <= MaxField
    PROVE  Message(m.type, Written(m.type), Len(Opening(m.type)), Encode(m)) = m
<1> DEFINE t == m.type
           kinds == Written(t)
           values == m.fields
           head == Opening(t)
           buf == Encode(m)
           parts == Fields(m)
<1>1. m = [type |-> t, fields |-> values]
  BY DEF IsMessage
<1>2. values \in Seq(Seq(Int)) /\ Len(values) = Len(kinds) /\ t \in Types
  BY DEF IsMessage
<1>3. \A i \in 1..Len(kinds) : IsField(kinds[i], values[i])
  BY <1>2, LenProperties DEF IsMessage
<1>4. kinds \in Seq(Kinds)
  BY <1>2, Tables
<1>5. head \in Seq(Nat)
  BY EncodeFacts
<1>6. buf = head \o Whole(parts)
  BY DEF Encode
<1>7. Len(parts) = Len(kinds) /\ \A i \in 1..Len(kinds) : parts[i] = Put(kinds[i], values[i])
  BY <1>2, LenProperties DEF Fields
<1>8. Len(buf) <= MaxField
  OBVIOUS
<1> HIDE DEF t, kinds, values, head, buf, parts
<1>9. Message(t, kinds, Len(head), buf) = m
  <2>1. values = [i \in 1..Len(kinds) |-> values[i]]
    BY <1>2, LenProperties
  <2>2. IsPut(m, kinds, head, parts, buf)
    BY <1>1, <1>3, <1>6, <1>7, <1>8, <2>1 DEF IsPut, t, values
  <2>3. IsRead(m, kinds, Len(head), buf)
    BY <1>4, <1>5, <2>2, FieldsRead
  <2> QED BY <2>3 DEF IsRead, t
<1> QED BY <1>9 DEF t, kinds, values, head, buf

\* A sequence that begins with another has it as a prefix, and one that begins with
\* something else has not.
LEMMA PrefixFacts ==
    ASSUME NEW s \in Seq(Nat), NEW p \in Seq(Nat)
    PROVE  /\ Within(s, 0, p) => IsPrefix(s, p)
           /\ IsPrefix(s, p) => Len(s) = 0 \/ p[1] = s[1]
<1>1. Len(s) \in Nat /\ Len(p) \in Nat
  BY LenProperties
<1>2. ASSUME Within(s, 0, p) PROVE IsPrefix(s, p)
  <2>1. SubSeq(p, 0 + 1, 0 + Len(s)) = s
    BY <1>2, PartRead
  <2>2. SubSeq(p, 1, Len(s)) = s
    BY <1>1, <2>1
  <2>3. SubSeq(s, 1, Len(s)) = s
    <3>1. Within(s, 0, s)
      BY <1>1 DEF Within
    <3>2. SubSeq(s, 0 + 1, 0 + Len(s)) = s
      BY <3>1, PartRead
    <3> QED BY <1>1, <3>2
  <2>4. Len(s) <= Len(p)
    BY <1>1, <1>2 DEF Within
  <2> QED BY <2>2, <2>3, <2>4 DEF IsPrefix
<1>3. ASSUME IsPrefix(s, p), Len(s) # 0 PROVE p[1] = s[1]
  <2>1. Len(s) <= Len(p) /\ SubSeq(s, 1, Len(s)) = SubSeq(p, 1, Len(s))
    BY <1>3 DEF IsPrefix
  <2> DEFINE n == Len(s)
  <2>2. n \in Int /\ n > 0 /\ n <= Len(p) /\ 1 \in Int
    BY <1>1, <1>3, <2>1
  <2>3. \A i \in 1..n : s[i] \in Nat /\ p[i] \in Nat
    BY <1>1, <2>2, ElementOfSeq
  <2>4. 1 \in 1..n - 1 + 1
    BY <2>2
  <2>5. \A i \in 1..n - 1 + 1 : SubSeq(s, 1, n)[i] = s[1 + i - 1]
    BY <2>2, <2>3, SubSeqProperties
  <2>6. \A i \in 1..n - 1 + 1 : SubSeq(p, 1, n)[i] = p[1 + i - 1]
    BY <2>2, <2>3, SubSeqProperties
  <2> HIDE DEF n
  <2>7. 1 + 1 - 1 = 1
    OBVIOUS
  <2> QED BY <2>1, <2>4, <2>5, <2>6, <2>7 DEF n
<1> QED BY <1>2, <1>3

\* How long the two greetings are.
LEMMA GreetingLengths ==
    ASSUME NEW m, IsMessage(m)
    PROVE  /\ m.type = "Hello" => Len(Encode(m)) = 11
           /\ m.type = "HelloBack" => Len(Encode(m)) >= 15
<1> DEFINE t == m.type
           kinds == Written(t)
           parts == Fields(m)
           N == Len(kinds)
<1>1. ASSUME t \in {"Hello", "HelloBack"}
      PROVE  /\ Len(Encode(m)) = 7 + Len(Joined(parts)[N])
             /\ Len(Joined(parts)[2]) = 4 /\ N = Len(parts) /\ N \in {2, 3}
             /\ (N = 2 <=> t = "Hello")
             /\ N = 3 => Len(Joined(parts)[3]) \in Nat /\ Len(Joined(parts)[3]) >= 8
  <2>1. kinds \in Seq(Kinds) /\ N \in {2, 3} /\ kinds[1] = "i16" /\ kinds[2] = "i16" /\ (N = 3 => kinds[3] = "string")
    <3>1. CASE t = "Hello"
      <4>1. kinds = <<"i16", "i16">>
        BY <3>1, Tables
      <4> QED BY <4>1 DEF Kinds
    <3>2. CASE t = "HelloBack"
      <4>1. kinds = <<"i16", "i16", "string">>
        BY <3>2, Tables
      <4> QED BY <4>1 DEF Kinds
    <3> QED BY <1>1, <3>1, <3>2
  <2>2. N = 2 <=> t = "Hello"
    BY <1>1, Tables
  <2>3. m.fields \in Seq(Seq(Int)) /\ Len(m.fields) = N /\ Len(parts) = N
    BY LenProperties DEF IsMessage, Fields
  <2>4. \A i \in 1..N : parts[i] = Put(kinds[i], m.fields[i]) /\ IsField(kinds[i], m.fields[i]) /\ kinds[i] \in Kinds
    BY <2>1, <2>3, ElementOfSeq DEF IsMessage, Fields
  <2> HIDE DEF t, kinds, parts, N
  <2>5. ASSUME NEW i \in 1..N
        PROVE  /\ parts[i] \in Seq(Nat) /\ Len(m.fields[i]) \in Nat
               /\ Len(parts[i]) = Skip(kinds[i]) + Len(m.fields[i]) * Width(kinds[i])
    <3> DEFINE k == kinds[i]
               v == m.fields[i]
    <3>1. k \in Kinds /\ IsField(k, v) /\ parts[i] = Put(k, v)
      BY <2>4
    <3> HIDE DEF k, v
    <3>2. Put(k, v) \in Seq(Nat) /\ Len(v) \in Nat /\ Len(Put(k, v)) = Skip(k) + Len(v) * Width(k)
      BY <3>1, PutFacts
    <3> QED BY <3>1, <3>2 DEF k, v
  <2>6. Len(parts[1]) = 2 /\ Len(parts[2]) = 2
    <3>1. 1 \in 1..N /\ 2 \in 1..N
      BY <2>1
    <3>2. Len(m.fields[1]) = 1 /\ Len(m.fields[2]) = 1
      BY <2>1, <2>4, <3>1 DEF IsField, Counted
    <3>3. Skip("i16") = 0 /\ Width("i16") = 2
      BY DEF Skip, Counted, Width
    <3>4. Len(parts[1]) = Skip(kinds[1]) + Len(m.fields[1]) * Width(kinds[1])
      BY <2>5, <3>1
    <3>5. Len(parts[2]) = Skip(kinds[2]) + Len(m.fields[2]) * Width(kinds[2])
      BY <2>5, <3>1
    <3> QED BY <2>1, <3>2, <3>3, <3>4, <3>5
  <2>7. N = 3 => Len(parts[3]) >= 4
    BY <2>1, <2>5 DEF Skip, Counted, Width
  <2>8. /\ Joined(parts)[0] = <<>>
        /\ \A n \in 1..N : /\ Len(Joined(parts)[n - 1]) \in Nat
                           /\ Len(Joined(parts)[n]) = Len(Joined(parts)[n - 1]) + Len(parts[n])
    <3>1. Len(parts) \in Nat /\ \A i \in 1..Len(parts) : parts[i] \in Seq(Nat)
      BY <2>1, <2>3, <2>5
    <3>2. Joined(parts)[0] = <<>>
      BY <3>1, JoinedStep
    <3>3. ASSUME NEW n \in 1..Len(parts)
          PROVE  /\ Len(Joined(parts)[n - 1]) \in Nat
                 /\ Len(Joined(parts)[n]) = Len(Joined(parts)[n - 1]) + Len(parts[n])
      BY <3>1, JoinedParts
    <3> QED BY <2>3, <3>2, <3>3
  <2>9. Len(Joined(parts)[2]) = 4 /\ (N = 3 => Len(Joined(parts)[3]) \in Nat /\ Len(Joined(parts)[3]) >= 8)
    <3>1. Len(Joined(parts)[0]) = 0
      BY <2>8
    <3>2. Len(Joined(parts)[1]) = 2
      <4>1. 1 \in 1..N
        BY <2>1
      <4>2. Len(Joined(parts)[1]) = Len(Joined(parts)[1 - 1]) + Len(parts[1])
        BY <2>8, <4>1
      <4>3. 1 - 1 = 0
        OBVIOUS
      <4> QED BY <2>6, <3>1, <4>2, <4>3
    <3>3. Len(Joined(parts)[2]) = 4
      <4>1. 2 \in 1..N
        BY <2>1
      <4>2. Len(Joined(parts)[2]) = Len(Joined(parts)[2 - 1]) + Len(parts[2])
        BY <2>8, <4>1
      <4>3. Len(Joined(parts)[2]) = Len(Joined(parts)[1]) + Len(parts[2])
        <5>1. 2 - 1 = 1
          OBVIOUS
        <5> QED BY <4>2, <5>1
      <4> QED BY <2>6, <3>2, <4>3
    <3>4. ASSUME N = 3 PROVE Len(Joined(parts)[3]) \in Nat /\ Len(Joined(parts)[3]) >= 8
      <4>1. 3 \in 1..N /\ 3 - 1 = 2
        BY <3>4
      <4>2. Len(Joined(parts)[3]) = Len(Joined(parts)[2]) + Len(parts[3])
        BY <2>8, <4>1
      <4>3. Len(parts[3]) \in Nat
        BY <2>5, <4>1, LenProperties
      <4> QED BY <2>7, <3>3, <3>4, <4>2, <4>3
    <3> QED BY <3>3, <3>4
  <2>10. Len(Encode(m)) = 7 + Len(Whole(parts))
    <3>1. t \notin CodedTypes
      BY <1>1, Tables
    <3> QED BY <3>1, EncodeFacts DEF t, parts
  <2> QED BY <2>1, <2>2, <2>3, <2>9, <2>10 DEF Whole
<1>2. ASSUME t = "Hello" PROVE Len(Encode(m)) = 11
  <2>1. N = 2
    BY <1>1, <1>2
  <2>2. Len(Encode(m)) = 7 + Len(Joined(parts)[N]) /\ Len(Joined(parts)[2]) = 4
    BY <1>1, <1>2
  <2> HIDE DEF N, parts
  <2> QED BY <2>1, <2>2
<1>3. ASSUME t = "HelloBack" PROVE Len(Encode(m)) >= 15
  <2>1. N = 3
    BY <1>1, <1>3
  <2>2. Len(Encode(m)) = 7 + Len(Joined(parts)[N]) /\ Len(Joined(parts)[3]) \in Nat /\ Len(Joined(parts)[3]) >= 8
    <3>1. /\ Len(Encode(m)) = 7 + Len(Joined(parts)[N])
          /\ N = 3 => Len(Joined(parts)[3]) \in Nat /\ Len(Joined(parts)[3]) >= 8
      BY <1>1, <1>3
    <3> QED BY <2>1, <3>1
  <2> HIDE DEF N, parts
  <2> QED BY <2>1, <2>2
<1> QED BY <1>2, <1>3

\* What is decoded of a message's encoding, if it is short enough, is the message.
THEOREM DecodeEncode ==
    ASSUME NEW m, IsMessage(m), Len(Encode(m)) <= MaxField
    PROVE  Decode(Encode(m)) = m
<1> DEFINE t == m.type
           p == Encode(m)
           h == Opening(t)
<1>1. /\ h \in Seq(Nat) /\ p \in Seq(Nat) /\ Within(h, 0, p)
      /\ t \in CodedTypes => h = Code(t) /\ Len(h) = 4
      /\ t \notin CodedTypes => h = Magic /\ Len(h) = 7
  BY EncodeFacts
<1>2. Message(t, Written(t), Len(h), p) = m
  BY MessageRead
<1>3. t \in Types
  BY DEF IsMessage
<1>4. IsPrefix(h, p) /\ p[1] = h[1]
  <2>1. Len(h) # 0
    <3> DEFINE n == Len(h)
    <3>1. n = 4 \/ n = 7
      BY <1>1
    <3> HIDE DEF n
    <3>2. n # 0
      BY <3>1
    <3> QED BY <3>2 DEF n
  <2> HIDE DEF h, p, t
  <2>2. IsPrefix(h, p)
    BY <1>1, PrefixFacts
  <2> QED BY <1>1, <2>1, <2>2, PrefixFacts
<1>5. CASE t \in CodedTypes
  <2>1. h[1] = Letter(t)
    BY <1>1, <1>5 DEF Code
  <2>2. ~ IsPrefix(Magic, p)
    <3>1. Magic \in Seq(Nat) /\ Len(Magic) = 7 /\ Magic[1] = 256
      BY DEF Magic
    <3> HIDE DEF p
    <3>2. IsPrefix(Magic, p) => Len(Magic) = 0 \/ p[1] = Magic[1]
      BY <1>1, <3>1, PrefixFacts
    <3> QED BY <1>4, <1>5, <2>1, <3>1, <3>2, LetterFacts
  <2> DEFINE begun == {u \in CodedTypes : IsPrefix(Code(u), p)}
             read == {Message(u, Parsed(u), 4, p) : u \in begun}
  <2>3. begun = {t}
    <3>1. t \in begun
      BY <1>1, <1>4, <1>5
    <3>2. ASSUME NEW u \in begun PROVE u = t
      <4>1. u \in CodedTypes /\ IsPrefix(Code(u), p)
        OBVIOUS
      <4>2. Code(u) \in Seq(Nat) /\ Len(Code(u)) = 4 /\ Code(u)[1] = Letter(u)
        BY <4>1, LetterFacts DEF Code
      <4> HIDE DEF p
      <4> DEFINE c == Code(u)
      <4>4. c \in Seq(Nat) /\ IsPrefix(c, p) /\ Len(c) # 0
        BY <4>1, <4>2
      <4> HIDE DEF c
      <4>5. p[1] = c[1]
        BY <1>1, <4>4, PrefixFacts
      <4>3. p[1] = Code(u)[1]
        BY <4>5 DEF c
      <4> QED BY <1>4, <1>5, <2>1, <4>1, <4>2, <4>3, LetterFacts
    <3> HIDE DEF begun
    <3> QED BY <3>1, <3>2
  <2>4. Message(t, Parsed(t), 4, p) = m
    BY <1>1, <1>2, <1>5, Tables
  <2> HIDE DEF begun, t, p
  <2>5. read = {m}
    BY <2>3, <2>4
  <2>6. Decode(p) = IF read = {} THEN Malformed ELSE CHOOSE x \in read : TRUE
    BY <2>2 DEF Decode, begun
  <2> HIDE DEF read
  <2>7. Decode(p) = m
    BY <2>5, <2>6
  <2> QED BY <2>7 DEF p
<1>6. CASE t \notin CodedTypes
  <2>1. t \in {"Hello", "HelloBack"}
    BY <1>3, <1>6 DEF Types
  <2>2. IsPrefix(Magic, p) /\ Len(h) = 7
    BY <1>1, <1>4, <1>6
  <2>3. CASE t = "Hello"
    <3>1. Len(p) = 11
      BY <2>3, GreetingLengths
    <3>2. Decode(p) = Message("Hello", <<"i16", "i16">>, 7, p)
      BY <2>2, <3>1 DEF Decode
    <3> QED BY <1>2, <2>2, <2>3, <3>2, Tables
  <2>4. CASE t = "HelloBack"
    <3>1. ~ (Len(p) <= 11)
      <4>1. Len(p) >= 15
        BY <2>4, GreetingLengths
      <4>2. Len(p) \in Nat
        BY <1>1, LenProperties
      <4> QED BY <4>1, <4>2
    <3>2. Decode(p) = Message("HelloBack", <<"i16", "i16", "string">>, 7, p)
      BY <2>2, <3>1 DEF Decode
    <3> QED BY <1>2, <2>2, <2>4, <3>2, Tables
  <2> QED BY <2>1, <2>3, <2>4
<1> QED BY <1>5, <1>6

-----------------------------------------------------------------------------
(* The stream and its reader (Framing).                                    *)

\* The frame of a message: the four bytes of its length, then its bytes.
FrameIs(m) ==
    LET len == Len(Encode(m))
    IN  /\ IsMessage(m) /\ Fits("u32", len)
        /\ Encode(m) \in Seq(Nat) /\ len \in Nat
        /\ Bytes(4, len) \in Seq(Nat) /\ Len(Bytes(4, len)) = 4
        /\ Frame(m) \in Seq(Nat) /\ Len(Frame(m)) = 4 + len
        /\ Within(Bytes(4, len), 0, Frame(m)) /\ Within(Encode(m), 4, Frame(m))

LEMMA FrameFacts ==
    ASSUME NEW ms \in Sendable
    PROVE  /\ Len(ms) \in Nat /\ ms \in Seq(ToSet(ms))
           /\ Len(Frames(ms)) = Len(ms)
           /\ \A i \in 1..Len(ms) : Frames(ms)[i] = Frame(ms[i]) /\ FrameIs(ms[i])
<1>1. /\ ms \in Seq(ToSet(ms))
      /\ \A i \in DOMAIN ms : IsMessage(ms[i]) /\ Fits("u32", Len(Encode(ms[i])))
  BY FramingAssumption
<1>2. Len(ms) \in Nat /\ DOMAIN ms = 1..Len(ms)
  BY <1>1, LenProperties
<1>3. Len(Frames(ms)) = Len(ms) /\ \A i \in 1..Len(ms) : Frames(ms)[i] = Frame(ms[i])
  BY <1>2 DEF Frames
<1>4. ASSUME NEW i \in 1..Len(ms) PROVE FrameIs(ms[i])
  <2> DEFINE m == ms[i]
             p == Encode(m)
             c == Bytes(4, Len(p))
             f == Frame(m)
  <2>1. IsMessage(m) /\ Fits("u32", Len(p))
    BY <1>1, <1>2
  <2>2. p \in Seq(Nat) /\ Len(p) \in Nat
    BY <2>1, EncodeFacts
  <2>3. c \in Seq(Nat) /\ Len(c) = 4
    <3>1. \A x \in Int, y \in Nat : Bytes(y, x) \in Seq(Nat) /\ Len(Bytes(y, x)) = y
      BY BytesFacts
    <3>2. Len(p) \in Int /\ 4 \in Nat
      BY <2>2
    <3> QED BY <3>1, <3>2
  <2>4. f = c \o p
    BY DEF Frame
  <2> HIDE DEF m, p, c, f
  <2>9. p \in Seq(Nat)
    BY <2>2
  <2>10. c \in Seq(Nat)
    BY <2>3
  <2>5. f \in Seq(Nat)
    BY <2>4, <2>9, <2>10, ConcatParts
  <2>6. Len(f) = Len(c) + Len(p)
    BY <2>4, <2>9, <2>10, ConcatParts
  <2>7. Within(c, 0, f)
    BY <2>4, <2>9, <2>10, ConcatParts
  <2>8. Within(p, Len(c), f)
    BY <2>4, <2>9, <2>10, ConcatParts
  <2> QED BY <2>1, <2>2, <2>3, <2>5, <2>6, <2>7, <2>8 DEF FrameIs, m, p, c, f
<1> QED BY <1>1, <1>2, <1>3, <1>4

\* Where the k-th frame of ms ends.
Upto(ms, k) == Len(Joined(Frames(ms))[k])

\* The frame after the k-th, where it is in the stream s of ms.
NextIs(ms, s, k) ==
    LET m == ms[k + 1]
        e == Upto(ms, k)
        len == Len(Encode(m))
    IN  /\ IsMessage(m) /\ len \in Nat /\ e \in Nat
        /\ Upto(ms, k + 1) = e + 4 + len
        /\ Upto(ms, k + 1) <= Len(s)
        /\ Unsigned(SubSeq(s, e + 1, e + 4)) = len
        /\ SubSeq(s, e + 4 + 1, e + 4 + len) = Encode(m)

LEMMA StreamFacts ==
    ASSUME NEW ms \in Sendable, NEW s, s = Whole(Frames(ms))
    PROVE  /\ s \in Seq(Nat) /\ Len(s) \in Nat
           /\ Upto(ms, 0) = 0 /\ Upto(ms, Len(ms)) = Len(s)
           /\ \A k \in 0..Len(ms) : Upto(ms, k) \in Nat
           /\ \A k \in 0..(Len(ms) - 1) : NextIs(ms, s, k)
<1> DEFINE N == Len(ms)
           parts == Frames(ms)
           joined == Joined(parts)
<1>1. /\ N \in Nat /\ Len(parts) = N
      /\ \A i \in 1..N : parts[i] = Frame(ms[i]) /\ FrameIs(ms[i])
  BY FrameFacts
<1> HIDE DEF N, parts
<1>2. \A i \in 1..N : parts[i] \in Seq(Nat)
  BY <1>1 DEF FrameIs
<1>3. s \in Seq(Nat) /\ Len(s) \in Nat
  <2>1. Whole(parts) \in Seq(Nat) /\ Len(Whole(parts)) \in Nat
    BY <1>1, <1>2, WholeIsSeq
  <2> QED BY <2>1 DEF parts
<1>4. joined[0] = <<>> /\ \A k \in 0..N : joined[k] \in Seq(Nat)
  BY <1>1, <1>2, JoinedStep
<1>5. \A k \in 0..N : Upto(ms, k) \in Nat
  BY <1>4, LenProperties DEF Upto, parts
<1>6. Upto(ms, 0) = 0 /\ Upto(ms, N) = Len(s)
  <2>1. Upto(ms, 0) = 0
    BY <1>4 DEF Upto, parts
  <2> QED BY <1>1, <2>1 DEF Upto, Whole, parts
<1>7. ASSUME NEW k \in 0..(N - 1) PROVE NextIs(ms, s, k)
  <2>1. k + 1 \in 1..N /\ (k + 1) - 1 = k /\ k \in 0..N /\ k + 1 \in 0..N
    BY <1>1
  <2> DEFINE i == k + 1
             m == ms[i]
             p == Encode(m)
             len == Len(p)
             c == Bytes(4, len)
             f == Frame(m)
             e == Upto(ms, k)
  <2>2. e \in Nat
    BY <1>5, <2>1
  <2>3. /\ IsMessage(m) /\ Fits("u32", len) /\ p \in Seq(Nat) /\ len \in Nat
        /\ c \in Seq(Nat) /\ Len(c) = 4 /\ f \in Seq(Nat) /\ Len(f) = 4 + len
        /\ Within(c, 0, f) /\ Within(p, 4, f)
    BY <1>1, <2>1 DEF FrameIs
  <2>4. parts[i] = f
    BY <1>1, <2>1
  <2>5. /\ Len(joined[i]) = Len(joined[i - 1]) + Len(parts[i])
        /\ Within(joined[i], 0, Whole(parts))
        /\ Within(parts[i], Len(joined[i - 1]), Whole(parts))
    <3>1. Len(parts) \in Nat /\ i \in 1..Len(parts) /\ \A j \in 1..Len(parts) : parts[j] \in Seq(Nat)
      BY <1>1, <1>2, <2>1
    <3> HIDE DEF i
    <3>2. Len(joined[i]) = Len(joined[i - 1]) + Len(parts[i])
      BY <3>1, JoinedParts
    <3>3. Within(joined[i], 0, Whole(parts))
      BY <3>1, JoinedParts
    <3>4. Within(parts[i], Len(joined[i - 1]), Whole(parts))
      BY <3>1, JoinedParts
    <3> QED BY <3>2, <3>3, <3>4
  <2>6. Upto(ms, i) = e + (4 + len) /\ Within(joined[i], 0, s) /\ Within(f, e, s)
    BY <2>1, <2>3, <2>4, <2>5 DEF Upto, parts
  <2>7. Upto(ms, i) <= Len(s)
    <3>1. Len(joined[i]) \in Nat
      BY <1>5, <2>1 DEF Upto, parts
    <3>2. 0 + Len(joined[i]) <= Len(s)
      BY <2>6 DEF Within
    <3> QED BY <3>1, <3>2 DEF Upto, parts
  <2> HIDE DEF i, m, p, len, c, f, e
  <2>8. Len(f) \in Nat
    BY <2>3
  <2>9. Within(c, e + 0, s)
    <3>1. Len(c) \in Nat
      BY <2>3
    <3>2. Within(c, 0, f)
      BY <2>3
    <3>3. Within(f, e, s)
      BY <2>6
    <3>4. Len(s) \in Nat
      BY <1>3
    <3> QED BY <2>2, <2>8, <3>1, <3>2, <3>3, <3>4, WithinPart
  <2>10. Within(p, e + 4, s)
    <3>1. Len(p) \in Nat
      BY <2>3, LenProperties
    <3> QED BY <1>3, <2>2, <2>3, <2>6, <2>8, <3>1, WithinPart
  <2>11. Unsigned(SubSeq(s, e + 1, e + 4)) = len
    <3>1. Width("u32") = 4 /\ "u32" \in Kinds
      BY DEF Width, Kinds
    <3>2. Within(Bytes(Width("u32"), len), e, s)
      <4>1. e + 0 = e
        BY <2>2
      <4> QED BY <2>9, <3>1, <4>1 DEF c
    <3>3. Value("u32", SubSeq(s, e + 1, e + Width("u32"))) = len
      BY <1>3, <2>2, <2>3, <3>1, <3>2, NumberAt
    <3>4. \A b : Value("u32", b) = Unsigned(b)
      BY DEF Value
    <3> QED BY <3>1, <3>3, <3>4
  <2>12. SubSeq(s, e + 4 + 1, e + 4 + len) = p
    <3> DEFINE pos == e + 4
    <3>1. pos \in Nat /\ Within(p, pos, s)
      BY <2>2, <2>10
    <3> HIDE DEF pos
    <3>2. SubSeq(s, pos + 1, pos + Len(p)) = p
      BY <1>3, <2>3, <3>1, PartRead
    <3> QED BY <3>2 DEF pos, len
  <2>13. e + (4 + len) = e + 4 + len
    BY <2>2, <2>3
  <2> QED BY <2>2, <2>3, <2>6, <2>7, <2>11, <2>12, <2>13 DEF NextIs, i, m, p, len, e
<1> QED BY <1>3, <1>5, <1>6, <1>7 DEF N

\* Later frames end later.
LEMMA UptoMonotone ==
    ASSUME NEW ms \in Sendable, NEW n \in 0..Len(ms)
    PROVE  \A k \in n..Len(ms) : Upto(ms, n) <= Upto(ms, k)
<1> DEFINE N == Len(ms)
           U == [k \in 0..N |-> Upto(ms, k)]
           X == [k \in 0..N |-> {x \in Nat : n <= k => U[n] <= x}]
<1>1. N \in Nat /\ n \in 0..N
  BY FrameFacts
<1>2. /\ \A k \in 0..N : Upto(ms, k) \in Nat
      /\ \A k \in 0..(N - 1) : NextIs(ms, Whole(Frames(ms)), k)
  BY StreamFacts
<1> HIDE DEF N
<1>3. \A k \in 0..N : U[k] = Upto(ms, k) /\ U[k] \in Nat
  BY <1>2
<1>4. \A k \in 1..N : U[k - 1] <= U[k]
  <2> SUFFICES ASSUME NEW k \in 1..N PROVE U[k - 1] <= U[k]
    OBVIOUS
  <2>1. k - 1 \in 0..(N - 1) /\ (k - 1) + 1 = k /\ k \in 0..N /\ k - 1 \in 0..N
    BY <1>1
  <2> DEFINE j == k - 1
             len == Len(Encode(ms[j + 1]))
  <2>2. NextIs(ms, Whole(Frames(ms)), j)
    BY <1>2, <2>1
  <2> HIDE DEF j
  <2>3. len \in Nat /\ Upto(ms, j + 1) = Upto(ms, j) + 4 + len
    BY <2>2 DEF NextIs
  <2> HIDE DEF U, len
  <2>4. U[j + 1] = U[j] + 4 + len /\ U[j] \in Nat
    BY <1>3, <2>1, <2>3 DEF j
  <2>5. U[j] <= U[j + 1]
    BY <2>3, <2>4
  <2> QED BY <2>1, <2>5 DEF j
<1> HIDE DEF U
<1>5. U[0] \in X[0]
  <2>1. 0 \in 0..N /\ U[0] \in Nat
    BY <1>1, <1>3
  <2>2. n <= 0 => n = 0
    BY <1>1
  <2> QED BY <2>1, <2>2
<1>6. \A k \in 1..N : U[k - 1] \in X[k - 1] => U[k] \in X[k]
  <2> SUFFICES ASSUME NEW k \in 1..N, U[k - 1] \in X[k - 1] PROVE U[k] \in X[k]
    OBVIOUS
  <2>1. k \in 0..N /\ k - 1 \in 0..N
    BY <1>1
  <2>2. U[k] \in Nat /\ U[k - 1] \in Nat /\ U[n] \in Nat /\ U[k - 1] <= U[k]
    BY <1>1, <1>3, <1>4, <2>1
  <2>3. n <= k - 1 => U[n] <= U[k - 1]
    BY <2>1
  <2>4. n <= k => n = k \/ n <= k - 1
    BY <1>1
  <2>5. n <= k => U[n] <= U[k]
    BY <2>2, <2>3, <2>4
  <2> QED BY <2>1, <2>2, <2>5
<1>7. \A k \in 0..N : U[k] \in X[k]
  <2> HIDE DEF X
  <2> QED BY <1>1, <1>5, <1>6, StaysIn
<1>8. ASSUME NEW k \in n..N PROVE Upto(ms, n) <= Upto(ms, k)
  <2>1. k \in 0..N /\ n <= k
    BY <1>1
  <2>2. U[n] <= U[k]
    BY <1>7, <2>1
  <2> QED BY <1>1, <1>3, <2>1, <2>2
<1> QED BY <1>8 DEF N

\* The reader has taken the frames of what it has returned, and of the next one nothing,
\* or the header.  It gives up for a message that is too long, and for want of bytes.
FramingIInv ==
    LET n == Len(received)
        next == Len(Encode(msgs[n + 1]))
    IN  /\ msgs \in Sendable
        /\ stream = Whole(Frames(msgs))
        /\ arrived \in Nat /\ taken \in Nat /\ taken <= arrived /\ arrived <= Len(stream)
        /\ ended \in {"no", "Closed", "FrameTooLarge"}
        /\ n \in 0..Len(msgs) /\ received = SubSeq(msgs, 1, n)
        /\ need = Header /\ ended # "FrameTooLarge" => taken = Upto(msgs, n)
        /\ need # Header => /\ n < Len(msgs) /\ need = next /\ need <= MaxFrame
                            /\ taken = Upto(msgs, n) + 4 /\ ended # "FrameTooLarge"
        /\ ended = "FrameTooLarge" => n < Len(msgs) /\ next > MaxFrame
        /\ ended = "Closed" => broken /\ arrived - taken < Wanted

\* What is known of the messages and of their stream.
LEMMA StreamKnown ==
    ASSUME FramingIInv
    PROVE  /\ Len(msgs) \in Nat /\ msgs \in Seq(ToSet(msgs))
           /\ Len(stream) \in Nat
           /\ Len(received) \in 0..Len(msgs)
           /\ Upto(msgs, Len(received)) \in Nat
           /\ Upto(msgs, Len(msgs)) = Len(stream)
           /\ Len(received) < Len(msgs) => NextIs(msgs, stream, Len(received))
<1>1. msgs \in Sendable /\ stream = Whole(Frames(msgs)) /\ Len(received) \in 0..Len(msgs)
  BY DEF FramingIInv
<1>2. Len(msgs) \in Nat /\ msgs \in Seq(ToSet(msgs))
  BY <1>1, FrameFacts
<1>3. /\ Len(stream) \in Nat /\ Upto(msgs, Len(msgs)) = Len(stream)
      /\ \A k \in 0..Len(msgs) : Upto(msgs, k) \in Nat
      /\ \A k \in 0..(Len(msgs) - 1) : NextIs(msgs, stream, k)
  BY <1>1, StreamFacts
<1> DEFINE n == Len(received)
<1>4. n < Len(msgs) => n \in 0..(Len(msgs) - 1)
  BY <1>1, <1>2
<1> QED BY <1>1, <1>2, <1>3, <1>4

\* The messages received and the next one.
LEMMA NextReceived ==
    ASSUME NEW S, NEW ms \in Seq(S), NEW n \in 0..Len(ms), n < Len(ms)
    PROVE  /\ Append(SubSeq(ms, 1, n), ms[n + 1]) = SubSeq(ms, 1, n + 1)
           /\ Len(SubSeq(ms, 1, n + 1)) = n + 1
           /\ SubSeq(ms, n + 1, Len(ms)) # <<>>
           /\ Head(SubSeq(ms, n + 1, Len(ms))) = ms[n + 1]
           /\ Tail(SubSeq(ms, n + 1, Len(ms))) = SubSeq(ms, n + 1 + 1, Len(ms))
<1>1. Len(ms) \in Nat /\ n + 1 \in 1..Len(ms) /\ \A i \in 1..Len(ms) : ms[i] \in S
  BY LenProperties, ElementOfSeq
<1> DEFINE j == n + 1
<1>2. j \in 1..Len(ms) /\ Len(ms) \in j..Len(ms) /\ j \in 1..j /\ 1 \in 1..Len(ms) /\ j \in 1..Len(ms) /\ j - 1 = n /\ j \in Int
  BY <1>1
<1>3. SubSeq(ms, 1, n) \in Seq(S) /\ ms[j] \in S
  <2>1. \A i \in 1..n : ms[i] \in S
    BY <1>1
  <2>2. n \in Int /\ 1 \in Int
    OBVIOUS
  <2> QED BY <1>1, <2>1, <2>2, SubSeqProperties
<1> HIDE DEF j
<1>4. Head(SubSeq(ms, j, Len(ms))) = ms[j] /\ Tail(SubSeq(ms, j, Len(ms))) = SubSeq(ms, j + 1, Len(ms))
  BY <1>2, HeadTailOfSubSeq
<1>5. SubSeq(ms, 1, j) = SubSeq(ms, 1, j - 1) \o <<ms[j]>>
  <2>1. j \in 1..Len(ms) /\ 1 \in 1..Len(ms)
    BY <1>2
  <2> QED BY <2>1, SubSeqRecursiveSecond
<1>6. Append(SubSeq(ms, 1, n), ms[j]) = SubSeq(ms, 1, n) \o <<ms[j]>>
  BY <1>3, AppendIsConcat
<1>7. Len(SubSeq(ms, 1, j)) = j
  <2>1. \A i \in 1..j : ms[i] \in S
    BY <1>1, <1>2
  <2>2. Len(SubSeq(ms, 1, j)) = IF 1 <= j THEN j - 1 + 1 ELSE 0
    BY <1>2, <2>1, SubSeqProperties
  <2> QED BY <1>2, <2>2
<1>8. SubSeq(ms, j, Len(ms)) # <<>>
  <2>1. \A i \in j..Len(ms) : ms[i] \in S
    BY <1>1, <1>2
  <2>2. Len(ms) \in Int
    BY <1>1
  <2>3. Len(SubSeq(ms, j, Len(ms))) = IF j <= Len(ms) THEN Len(ms) - j + 1 ELSE 0
    BY <1>2, <2>1, <2>2, SubSeqProperties
  <2>4. Len(SubSeq(ms, j, Len(ms))) # 0
    BY <1>1, <1>2, <2>3
  <2>5. Len(<<>>) = 0
    OBVIOUS
  <2> QED BY <2>4, <2>5
<1>9. Append(SubSeq(ms, 1, n), ms[j]) = SubSeq(ms, 1, j)
  <2>1. j - 1 = n
    BY <1>2
  <2> QED BY <1>5, <1>6, <2>1
<1> QED BY <1>4, <1>7, <1>8, <1>9 DEF j

LEMMA FramingInitIInv == FramingInit => FramingIInv
<1> SUFFICES ASSUME FramingInit PROVE FramingIInv
  OBVIOUS
<1>1. msgs \in Sendable /\ stream = Whole(Frames(msgs))
  BY DEF FramingInit
<1>2. Len(stream) \in Nat /\ Upto(msgs, 0) = 0
  BY <1>1, StreamFacts
<1>3. Len(msgs) \in Nat /\ msgs \in Seq(ToSet(msgs))
  BY <1>1, FrameFacts
<1>4. Len(received) = 0 /\ received = SubSeq(msgs, 1, 0)
  <2>1. received = <<>>
    BY DEF FramingInit
  <2>2. SubSeq(msgs, 1, 0) = <<>>
    BY SubSeqEmpty
  <2> QED BY <2>1, <2>2
<1>5. arrived = 0 /\ taken = 0 /\ need = Header /\ ended = "no"
  BY DEF FramingInit
<1> QED BY <1>1, <1>2, <1>3, <1>4, <1>5 DEF FramingIInv

\* A step of the reader: from what it has taken on, it reads what was written there.
LEMMA ReadHeaderReads ==
    ASSUME FramingIInv, ReadHeader
    PROVE  LET n == Len(received)
               next == Len(Encode(msgs[n + 1]))
           IN  /\ n < Len(msgs) /\ next \in Nat
               /\ taken = Upto(msgs, n) /\ taken' = taken + 4 /\ taken' <= arrived
               /\ IF next > MaxFrame THEN ended' = "FrameTooLarge" /\ need' = need
                                     ELSE need' = next /\ ended' = ended
<1> DEFINE n == Len(received)
           next == Len(Encode(msgs[n + 1]))
<1>1. need = Header /\ ended = "no" /\ arrived - taken >= 4 /\ Wanted = 4 /\ taken' = taken + 4
  BY DEF ReadHeader, Ready, Wanted
<1>2. /\ Len(msgs) \in Nat /\ Len(stream) \in Nat /\ n \in 0..Len(msgs)
      /\ Upto(msgs, n) \in Nat /\ Upto(msgs, Len(msgs)) = Len(stream)
      /\ n < Len(msgs) => NextIs(msgs, stream, n)
  BY StreamKnown
<1>3. taken = Upto(msgs, n) /\ taken \in Nat /\ arrived \in Nat /\ arrived <= Len(stream)
  BY <1>1 DEF FramingIInv
<1>4. n < Len(msgs)
  <2>1. taken < Len(stream)
    BY <1>1, <1>2, <1>3
  <2>2. n # Len(msgs)
    BY <1>2, <1>3, <2>1
  <2> QED BY <1>2, <2>2
<1>5. Unsigned(SubSeq(stream, taken + 1, taken + 4)) = next /\ next \in Nat
  BY <1>2, <1>3, <1>4 DEF NextIs
<1>6. Unsigned(Piece) = next
  BY <1>1, <1>5 DEF Piece
<1>7. IF next > MaxFrame THEN ended' = "FrameTooLarge" /\ need' = need
                         ELSE need' = next /\ ended' = ended
  BY <1>6 DEF ReadHeader
<1>8. taken' <= arrived
  BY <1>1, <1>3
<1> QED BY <1>1, <1>3, <1>4, <1>5, <1>7, <1>8

LEMMA ReadPayloadReads ==
    ASSUME FramingIInv, ReadPayload
    PROVE  LET n == Len(received)
           IN  /\ n < Len(msgs)
               /\ taken' = Upto(msgs, n + 1) /\ taken' \in Nat /\ taken' <= arrived
               /\ need' = Header /\ ended = "no" /\ ended' = "no"
               /\ received' = Append(received, msgs[n + 1])
<1> DEFINE n == Len(received)
           m == msgs[n + 1]
           next == Len(Encode(m))
<1>1. need # Header /\ ended = "no" /\ arrived - taken >= need /\ Wanted = need
  BY DEF ReadPayload, Ready, Wanted
<1>2. /\ n < Len(msgs) /\ need = next /\ next <= MaxFrame /\ taken = Upto(msgs, n) + 4
      /\ taken \in Nat /\ arrived \in Nat
  BY <1>1 DEF FramingIInv
<1>3. NextIs(msgs, stream, n)
  BY <1>2, StreamKnown
<1>4. /\ IsMessage(m) /\ next \in Nat /\ Upto(msgs, n) \in Nat
      /\ Upto(msgs, n + 1) = Upto(msgs, n) + 4 + next
      /\ SubSeq(stream, Upto(msgs, n) + 4 + 1, Upto(msgs, n) + 4 + next) = Encode(m)
  BY <1>3 DEF NextIs
<1>5. Piece = Encode(m)
  BY <1>1, <1>2, <1>4 DEF Piece
<1>6. Decode(Piece) = m /\ m # Malformed
  <2>1. Len(Encode(m)) <= MaxField
    BY <1>2, <1>4, WireAssumption, FramingAssumption
  <2>2. m.type \in Types /\ Malformed.type \notin Types
    BY <1>4, Tables DEF IsMessage, Malformed
  <2>3. Decode(Encode(m)) = m
    BY <1>4, <2>1, DecodeEncode
  <2> QED BY <1>5, <2>2, <2>3
<1>7. taken' = Upto(msgs, n + 1) /\ taken' \in Nat /\ taken' <= arrived
  <2>1. taken' = taken + need
    BY DEF ReadPayload
  <2>2. taken' = Upto(msgs, n + 1)
    BY <1>2, <1>4, <2>1
  <2>3. taken' \in Nat /\ taken' <= arrived
    <3>1. need \in Nat
      BY <1>2, <1>4
    <3> QED BY <1>1, <1>2, <2>1, <3>1
  <2> QED BY <2>2, <2>3
<1>8. need' = Header /\ received' = Append(received, m) /\ ended' = "no"
  BY <1>1, <1>6 DEF ReadPayload
<1> QED BY <1>1, <1>2, <1>7, <1>8

LEMMA FramingNextIInv == FramingIInv /\ [FramingNext]_framingVars => FramingIInv'
<1> SUFFICES ASSUME FramingIInv, [FramingNext]_framingVars PROVE FramingIInv'
  OBVIOUS
<1> USE DEF Header
<1>1. /\ Len(msgs) \in Nat /\ msgs \in Seq(ToSet(msgs)) /\ Len(stream) \in Nat
      /\ Len(received) \in 0..Len(msgs) /\ Upto(msgs, Len(received)) \in Nat
      /\ Len(received) < Len(msgs) => NextIs(msgs, stream, Len(received))
  BY StreamKnown
<1>2. CASE Arrive
  <2>1. /\ ~ broken /\ arrived < Len(stream) /\ arrived' = arrived + 1
        /\ UNCHANGED <<msgs, stream, broken, taken, need, received, ended>>
    BY <1>2 DEF Arrive
  <2>2. /\ arrived \in Nat /\ taken \in Nat /\ taken <= arrived /\ ended # "Closed"
    BY <2>1 DEF FramingIInv
  <2>3. arrived' \in Nat /\ taken <= arrived' /\ arrived' <= Len(stream)
    BY <1>1, <2>1, <2>2
  <2> QED BY <2>1, <2>2, <2>3 DEF FramingIInv
<1>3. CASE Break
  BY <1>1, <1>3 DEF Break, FramingIInv, Wanted
<1>4. CASE ReadHeader
  <2> DEFINE n == Len(received)
             next == Len(Encode(msgs[n + 1]))
  <2>1. /\ n < Len(msgs) /\ next \in Nat
        /\ taken = Upto(msgs, n) /\ taken' = taken + 4 /\ taken' <= arrived
        /\ IF next > MaxFrame THEN ended' = "FrameTooLarge" /\ need' = need
                              ELSE need' = next /\ ended' = ended
    BY <1>4, ReadHeaderReads
  <2>2. UNCHANGED <<msgs, stream, arrived, broken, received>> /\ need = Header /\ ended = "no"
    BY <1>4 DEF ReadHeader, Ready
  <2>3. MaxFrame \in Nat
    BY FramingAssumption
  <2> QED BY <1>1, <2>1, <2>2, <2>3 DEF FramingIInv, Wanted
<1>5. CASE ReadPayload
  <2> DEFINE n == Len(received)
  <2>1. /\ n < Len(msgs)
        /\ taken' = Upto(msgs, n + 1) /\ taken' \in Nat /\ taken' <= arrived
        /\ need' = Header /\ ended = "no" /\ ended' = "no"
        /\ received' = Append(received, msgs[n + 1])
    BY <1>5, ReadPayloadReads
  <2>2. UNCHANGED <<msgs, stream, arrived, broken>>
    BY <1>5 DEF ReadPayload
  <2>3. received = SubSeq(msgs, 1, n)
    BY DEF FramingIInv
  <2>4. received' = SubSeq(msgs, 1, n + 1) /\ Len(received') = n + 1
    BY <1>1, <2>1, <2>3, NextReceived
  <2>5. n + 1 \in 0..Len(msgs)
    BY <1>1, <2>1
  <2> QED BY <2>1, <2>2, <2>4, <2>5 DEF FramingIInv
<1>6. CASE ReadEof
  <2>1. need = Header \/ need # Header
    OBVIOUS
  <2> QED BY <1>1, <1>6 DEF ReadEof, FramingIInv, Wanted
<1>7. CASE UNCHANGED framingVars
  BY <1>7 DEF framingVars, FramingIInv, Wanted
<1> QED BY <1>2, <1>3, <1>4, <1>5, <1>6, <1>7 DEF FramingNext, Read

THEOREM FramingInvariance == FramingSpec => []FramingIInv
<1> QED BY FramingInitIInv, FramingNextIInv, PTL DEF FramingSpec

\* Nothing that had arrived whole is lost when the connection ends, and no message the
\* one end writes is misread by the other.
THEOREM FramingEndsForReason == FramingSpec => []EndsForReason
<1>1. ASSUME FramingIInv PROVE EndsForReason
  <2> DEFINE n == Len(received)
             next == Len(Encode(msgs[n + 1]))
  <2>1. /\ Len(msgs) \in Nat /\ n \in 0..Len(msgs) /\ Upto(msgs, n) \in Nat
        /\ n < Len(msgs) => NextIs(msgs, stream, n)
    BY <1>1, StreamKnown
  <2>2. ended # "Proto"
    BY <1>1 DEF FramingIInv
  <2>3. ended = "FrameTooLarge" => n + 1 <= Len(msgs) /\ next > MaxFrame
    BY <1>1, <2>1 DEF FramingIInv
  <2>4. ASSUME ended = "Closed", NEW k \in (n + 1)..Len(msgs) PROVE arrived < EndOf(k)
    <3>1. n < Len(msgs) /\ n + 1 \in 0..Len(msgs)
      BY <2>1
    <3>2. Upto(msgs, n + 1) = Upto(msgs, n) + 4 + next /\ next \in Nat
      BY <2>1, <3>1 DEF NextIs
    <3>3. arrived - taken < Wanted /\ taken \in Nat /\ arrived \in Nat
      BY <1>1, <2>4 DEF FramingIInv
    <3>4. arrived < Upto(msgs, n + 1)
      <4>1. CASE need = Header
        <5>1. Wanted = 4 /\ taken = Upto(msgs, n)
          BY <1>1, <2>4, <4>1 DEF FramingIInv, Wanted
        <5> QED BY <2>1, <3>2, <3>3, <5>1
      <4>2. CASE need # Header
        <5>1. Wanted = next /\ taken = Upto(msgs, n) + 4
          BY <1>1, <4>2 DEF FramingIInv, Wanted
        <5> QED BY <2>1, <3>2, <3>3, <5>1
      <4> QED BY <4>1, <4>2
    <3>5. Upto(msgs, n + 1) <= Upto(msgs, k) /\ Upto(msgs, n + 1) \in Nat /\ Upto(msgs, k) \in Nat
      <4>1. msgs \in Sendable
        BY <1>1 DEF FramingIInv
      <4>2. \A j \in (n + 1)..Len(msgs) : Upto(msgs, n + 1) <= Upto(msgs, j)
        BY <3>1, <4>1, UptoMonotone
      <4>3. \A j \in 0..Len(msgs) : Upto(msgs, j) \in Nat
        BY <4>1, StreamFacts
      <4>4. k \in 0..Len(msgs)
        BY <2>1
      <4> QED BY <3>1, <4>2, <4>3, <4>4
    <3>6. arrived < Upto(msgs, k)
      BY <3>3, <3>4, <3>5
    <3> QED BY <3>6 DEF EndOf, Upto
  <2> QED BY <2>2, <2>3, <2>4 DEF EndsForReason
<1> QED BY <1>1, FramingInvariance, PTL

\* The bytes, their frames and the reader make a channel of messages.
LEMMA InitChannel == FramingInit => Abs!Init
<1> SUFFICES ASSUME FramingInit PROVE Abs!Init
  OBVIOUS
<1> DEFINE M == UNION {ToSet(ms) : ms \in Sendable}
<1>1. msgs \in Sendable /\ received = <<>> /\ ended = "no"
  BY DEF FramingInit
<1>2. msgs \in Seq(ToSet(msgs))
  BY <1>1, FrameFacts
<1>3. msgs \in Seq(M)
  <2>1. ToSet(msgs) \subseteq M
    BY <1>1
  <2> HIDE DEF M
  <2> QED BY <1>2, <2>1, SeqMonotonic
<1>4. ChannelAhead = msgs
  <2>1. SubSeq(msgs, 1, Len(msgs)) = msgs
    BY <1>2, SubSeqFull
  <2>2. Len(received) + 1 = 1
    BY <1>1
  <2> QED BY <2>1, <2>2 DEF ChannelAhead
<1>5. (ended # "no") = FALSE
  BY <1>1
<1> QED BY <1>1, <1>3, <1>4, <1>5 DEF Abs!Init

LEMMA NextChannel == FramingIInv /\ [FramingNext]_framingVars => [Abs!Next]_(Abs!vars)
<1> SUFFICES ASSUME FramingIInv, [FramingNext]_framingVars PROVE [Abs!Next]_(Abs!vars)
  OBVIOUS
<1>1. ASSUME UNCHANGED <<msgs, received, ended>> PROVE UNCHANGED Abs!vars
  BY <1>1 DEF Abs!vars, ChannelAhead
<1>2. ASSUME ended = "no", ended' # "no", UNCHANGED <<msgs, received>> PROVE Abs!Next
  <2>1. Abs!End
    BY <1>2 DEF Abs!End, ChannelAhead
  <2> QED BY <2>1 DEF Abs!Next
<1>3. CASE Arrive
  BY <1>1, <1>3 DEF Arrive
<1>4. CASE Break
  BY <1>1, <1>4 DEF Break
<1>5. CASE ReadHeader
  <2>1. ended = "no" /\ UNCHANGED <<msgs, received>> /\ (ended' = "FrameTooLarge" \/ ended' = ended)
    BY <1>5 DEF ReadHeader, Ready
  <2> QED BY <1>1, <1>2, <2>1
<1>6. CASE ReadPayload
  <2> DEFINE n == Len(received)
  <2>1. n < Len(msgs) /\ ended = "no" /\ ended' = "no" /\ received' = Append(received, msgs[n + 1])
    BY <1>6, ReadPayloadReads
  <2>2. msgs' = msgs
    BY <1>6 DEF ReadPayload
  <2>3. msgs \in Seq(ToSet(msgs)) /\ n \in 0..Len(msgs) /\ received = SubSeq(msgs, 1, n)
    BY StreamKnown DEF FramingIInv
  <2>4. /\ Append(SubSeq(msgs, 1, n), msgs[n + 1]) = SubSeq(msgs, 1, n + 1)
        /\ Len(SubSeq(msgs, 1, n + 1)) = n + 1
        /\ SubSeq(msgs, n + 1, Len(msgs)) # <<>>
        /\ Head(SubSeq(msgs, n + 1, Len(msgs))) = msgs[n + 1]
        /\ Tail(SubSeq(msgs, n + 1, Len(msgs))) = SubSeq(msgs, n + 1 + 1, Len(msgs))
    <3> HIDE DEF n
    <3> QED BY <2>1, <2>3, NextReceived
  <2>5. Len(received') = n + 1
    BY <2>1, <2>3, <2>4
  <2>6. ChannelAhead # <<>> /\ Head(ChannelAhead) = msgs[n + 1]
    BY <2>4 DEF ChannelAhead
  <2>7. ChannelAhead' = Tail(ChannelAhead)
    BY <2>2, <2>4, <2>5 DEF ChannelAhead
  <2>8. Abs!Deliver
    BY <2>1, <2>6, <2>7 DEF Abs!Deliver
  <2> QED BY <2>8 DEF Abs!Next
<1>7. CASE ReadEof
  BY <1>2, <1>7 DEF ReadEof
<1>8. CASE UNCHANGED framingVars
  BY <1>1, <1>8 DEF framingVars
<1> QED BY <1>3, <1>4, <1>5, <1>6, <1>7, <1>8 DEF FramingNext, Read

THEOREM FramingImplementsChannel == FramingSpec => ImplementsChannel
<1> QED BY InitChannel, NextChannel, FramingInvariance, PTL DEF FramingSpec, ImplementsChannel, Abs!Spec
=============================================================================
