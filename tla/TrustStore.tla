----------------------------- MODULE TrustStore ------------------------------
(***************************************************************************)
(* Trust on first use.  A server makes a new certificate at every start;   *)
(* whoever connects over TLS (the client runtime, the sender of a file)    *)
(* loads the file of pinned fingerprints into a store of its own, lets the *)
(* TLS handshake check the certificate against it, and writes the whole    *)
(* store back when it pins one.  Attempts to connect run at the same time, *)
(* in one process or in several, and share nothing but the file.           *)
(***************************************************************************)
EXTENDS Naturals, FiniteSets

CONSTANTS Attempts, \* connections that may be under way at the same time
          Hosts,    \* addresses, the identities of the pins
          NoPin,    \* no line for an address
          Torn,     \* what a line that was cut short parses to
          MaxStarts \* bound on the starts of a server

ASSUME TrustAssumption ==
    /\ NoPin # Torn
    /\ MaxStarts \in Nat \ {0}
    /\ {NoPin, Torn} \cap (Hosts \X (1..MaxStarts)) = {}

VARIABLES starts,  \* number of times each server has been started
          file,    \* the pins in the file
          at,      \* where each attempt is
          host,    \* the address it connects to
          seen,    \* the certificate it is presented
          mem,     \* its store
          trusted, \* history: the fingerprints accepted for each address
          stale,   \* history: attempts whose store is older than the file
          raced,   \* history: a stale store was written, or an emptied file loaded
          failed   \* history: the file could not be written, or not to its end

vars == <<starts, file, at, host, seen, mem, trusted, stale, raced, failed>>

Stages == {"idle", "connected", "loaded", "create", "write", "accepted", "rejected"}

\* The fingerprint of a server's certificate: another one for every start.
Fingerprint(h) == <<h, starts[h]>>
NoPins         == [h \in Hosts |-> NoPin]
Pinned(pins)   == {h \in Hosts : pins[h] # NoPin}

Init == /\ starts = [h \in Hosts |-> 1]
        /\ file = NoPins
        /\ at = [a \in Attempts |-> "idle"]
        /\ host \in [Attempts -> Hosts]
        /\ seen = [a \in Attempts |-> Fingerprint(host[a])]
        /\ mem = [a \in Attempts |-> NoPins]
        /\ trusted = [h \in Hosts |-> {}]
        /\ stale = {}
        /\ raced = FALSE /\ failed = FALSE

Go(a, to) == at' = [at EXCEPT ![a] = to]

-----------------------------------------------------------------------------
(* A server is stopped and started again.                                  *)
Restart(h) == /\ starts[h] < MaxStarts
              /\ starts' = [starts EXCEPT ![h] = @ + 1]
              /\ UNCHANGED <<file, at, host, seen, mem, trusted, stale, raced, failed>>

\* The connection is to the server that runs now, whatever happens to it later.
Connect(a, h) == /\ at[a] = "idle"
                 /\ Go(a, "connected")
                 /\ host' = [host EXCEPT ![a] = h]
                 /\ seen' = [seen EXCEPT ![a] = Fingerprint(h)]
                 /\ UNCHANGED <<starts, file, mem, trusted, stale, raced, failed>>

\* Mutant of Load: a fingerprint keeps the white space around it, and is never the
\* one presented.
LoadUntrimmed(a) == /\ at[a] = "connected"
                    /\ Go(a, "loaded")
                    /\ mem' = [mem EXCEPT ![a] = [h \in Hosts |-> IF file[h] = NoPin THEN NoPin ELSE Torn]]
                    /\ stale' = stale \ {a}
                    /\ raced' = (raced \/ \E b \in Attempts : at[b] = "write")
                    /\ UNCHANGED <<starts, file, host, seen, trusted, failed>>

Load(a) == /\ at[a] = "connected"
           /\ Go(a, "loaded")
           /\ mem' = [mem EXCEPT ![a] = file]
           /\ stale' = stale \ {a}
           /\ raced' = (raced \/ \E b \in Attempts : at[b] = "write")
           /\ UNCHANGED <<starts, file, host, seen, trusted, failed>>

Accept(a) == trusted' = [trusted EXCEPT ![host[a]] = @ \cup {seen[a]}]

\* The three answers of `check`.
Known(a) == /\ at[a] = "loaded"
            /\ mem[a][host[a]] = seen[a]
            /\ Go(a, "accepted")
            /\ Accept(a)
            /\ UNCHANGED <<starts, file, host, seen, mem, stale, raced, failed>>

Changed(a) == /\ at[a] = "loaded"
              /\ mem[a][host[a]] \notin {NoPin, seen[a]}
              /\ Go(a, "rejected")
              /\ UNCHANGED <<starts, file, host, seen, mem, trusted, stale, raced, failed>>

\* Mutant of FirstUse: what was pinned is not persisted.
FirstUseInMemory(a) == /\ at[a] = "loaded"
                       /\ mem[a][host[a]] = NoPin
                       /\ Go(a, "accepted")
                       /\ Accept(a)
                       /\ mem' = [mem EXCEPT ![a][host[a]] = seen[a]]
                       /\ UNCHANGED <<starts, file, host, seen, stale, raced, failed>>

\* Mutant of FirstUse: the pin is kept under another address too, as under the one
\* name every certificate is made for.
FirstUseForAll(a) == /\ at[a] = "loaded"
                     /\ mem[a][host[a]] = NoPin
                     /\ Go(a, "create")
                     /\ mem' = [mem EXCEPT ![a] = [h \in Hosts |-> IF @[h] = NoPin THEN seen[a] ELSE @[h]]]
                     /\ UNCHANGED <<starts, file, host, seen, trusted, stale, raced, failed>>

FirstUse(a) == /\ at[a] = "loaded"
               /\ mem[a][host[a]] = NoPin
               /\ Go(a, "create")
               /\ mem' = [mem EXCEPT ![a][host[a]] = seen[a]]
               /\ UNCHANGED <<starts, file, host, seen, trusted, stale, raced, failed>>

\* `persist` empties the file, then writes the store in one piece.  Its errors are
\* ignored: the certificate is accepted all the same.
Create(a) == /\ at[a] = "create"
             /\ Go(a, "write")
             /\ file' = NoPins
             /\ stale' = stale \cup {b \in Attempts \ {a} : at[b] \in {"loaded", "create", "write"}}
             /\ raced' = (raced \/ a \in stale)
             /\ UNCHANGED <<starts, host, seen, mem, trusted, failed>>

CreateFails(a) == /\ at[a] = "create"
                  /\ Go(a, "accepted")
                  /\ Accept(a)
                  /\ failed' = TRUE
                  /\ UNCHANGED <<starts, file, host, seen, mem, stale, raced>>

\* What a file holds when `new` is written over it from its start: of longer
\* contents, which somebody else has written since it was emptied, the last lines
\* stay, and count for more than earlier ones of the same address.
Over(old, new) ==
    LET over == Cardinality(Pinned(old)) - Cardinality(Pinned(new))
        Rest == {R \in SUBSET Pinned(old) : Cardinality(R) = 0 \/ Cardinality(R) <= over}
    IN  {[h \in Hosts |-> IF h \in R THEN old[h] ELSE new[h]] : R \in Rest}

\* Mutant of Write: the line that was added is all that is written.
WriteLine(a) == /\ at[a] = "write"
                /\ Go(a, "accepted")
                /\ Accept(a)
                /\ file' = [NoPins EXCEPT ![host[a]] = seen[a]]
                /\ UNCHANGED <<starts, host, seen, mem, stale, raced, failed>>

Write(a) == /\ at[a] = "write"
            /\ Go(a, "accepted")
            /\ Accept(a)
            /\ file' \in Over(file, mem[a])
            /\ UNCHANGED <<starts, host, seen, mem, stale, raced, failed>>

\* The disk is full: some lines are written, and perhaps the beginning of one.
\* Lines are in no particular order.
Beginnings(pins) ==
    UNION {{[h \in Hosts |-> IF h \in W THEN pins[h] ELSE IF h \in C THEN Torn ELSE NoPin] :
              C \in {{}} \cup {{h} : h \in Pinned(pins) \ W}} :
           W \in SUBSET Pinned(pins)}

WriteShort(a) == /\ at[a] = "write"
                 /\ file = NoPins
                 /\ Go(a, "accepted")
                 /\ Accept(a)
                 /\ file' \in Beginnings(mem[a])
                 /\ failed' = TRUE
                 /\ UNCHANGED <<starts, host, seen, mem, stale, raced>>

\* An attempt ends, connected or not, or its process dies, perhaps when the file is
\* empty; the address and store are not used again.
End(a) == /\ at[a] # "idle"
          /\ Go(a, "idle")
          /\ stale' = stale \ {a}
          /\ failed' = (failed \/ at[a] \in {"create", "write"})
          /\ mem' = [mem EXCEPT ![a] = NoPins]
          /\ UNCHANGED <<starts, file, host, seen, trusted, raced>>

Check(a) == Known(a) \/ Changed(a) \/ FirstUse(a)
Persist(a) == Create(a) \/ CreateFails(a) \/ Write(a) \/ WriteShort(a)

Attempt(a) == \/ \E h \in Hosts : Connect(a, h)
              \/ Load(a) \/ Check(a) \/ Persist(a) \/ End(a)

Next == \/ \E h \in Hosts : Restart(h)
        \/ \E a \in Attempts : Attempt(a)

Spec == Init /\ [][Next]_vars

-----------------------------------------------------------------------------
(* Properties.                                                             *)

Certs(h) == {<<h, n>> : n \in 1..starts[h]}
Genuine(pins) == /\ DOMAIN pins = Hosts
                 /\ \A h \in Hosts : pins[h] \in Certs(h) \cup {NoPin, Torn}

\* Types; a pin is a fingerprint its own address has presented, or a torn line.
TrustTypeOK ==
    /\ starts \in [Hosts -> 1..MaxStarts]
    /\ at \in [Attempts -> Stages] /\ host \in [Attempts -> Hosts]
    /\ \A a \in Attempts : seen[a] \in Certs(host[a]) /\ Genuine(mem[a])
    /\ Genuine(file)
    /\ \A h \in Hosts : trusted[h] \subseteq Certs(h)
    /\ stale \subseteq Attempts /\ raced \in BOOLEAN /\ failed \in BOOLEAN

\* "rejecting any later change" (tls.rs:7): no two fingerprints are ever accepted
\* for one address, by any number of attempts and after any number of restarts,
\* provided that no store was written that another attempt's pin had made stale, no
\* emptied file was loaded, and no write failed.
OneFingerprint == ~raced /\ ~failed => \A h \in Hosts : Cardinality(trusted[h]) <= 1

\* A server that was never restarted is never rejected, whoever else pins what
\* meanwhile, provided that no write failed.
UnchangedIsAccepted == \A a \in Attempts :
    at[a] = "rejected" /\ ~failed => starts[host[a]] > 1

\* A pin that is in the file, or is about to be written back, and that all the
\* attempts know that may yet write the file.
Held(h, f) == /\ \/ file[h] = f
                 \/ file[h] = NoPin /\ \E a \in Attempts : at[a] = "write" /\ mem[a][h] = f
              /\ \A a \in Attempts : at[a] \in {"loaded", "create", "write"} => mem[a][h] = f

\* The two ways in which the file is found emptied: it is loaded between the two
\* steps of `persist`, or the writer dies there or has no room to write.
FoundEmpty == \E a \in Attempts :
    \/ Load(a) /\ \E b \in Attempts : at[b] = "write"
    \/ WriteShort(a)
    \/ End(a) /\ at[a] = "write"

\* A pin known to every attempt under way stays so, however many of them pin other
\* addresses at the same time: they lose each other's new pins only.
PinKept == [][\A h \in Hosts : \A f \in Certs(h) :
                Held(h, f) /\ ~FoundEmpty => Held(h, f)']_vars
=============================================================================
