------------------------------ MODULE FileDrop ------------------------------
(***************************************************************************)
(* What receiving files promises: a file appears in the download directory *)
(* whole, at once, under a name nothing had, and then stays as it is.      *)
(***************************************************************************)
CONSTANTS Transfers,  \* the transfers; a whole file is named by its transfer
          Names,      \* the names a file may be published under
          NoFile,     \* nothing has the name
          UserFile    \* a file the user had before

VARIABLE files        \* for each name, the transfer whose whole file it is

DropInit == files \in [Names -> {NoFile, UserFile}]

Publish(t, n) == /\ files[n] = NoFile
                 /\ files' = [files EXCEPT ![n] = t]

DropNext == \E t \in Transfers, n \in Names : Publish(t, n)

DropSpec == DropInit /\ [][DropNext]_files
=============================================================================
