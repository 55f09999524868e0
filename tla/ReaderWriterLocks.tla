------------------------- MODULE ReaderWriterLocks -------------------------
(***************************************************************************)
(* What the server relies on: every shared mutex, known by its address, is *)
(* a reader-writer lock.                                                   *)
(***************************************************************************)
CONSTANTS
  Threads,      \* the server's threads
  Keys          \* the addresses of its shared mutexes

VARIABLE
  held          \* how each thread holds each mutex

Modes == {"no", "read", "write"}

Init == held = [t \in Threads |-> [k \in Keys |-> "no"]]

Hold(t, k, mode) == held' = [held EXCEPT ![t][k] = mode]

AcquireWrite(t, k) ==
  /\ \A u \in Threads : held[u][k] = "no"
  /\ Hold(t, k, "write")

AcquireRead(t, k) ==
  /\ held[t][k] = "no"
  /\ \A u \in Threads : held[u][k] # "write"
  /\ Hold(t, k, "read")

Release(t, k) ==
  /\ held[t][k] # "no"
  /\ Hold(t, k, "no")

Next == \E t \in Threads, k \in Keys :
          AcquireWrite(t, k) \/ AcquireRead(t, k) \/ Release(t, k)

Spec == Init /\ [][Next]_held
=============================================================================
