----------------------------- MODULE AtomicDisk -----------------------------
(***************************************************************************)
(* What the logging layer promises its callers, without saying how: a disk *)
(* whose contents change in one step from the state after one group of     *)
(* complete file system calls to the state after the next, whatever moment *)
(* a crash comes at.  Log.tla is shown to implement this specification.    *)
(***************************************************************************)
CONSTANTS Proc,     \* processes that make file system calls
          Block,    \* disk blocks outside the log
          Value,    \* contents of a block
          Zero      \* the contents mkfs gives a block

VARIABLES stable,     \* what a crash now would leave behind
          volatile,   \* what a read now returns
          active      \* processes between begin_op and end_op

vars == <<stable, volatile, active>>

Init == /\ stable = [b \in Block |-> Zero]
        /\ volatile = stable
        /\ active = {}

Begin(p) == /\ p \notin active
            /\ active' = active \cup {p}
            /\ UNCHANGED <<stable, volatile>>

Write(p, b, v) == /\ p \in active
                  /\ volatile' = [volatile EXCEPT ![b] = v]
                  /\ UNCHANGED <<stable, active>>

End(p) == /\ p \in active
          /\ active' = active \ {p}
          /\ UNCHANGED <<stable, volatile>>

\* A commit falls only where no call is half done, and takes every write.
Commit == /\ active = {}
          /\ stable' = volatile
          /\ UNCHANGED <<volatile, active>>

Crash == /\ volatile' = stable
         /\ active' = {}
         /\ UNCHANGED stable

Next == \/ \E p \in Proc : Begin(p) \/ End(p)
        \/ \E p \in Proc, b \in Block, v \in Value : Write(p, b, v)
        \/ Commit
        \/ Crash

Spec == Init /\ [][Next]_vars
=============================================================================
