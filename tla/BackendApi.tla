----------------------------- MODULE BackendApi -----------------------------
(***************************************************************************)
(* What libpdraw-backend promises its callers: an API call made on any     *)
(* thread takes effect on the wrapped PDrAW instance at one moment between *)
(* the call and its return, and returns what that moment produced.         *)
(*                                                                         *)
(* The instance is represented by its version: the number of operations it *)
(* has executed.  What an operation returns is the version it created, so  *)
(* that no two operations return the same value.                           *)
(***************************************************************************)
EXTENDS Naturals

CONSTANT Threads

VARIABLES busy,      \* the threads inside an API call
          ver,       \* the version the thread's call created, 0 before that
          out,       \* what the last call of the thread returned, 0 a failure
          version    \* operations executed by the instance

vars == <<busy, ver, out, version>>

Init ==
    /\ busy = [t \in Threads |-> FALSE]
    /\ ver = [t \in Threads |-> 0]
    /\ out = [t \in Threads |-> 0]
    /\ version = 0

Invoke(t) ==
    /\ ~busy[t]
    /\ busy' = [busy EXCEPT ![t] = TRUE]
    /\ UNCHANGED <<ver, out, version>>

Apply(t) ==
    /\ busy[t] /\ ver[t] = 0
    /\ version' = version + 1
    /\ ver' = [ver EXCEPT ![t] = version + 1]
    /\ UNCHANGED <<busy, out>>

\* A call whose operation was not executed fails.
Return(t) ==
    /\ busy[t]
    /\ out' = [out EXCEPT ![t] = ver[t]]
    /\ ver' = [ver EXCEPT ![t] = 0]
    /\ busy' = [busy EXCEPT ![t] = FALSE]
    /\ UNCHANGED version

Next == \E t \in Threads : Invoke(t) \/ Apply(t) \/ Return(t)

Spec == Init /\ [][Next]_vars
=============================================================================
