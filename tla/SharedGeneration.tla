--------------------------- MODULE SharedGeneration ---------------------------
(***************************************************************************)
(* What a process promises those who ask it for a value that is expensive  *)
(* to generate: it generates at most once at a time, whoever asks in the   *)
(* meantime shares that generation, and all who share it are answered when *)
(* it ends, by the same step.  Only the death of the process loses any.    *)
(***************************************************************************)
CONSTANTS Requests, Processes, ProcessOf

VARIABLES
    phase,      \* phase[q]: waiting, running (the one who generates), joined,
                \* answered or lost
    cached      \* is the value in the cache that all processes share?

vars == <<phase, cached>>

Of(i, p) == {q \in Requests : ProcessOf[q] = i /\ phase[q] = p}

Init ==
    /\ phase = [q \in Requests |-> "waiting"]
    /\ cached = FALSE

Become(q, from, to) ==
    /\ phase[q] = from
    /\ phase' = [phase EXCEPT ![q] = to]
    /\ UNCHANGED cached

Hit(q) == cached /\ Become(q, "waiting", "answered")
Start(q) == Of(ProcessOf[q], "running") = {} /\ Become(q, "waiting", "running")
Join(q) == Of(ProcessOf[q], "running") # {} /\ Become(q, "waiting", "joined")

Store(q) ==
    /\ phase[q] = "running"
    /\ cached' = TRUE
    /\ UNCHANGED phase

Move(S, to) == phase' = [q \in Requests |-> IF q \in S THEN to ELSE phase[q]]

Finish(q) ==
    /\ phase[q] = "running"
    /\ Move({q} \cup Of(ProcessOf[q], "joined"), "answered")
    /\ UNCHANGED cached

\* A request that has only just arrived may outlive the restart.
Crash(i) ==
    /\ \E S \in SUBSET Of(i, "waiting") :
           Move(S \cup Of(i, "running") \cup Of(i, "joined"), "lost")
    /\ UNCHANGED cached

Forget ==
    /\ cached' = FALSE
    /\ UNCHANGED phase

Next ==
    \/ Forget
    \/ \E i \in Processes : Crash(i)
    \/ \E q \in Requests : Hit(q) \/ Start(q) \/ Join(q) \/ Store(q) \/ Finish(q)

Spec == Init /\ [][Next]_vars

=============================================================================
