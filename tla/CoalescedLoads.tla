--------------------------- MODULE CoalescedLoads ---------------------------
(***************************************************************************)
(* What the model loader promises its callers, without maps, channels or   *)
(* exchanges: of the callers that want a key, at most one leads a load,    *)
(* those that come meanwhile follow it, and when the load ends all of them *)
(* are told, at once and the same.  Nobody is told anything otherwise.     *)
(***************************************************************************)

CONSTANTS Callers, Keys, None

VARIABLES
    stage,  \* where each caller stands
    target  \* the key it wants

vars == <<stage, target>>

Stages == {"out", "in", "leading", "following", "toldOk", "toldErr", "served", "failed"}

Init ==
    /\ stage = [c \in Callers |-> "out"]
    /\ target = [c \in Callers |-> None]

Move(c, a, b) == stage[c] = a /\ stage' = [stage EXCEPT ![c] = b] /\ UNCHANGED target

Leaders(k) == {c \in Callers : stage[c] = "leading" /\ target[c] = k}

Enter(c, k) ==
    /\ stage[c] = "out"
    /\ stage' = [stage EXCEPT ![c] = "in"]
    /\ target' = [target EXCEPT ![c] = k]

\* The model turns out to be there.
Hit(c) == Move(c, "in", "served")

Lead(c) == Move(c, "in", "leading") /\ Leaders(target[c]) = {}

Follow(c) == Move(c, "in", "following") /\ Leaders(target[c]) # {}

\* The load of c ends; ok is its outcome.
Land(c, ok) ==
    /\ stage[c] = "leading"
    /\ stage' = [d \in Callers |->
                   IF d = c THEN IF ok THEN "served" ELSE "failed"
                   ELSE IF stage[d] = "following" /\ target[d] = target[c]
                          THEN IF ok THEN "toldOk" ELSE "toldErr"
                   ELSE stage[d]]
    /\ UNCHANGED target

\* A caller acts on what it was told: after an error it may try for itself.
Heed(c) ==
    \/ Move(c, "toldOk", "served")
    \/ Move(c, "toldErr", "in")
    \/ Move(c, "toldErr", "failed")

\* A follower's own time is up.
GiveUp(c) ==
    \/ Move(c, "following", "failed")
    \/ Move(c, "toldOk", "failed")
    \/ Move(c, "toldErr", "failed")

Leave(c) ==
    /\ stage[c] \in {"served", "failed"}
    /\ stage' = [stage EXCEPT ![c] = "out"]
    /\ target' = [target EXCEPT ![c] = None]

Next ==
    \E c \in Callers :
        \/ \E k \in Keys : Enter(c, k)
        \/ Hit(c) \/ Lead(c) \/ Follow(c)
        \/ \E ok \in BOOLEAN : Land(c, ok)
        \/ Heed(c) \/ GiveUp(c) \/ Leave(c)

Spec == Init /\ [][Next]_vars

=============================================================================
