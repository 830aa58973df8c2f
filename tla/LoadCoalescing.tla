--------------------------- MODULE LoadCoalescing ---------------------------
(***************************************************************************)
(* ModelLoader implements CoalescedLoads.  A call that waits has been told *)
(* the outcome as soon as the load it waits for has stored it, whether or  *)
(* not its select has woken up yet.                                        *)
(***************************************************************************)
EXTENDS ModelLoader

Stage(r) ==
    CASE pc[r] = "idle" -> "out"
      [] pc[r] \in Loading -> "leading"
      [] pc[r] \in Waiting /\ result[waitsOn[r]] = "ok" -> "toldOk"
      [] pc[r] \in Waiting /\ result[waitsOn[r]] = "err" -> "toldErr"
      [] pc[r] \in Waiting /\ result[waitsOn[r]] \notin {"ok", "err"} -> "following"
      [] pc[r] = "served" -> "served"
      [] pc[r] \in {"retract", "invalidate", "gaveUp"} -> "failed"
      [] OTHER -> "in"

Coalesced ==
    INSTANCE CoalescedLoads
    WITH Callers <- Requests, stage <- [r \in Requests |-> Stage(r)], target <- key

\* Concurrent loads of a key are coalesced: every call that waits for a load
\* learns exactly the outcome of that load, together with all others that wait
\* for it, and a call that loads by itself does so while nobody else does.
ImplementsCoalescing == Coalesced!Spec

=============================================================================
