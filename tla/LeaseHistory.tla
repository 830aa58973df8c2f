---------------------------- MODULE LeaseHistory ----------------------------
(***************************************************************************)
(* Router with history variables for its leases: those that were left      *)
(* behind by a crash or by an exchange with the API server that failed,    *)
(* and those that a late Delete has removed under the call that held them. *)
(***************************************************************************)
EXTENDS Router

VARIABLES
    leaked,     \* models whose lease has been left behind
    undercut    \* models that lost their lease to a late Delete while a call was
                \* loading them, until no call is loading them

IsHeld(m) == \E r \in Requests : pc[r] \in Holding /\ model[r] = m

\* The Delete fails, as far as the call is told.
ReleaseFails(m) ==
    \E r \in Requests, ok \in BOOLEAN :
        model[r] = m /\ ~ Succeeds(r, ok) /\ ReleaseLease(r, ok)

HolderCrashes(m) == IsHeld(m) /\ \E x \in Replicas : Crash(x)

\* A Create or Delete takes effect that no call waits for.
LateCreate(m) ==
    \E c \in Connections : Arrive(c) /\ late[c].model = m /\ late[c].holder # None
LateDelete(m) ==
    \E c \in Connections : Arrive(c) /\ late[c].model = m /\ late[c].holder = None

HInit == Init /\ leaked = {} /\ undercut = {}

HNext ==
    /\ Next
    /\ leaked' = {m \in Models :
                    /\ lease'[m] # None /\ ~ IsHeld(m)'
                    /\ \/ m \in leaked \/ HolderCrashes(m)
                       \/ ReleaseFails(m) \/ LateCreate(m)}
    /\ undercut' = {m \in Models :
                      IsHeld(m) /\ IsHeld(m)' /\ (m \in undercut \/ LateDelete(m))}

HSpec == HInit /\ [][HNext]_<<vars, leaked, undercut>>

-----------------------------------------------------------------------------
(* Properties *)

\* "Try to release the lease on error": a lease without a call that holds it was
\* left behind by a crash or a failed exchange.  No path through GetModelEndpoint
\* forgets one, also when it is found again and adopted after a restart.
LeakOnlyByFailure ==
    \A m \in Models : lease[m] # None => IsHeld(m) \/ m \in leaked

\* releaseLease deletes by name, whoever holds the lease, and yet a call that is
\* loading has the lease in its replica's name, as long as no Delete of an earlier
\* call that failed or crashed arrives late, while the model is being loaded.
\* (After that, the Deletes of the calls that load the model hit each other, until
\* none of them is left.)
LeaseLostOnlyToLateDelete ==
    \A r \in Requests :
        pc[r] \in Holding => lease[model[r]] = Me(r) \/ model[r] \in undercut

\* "This ensures only one replica loads this model across all replicas" is true
\* but for that case: of all calls of all replicas between acquiring and releasing
\* the lease of a model there is at most one, unless a late Delete has removed
\* the lease while one was loading.
SecondLoaderOnlyByLateDelete ==
    \A r, q \in Requests :
        pc[r] \in Holding /\ pc[q] \in Holding /\ model[r] = model[q]
            => r = q \/ model[r] \in undercut

\* The inductive invariant behind it.
LInv == RInv /\ LeaseLostOnlyToLateDelete

=============================================================================
