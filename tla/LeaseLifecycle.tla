-------------------------- MODULE LeaseLifecycle --------------------------
(***************************************************************************)
(* What the lease journal shows of every enforcement lease, however many   *)
(* goroutines apply and sweep and whatever fails, stated without brokers,  *)
(* policy points, clocks or fencing tokens.                                *)
(*                                                                         *)
(* A lease is journalled as "pending" before anything is enforced and has  *)
(* its slot (target, action, level) for life.  It becomes "active" from    *)
(* "pending", and again only from what a sweep has written, and only while *)
(* no other lease of its slot is active.  A failed lease stays failed; the *)
(* other final statuses may be written over each other, because the writes *)
(* are unconditional.                                                      *)
(***************************************************************************)
CONSTANTS LeaseId,   \* lease identifiers
          Slot       \* (target, action, level) tuples

VARIABLES status,    \* the lease's status column; "none" while the row does not exist
          slot       \* the tuple the lease was created for

Settled == {"reverted", "superseded", "conflict"}
Final   == Settled \cup {"failed"}
Status  == {"none", "pending", "active"} \cup Final

lifecycleVars == <<status, slot>>

LifecycleTypeOK == /\ status \in [LeaseId -> Status]
                   /\ slot \in [LeaseId -> Slot]

LifecycleInit == /\ status = [l \in LeaseId |-> "none"]
                 /\ slot \in [LeaseId -> Slot]

Create(l, s) == /\ status[l] = "none"
                /\ status' = [status EXCEPT ![l] = "pending"]
                /\ slot' = [slot EXCEPT ![l] = s]

\* An apply that has come to its end, or the renewal of a lease that a sweep
\* has settled in the meantime.
Activate(l) == /\ status[l] \in {"pending", "reverted", "conflict"}
               /\ \A m \in LeaseId : status[m] = "active" => slot[m] # slot[l]
               /\ status' = [status EXCEPT ![l] = "active"]
               /\ UNCHANGED slot

Fail(l) == /\ status[l] = "pending"
           /\ status' = [status EXCEPT ![l] = "failed"]
           /\ UNCHANGED slot

Settle(l, s) == /\ status[l] \in Settled \cup {"active"}
                /\ status' = [status EXCEPT ![l] = s]
                /\ UNCHANGED slot

\* A restart gives up on pending leases, and may retire active ones at the
\* same time.  Each of the two passes stops at its first store error.
Restart(abandoned, retired) ==
    /\ abandoned \subseteq {l \in LeaseId : status[l] = "pending"}
    /\ retired \subseteq {l \in LeaseId : status[l] = "active"}
    /\ status' = [l \in LeaseId |-> IF l \in abandoned THEN "failed"
                                    ELSE IF l \in retired THEN "superseded"
                                    ELSE status[l]]
    /\ UNCHANGED slot

LifecycleNext == \/ \E l \in LeaseId : \/ \E s \in Slot : Create(l, s)
                                       \/ Activate(l)
                                       \/ Fail(l)
                                       \/ \E s \in Settled : Settle(l, s)
                 \/ \E abandoned, retired \in SUBSET LeaseId : Restart(abandoned, retired)

LifecycleSpec == LifecycleInit /\ [][LifecycleNext]_lifecycleVars
=============================================================================
