---------------------------- MODULE RobbableLock ----------------------------
(***************************************************************************)
(* What DistributedLock of client/distlock.h promises its callers when     *)
(* requests fail and holders are taken for dead: nobody is told that he    *)
(* owns the lock while another owner's claim is good.  A claim ends with   *)
(* unlock or with its owner, or is robbed by a reset of the lock, which a  *)
(* forced take-over does, and an unlock that comes late.                   *)
(***************************************************************************)
CONSTANT Thread

VARIABLES
    owners,   \* threads that lock_try told so and that have not called unlock
    robbed    \* those whose lock was reset by another

Init == owners = {} /\ robbed = {}

\* The owners whose claim is good.
Rightful == owners \ robbed

Acquire(t) ==
    /\ Rightful = {}
    /\ owners' = owners \cup {t}
    /\ UNCHANGED robbed

\* A reset robs whoever has the lock.
Reset ==
    /\ robbed' = robbed \cup owners
    /\ UNCHANGED owners

\* unlock, whose reset may be lost or take the lock from its next owner.
Release(t) ==
    /\ t \in owners
    /\ owners' = owners \ {t}
    /\ robbed' \in {robbed \ {t}, (robbed \cup owners) \ {t}}

\* A process dies with its threads.
Die(dead) ==
    /\ owners' = owners \ dead
    /\ robbed' = robbed \ dead

Next ==
    \/ \E t \in Thread : Acquire(t) \/ Release(t)
    \/ Reset
    \/ \E dead \in SUBSET Thread : Die(dead)

Spec == Init /\ [][Next]_<<owners, robbed>>

\* There is never more than one good claim.
OneRightful == \A t, u \in Rightful : t = u
=============================================================================
