----------------------------- MODULE FollowedArm -----------------------------
(***************************************************************************)
(* What mirroring promises of the goals of the follower's servos, however  *)
(* batches are encoded, kept and lost on their way: a joint is only sent   *)
(* to where the leader's joint was when it was last sent, batches take     *)
(* effect whole or not at all, each at most once, and never in an order    *)
(* other than that in which they were sent.                                *)
(***************************************************************************)
EXTENDS Naturals, Sequences

CONSTANTS Joints, Position, Unknown

VARIABLES
    arm,    \* positions of the leader's joints, as last read
    sent,   \* where each joint was when it was last sent, until forgotten
    way,    \* the batches that may still take effect, oldest first
    goal    \* goals of the follower's servos

vars == <<arm, sent, way, goal>>

Nowhere == [j \in Joints |-> Unknown]

Init == arm \in [Joints -> Position] /\ sent = Nowhere /\ way = <<>> /\ goal = Nowhere

Read == arm' \in [Joints -> Position] /\ UNCHANGED <<sent, way, goal>>

Forget == sent' = Nowhere /\ UNCHANGED <<arm, way, goal>>

\* The joints that moved are sent, and perhaps others again; the batch may
\* never leave the leader.
Send(moved, again) ==
    /\ sent' = [j \in Joints |-> IF j \in moved THEN arm[j] ELSE sent[j]]
    /\ \/ way' = Append(way, [j \in Joints |-> IF j \in moved \cup again THEN sent'[j]
                                               ELSE Unknown])
       \/ UNCHANGED way
    /\ UNCHANGED <<arm, goal>>

\* A message that names no joint: a release, from here.
Signal ==
    /\ way' = Append(way, Nowhere)
    /\ sent' \in {sent, Nowhere}
    /\ UNCHANGED <<arm, goal>>

Without(s, i) == [k \in 1..(Len(s) - 1) |-> IF k < i THEN s[k] ELSE s[k + 1]]

\* Any batch may be lost, or give way to a newer one.
Lose(i) == way' = Without(way, i) /\ UNCHANGED <<arm, sent, goal>>

\* The oldest takes effect on the joints it names.
Take ==
    /\ way # <<>>
    /\ goal' = [j \in Joints |-> IF way[1][j] # Unknown THEN way[1][j] ELSE goal[j]]
    /\ way' = Tail(way)
    /\ UNCHANGED <<arm, sent>>

Next ==
    \/ Read \/ Forget \/ Signal \/ Take
    \/ \E moved, again \in SUBSET Joints : Send(moved, again)
    \/ \E i \in DOMAIN way : Lose(i)

Spec == Init /\ [][Next]_vars

=============================================================================
