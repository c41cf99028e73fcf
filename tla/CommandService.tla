--------------------------- MODULE CommandService ---------------------------
(***************************************************************************)
(* What the request/acknowledgement path promises a dashboard: a submitted *)
(* request is accepted, refused or not sent; an accepted one ends with an  *)
(* outcome the follower produced for that very request, or is given up.    *)
(***************************************************************************)
CONSTANTS Frame, NoFrame, Answer

VARIABLES
    request,   \* the request a dashboard sees, with its status
    outcomes   \* what the follower answered so far

vars == <<request, outcomes>>

Init ==
    /\ request = [frame |-> NoFrame, status |-> "None"]
    /\ outcomes = {}

Submit ==
    /\ \E f \in Frame, status \in {"Accepted", "Rejected", "Failed"} :
          request' = [frame |-> f, status |-> status]
    /\ UNCHANGED outcomes

\* The follower may work on any request, more than once.
Produce ==
    /\ \E f \in Frame, status \in Answer :
          outcomes' = outcomes \cup {[frame |-> f, status |-> status]}
    /\ UNCHANGED request

Report ==
    /\ request.status = "Accepted"
    /\ \E status \in Answer :
          /\ [frame |-> request.frame, status |-> status] \in outcomes
          /\ request' = [request EXCEPT !.status = status]
    /\ UNCHANGED outcomes

GiveUp ==
    /\ request.status = "Accepted"
    /\ \E status \in {"Timeout", "Failed"} : request' = [request EXCEPT !.status = status]
    /\ UNCHANGED outcomes

Reboot ==
    /\ request' = [frame |-> NoFrame, status |-> "None"]
    /\ UNCHANGED outcomes

Next == Submit \/ Produce \/ Report \/ GiveUp \/ Reboot
Spec == Init /\ [][Next]_vars

=============================================================================
