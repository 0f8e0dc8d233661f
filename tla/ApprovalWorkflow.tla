-------------------------- MODULE ApprovalWorkflow --------------------------
(***************************************************************************)
(* What the approval workflow promises a user                              *)
(* (docs/checkpoints-and-transactions.md, "Sessions and Approval"): a      *)
(* dialog is a series of work sessions, decided one after the other and    *)
(* once for all; approving one may extend the approved history, which      *)
(* never loses a commit; abandoning one leaves it alone.                   *)
(***************************************************************************)
EXTENDS Naturals, Sequences

VARIABLES
    decisions,  \* how each session was closed, in order
    approved    \* the commits of the approved history

Init == decisions = <<>> /\ approved = {1}

Approve ==
    /\ decisions' = Append(decisions, "merged")
    /\ approved \subseteq approved'

Abandon ==
    /\ decisions' = Append(decisions, "abandoned")
    /\ approved' = approved

Next == Approve \/ Abandon

Spec == Init /\ [][Next]_<<decisions, approved>>
=============================================================================
