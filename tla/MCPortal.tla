----------------------------- MODULE MCPortal ------------------------------
(* A run of two steps: the first is a workflow of two leaves, one of which *)
(* has a task of two attempts; a listing of two pages; one user.           *)
EXTENDS Portal

CONSTANTS top, mid, leaf, twin, side, task, attempt, retry, runs, user

MCItem == {top, mid}
MCProcess == {top, mid, leaf, twin, side, task, attempt, retry}
MCParts == [p \in MCProcess |-> CASE p = top  -> <<mid, side>>
                                  [] p = mid  -> <<leaf, twin>>
                                  [] p = twin -> <<task>>
                                  [] p = task -> <<attempt, retry>>
                                  [] OTHER    -> <<>>]
MCListing == {runs}
MCUser == {user}
=============================================================================
