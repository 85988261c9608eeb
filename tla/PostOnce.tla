------------------------------ MODULE PostOnce ------------------------------
(***************************************************************************)
(* What publishing promises (decision D21), without workers, jobs, keys,   *)
(* rate limits or clocks: a publication is requested once, posted at most  *)
(* once, and ends once, published if and only if it is reported after its  *)
(* post.  Publishing implements it.                                        *)
(***************************************************************************)
EXTENDS Naturals

CONSTANT Pubs

VARIABLES
    outcome,    \* of each publication: none, open, published or given_up
    posts       \* posts made for each publication

Init ==
    /\ outcome = [p \in Pubs |-> "none"]
    /\ posts = [p \in Pubs |-> 0]

Ask(p) ==
    /\ outcome[p] = "none"
    /\ outcome' = [outcome EXCEPT ![p] = "open"]
    /\ UNCHANGED posts

\* A late post of a publication that was given up is not excluded.
Post(p) ==
    /\ outcome[p] # "none"
    /\ posts[p] = 0
    /\ posts' = [posts EXCEPT ![p] = 1]
    /\ UNCHANGED outcome

Report(p) ==
    /\ outcome[p] = "open"
    /\ posts[p] = 1
    /\ outcome' = [outcome EXCEPT ![p] = "published"]
    /\ UNCHANGED posts

GiveUp(p) ==
    /\ outcome[p] = "open"
    /\ outcome' = [outcome EXCEPT ![p] = "given_up"]
    /\ UNCHANGED posts

Next == \E p \in Pubs : Ask(p) \/ Post(p) \/ Report(p) \/ GiveUp(p)

\* A publication that was asked for ends.
Spec ==
    /\ Init /\ [][Next]_<<outcome, posts>>
    /\ \A p \in Pubs : WF_<<outcome, posts>>(Report(p) \/ GiveUp(p))
=============================================================================
