---------------------------- MODULE DonationSet ----------------------------
(***************************************************************************)
(* What the donated-page tracker promises (spec section 4.2), without      *)
(* ranges: for every borrower, the set of root pages donated to it, and    *)
(* whether the borrower has an entry at all (donated_pages_to_guest).      *)
(***************************************************************************)
CONSTANTS Guests, Pages

VARIABLES
    lent,       \* lent[g]: the pages donated to borrower g
    borrowers   \* the borrowers with an entry

vars == <<lent, borrowers>>

Init ==
    /\ lent = [g \in Guests |-> {}]
    /\ borrowers = {}

\* insert(borrower, gpa) of a page not yet donated to that borrower.
Insert(g, p) ==
    /\ p \notin lent[g]
    /\ lent' = [lent EXCEPT ![g] = @ \cup {p}]
    /\ borrowers' = borrowers \cup {g}

\* remove(borrower, gpa): a no-op when the page is not donated.
Remove(g, p) ==
    /\ g \in borrowers
    /\ lent' = [lent EXCEPT ![g] = @ \ {p}]
    /\ UNCHANGED borrowers

\* The borrower's whole set is discarded.
Discard(g) ==
    /\ g \in borrowers
    /\ lent' = [lent EXCEPT ![g] = {}]
    /\ borrowers' = borrowers \ {g}

Next ==
    \/ \E g \in Guests, p \in Pages : Insert(g, p) \/ Remove(g, p)
    \/ \E g \in Guests : Discard(g)

Spec == Init /\ [][Next]_vars
=============================================================================
