-------------------------- MODULE MC_DonatedPages --------------------------
(* Model-checking instance of the donated-page tracker. *)
EXTENDS DonatedPages, TLC

\* Borrowers are interchangeable: nothing in the tracker tells them apart.
GuestSymmetry == Permutations(Guests)

\* The tracker seen through its pages: the range sets mapped to page sets.
Abstract == INSTANCE DonationSet WITH
                Pages <- Pages,
                lent <- [g \in Guests |-> PagesOf(donated[g])],
                borrowers <- keys

(* The range sets implement sets of donated pages: every add, remove and  *)
(* erase of add/remove_page_from_donated_range and reclaim_root_pages     *)
(* changes the donated pages exactly as inserting, removing or discarding *)
(* them in a set would.                                                   *)
TrackerImplementsDonationSet == Abstract!Spec
=============================================================================
