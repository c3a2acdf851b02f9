---------------------------- MODULE DonatedPages ----------------------------
(***************************************************************************)
(* The donated-page tracker of the root domain (domain.cpp, lines 331-516, *)
(* 611-654): for every borrower domain a std::set of page_range objects    *)
(* {start, count}, ordered by start, in m_donated_page_map.                *)
(*                                                                         *)
(* Addresses are page frame numbers: every address the code handles is a   *)
(* multiple of UV_PAGE_SIZE and every step of its arithmetic adds or       *)
(* subtracts whole pages, so one page is one unit here.                    *)
(*                                                                         *)
(* A range set is a function from a start page to the page count of the    *)
(* range starting there, 0 when there is none.  A std::set keyed by start  *)
(* holds at most one range per start, which is what the function says.     *)
(* The map itself is a set of keys (the borrowers that have an entry) and  *)
(* one range set per borrower, empty for the borrowers without an entry.   *)
(***************************************************************************)
EXTENDS Naturals

CONSTANTS
    Guests,     \* borrower domain identifiers
    NumPages    \* the pages are 0 .. NumPages - 1

ASSUME NumPagesAssumption == NumPages \in Nat \ {0}

Pages == 0 .. NumPages - 1

\* The past-the-end iterator of a range set.
End == NumPages

\* A range set whose ranges all lie inside the page space.
RangeSet == {rs \in [Pages -> 0 .. NumPages] : \A s \in Pages : s + rs[s] <= NumPages}

EmptyRangeSet == [s \in Pages |-> 0]

VARIABLES
    donated,    \* donated[g]: the range set of borrower g
    keys        \* the borrowers with an entry in m_donated_page_map

trackerVars == <<donated, keys>>

-----------------------------------------------------------------------------
(***************************************************************************)
(* page_range (declared in domain.h, outside src/): start(), limit(),      *)
(* contains(), contiguous_below/above(), top/middle/bottom_page().         *)
(***************************************************************************)
Starts(rs) == {s \in Pages : rs[s] > 0}

Limit(rs, s) == s + rs[s]

Contains(rs, s, p) == s <= p /\ p < Limit(rs, s)

\* contiguous_below(p) of the range at s: p is the page just above it.
ContiguousBelow(rs, s, p) == Limit(rs, s) = p

\* contiguous_above(p) of the range at s: p is the page just below it.
ContiguousAbove(rs, s, p) == p + 1 = s

TopPage(rs, s, p) == p = Limit(rs, s) - 1

MiddlePage(rs, s, p) == s < p /\ p < Limit(rs, s) - 1

BottomPage(rs, s, p) == p = s

(***************************************************************************)
(* std::set::lower_bound(p): the first range whose start is not below p,   *)
(* End if there is none; std::prev(it): the last range before it.          *)
(***************************************************************************)
LowerBound(rs, p) ==
    IF \E s \in Starts(rs) : s >= p
    THEN CHOOSE s \in Starts(rs) : s >= p /\ \A t \in Starts(rs) : t >= p => s <= t
    ELSE End

IsBegin(rs, it) == \A t \in Starts(rs) : t >= it

Prev(rs, it) == CHOOSE s \in Starts(rs) : s < it /\ \A t \in Starts(rs) : t < it => t <= s

\* Seeded fault: after a lower bound that does not contain the page, the
\* predecessor is not tried.
FindPageRangeNoPrev(rs, p) ==
    LET lb == LowerBound(rs, p)
    IN  IF Starts(rs) = {} THEN End
        ELSE IF IsBegin(rs, lb) THEN IF Contains(rs, lb, p) THEN lb ELSE End
        ELSE IF lb = End THEN IF Contains(rs, Prev(rs, lb), p) THEN Prev(rs, lb) ELSE End
        ELSE IF Contains(rs, lb, p) THEN lb
        ELSE End

\* find_page_range(range_set, page_gpa)
FindPageRange(rs, p) ==
    LET lb == LowerBound(rs, p)
    IN  IF Starts(rs) = {} THEN End
        ELSE IF IsBegin(rs, lb) THEN IF Contains(rs, lb, p) THEN lb ELSE End
        ELSE IF lb = End THEN IF Contains(rs, Prev(rs, lb), p) THEN Prev(rs, lb) ELSE End
        ELSE IF Contains(rs, lb, p) THEN lb
        ELSE IF Contains(rs, Prev(rs, lb), p) THEN Prev(rs, lb) ELSE End

\* Seeded fault: a new range created with two pages.
EmplaceTwo(rs, p) == IF rs[p] = 0 THEN [rs EXCEPT ![p] = 2] ELSE rs

\* emplace / emplace_hint of {p, 1}: a no-op when a range already starts at p.
Emplace(rs, p) == IF rs[p] = 0 THEN [rs EXCEPT ![p] = 1] ELSE rs

\* extend_page_range_above / extend_page_range_below
ExtendAbove(rs, s) == [rs EXCEPT ![s] = rs[s] + 1]

\* Seeded fault: the range is grown downwards but its old node is kept.
ExtendBelowKeepOld(rs, s) == [rs EXCEPT ![s - 1] = rs[s] + 1]

ExtendBelow(rs, s) == [rs EXCEPT ![s] = 0, ![s - 1] = rs[s] + 1]

\* The range set after add_page_to_donated_range(guest, p).
AddPage(rs, p) ==
    LET lb == LowerBound(rs, p)
    IN  IF Starts(rs) = {} THEN Emplace(rs, p)
        ELSE IF lb = End THEN
            IF ContiguousBelow(rs, Prev(rs, lb), p)
            THEN ExtendAbove(rs, Prev(rs, lb)) ELSE Emplace(rs, p)
        ELSE IF ContiguousAbove(rs, lb, p) THEN ExtendBelow(rs, lb)
        ELSE IF ~IsBegin(rs, lb) /\ ContiguousBelow(rs, Prev(rs, lb), p)
            THEN ExtendAbove(rs, Prev(rs, lb))
        ELSE Emplace(rs, p)

\* The branches of add_page_to_donated_range that allocate a node: the
\* emplace and emplace_hint of lines 424, 437 and 455; the two extensions
\* edit a range in place.
AddPageEmplaces(rs, p) ==
    LET lb == LowerBound(rs, p)
    IN  IF Starts(rs) = {} THEN TRUE
        ELSE IF lb = End THEN ~ContiguousBelow(rs, Prev(rs, lb), p)
        ELSE IF ContiguousAbove(rs, lb, p) THEN FALSE
        ELSE ~(~IsBegin(rs, lb) /\ ContiguousBelow(rs, Prev(rs, lb), p))

\* Seeded faults: the upper count of a split measured from page_gpa
\* instead of upper_start; a split that loses the upper part.
RemovePageUpperOffByOne(rs, p) ==
    LET r == FindPageRange(rs, p)
    IN  IF r = End THEN rs
        ELSE IF TopPage(rs, r, p) THEN
            IF rs[r] = 1 THEN [rs EXCEPT ![r] = 0] ELSE [rs EXCEPT ![r] = rs[r] - 1]
        ELSE IF MiddlePage(rs, r, p) THEN [rs EXCEPT ![r] = p - r, ![p + 1] = Limit(rs, r) - p]
        ELSE IF BottomPage(rs, r, p) THEN
            IF rs[r] = 1 THEN [rs EXCEPT ![r] = 0] ELSE [rs EXCEPT ![r] = 0, ![r + 1] = rs[r] - 1]
        ELSE rs

RemovePageMiddleDropsUpper(rs, p) ==
    LET r == FindPageRange(rs, p)
    IN  IF r = End THEN rs
        ELSE IF TopPage(rs, r, p) THEN
            IF rs[r] = 1 THEN [rs EXCEPT ![r] = 0] ELSE [rs EXCEPT ![r] = rs[r] - 1]
        ELSE IF MiddlePage(rs, r, p) THEN [rs EXCEPT ![r] = p - r]
        ELSE IF BottomPage(rs, r, p) THEN
            IF rs[r] = 1 THEN [rs EXCEPT ![r] = 0] ELSE [rs EXCEPT ![r] = 0, ![r + 1] = rs[r] - 1]
        ELSE rs

\* The range set after remove_page_from_donated_range(guest, p), when the
\* borrower has an entry.
RemovePage(rs, p) ==
    LET r == FindPageRange(rs, p)
    IN  IF r = End THEN rs
        ELSE IF TopPage(rs, r, p) THEN
            IF rs[r] = 1 THEN [rs EXCEPT ![r] = 0] ELSE [rs EXCEPT ![r] = rs[r] - 1]
        ELSE IF MiddlePage(rs, r, p) THEN [rs EXCEPT ![r] = p - r, ![p + 1] = Limit(rs, r) - (p + 1)]
        ELSE IF BottomPage(rs, r, p) THEN
            IF rs[r] = 1 THEN [rs EXCEPT ![r] = 0] ELSE [rs EXCEPT ![r] = 0, ![r + 1] = rs[r] - 1]
        ELSE rs

\* page_already_donated(guest_domid, page_gpa)
PageAlreadyDonated(g, p) == g \in keys /\ FindPageRange(donated[g], p) # End

\* The pages of the ranges of a range set.
PagesOf(rs) == {p \in Pages : \E s \in Starts(rs) : Contains(rs, s, p)}

-----------------------------------------------------------------------------
(***************************************************************************)
(* The tracker on its own: its operations with the callers' contract.      *)
(* add_page_to_donated_range is only called by donate_root_page after      *)
(* page_already_donated(guest, p) returned false (line 530).               *)
(***************************************************************************)
TrackerInit ==
    /\ donated = [g \in Guests |-> EmptyRangeSet]
    /\ keys = {}

\* add_page_to_donated_range (lines 410-457): the entry is created if missing.
AddPageToDonatedRange(g, p) ==
    /\ ~PageAlreadyDonated(g, p)
    /\ donated' = [donated EXCEPT ![g] = AddPage(@, p)]
    /\ keys' = keys \cup {g}

\* remove_page_from_donated_range (lines 459-516): nothing without an entry.
RemovePageFromDonatedRange(g, p) ==
    /\ g \in keys
    /\ donated' = [donated EXCEPT ![g] = RemovePage(@, p)]
    /\ UNCHANGED keys

\* The erase of the borrower's entry that ends reclaim_root_pages (line 651).
EraseDonatedRanges(g) ==
    /\ g \in keys
    /\ donated' = [donated EXCEPT ![g] = EmptyRangeSet]
    /\ keys' = keys \ {g}

TrackerNext ==
    \/ \E g \in Guests, p \in Pages : AddPageToDonatedRange(g, p)
    \/ \E g \in Guests, p \in Pages : RemovePageFromDonatedRange(g, p)
    \/ \E g \in Guests : EraseDonatedRanges(g)

TrackerSpec == TrackerInit /\ [][TrackerNext]_trackerVars

-----------------------------------------------------------------------------
TrackerTypeOK ==
    /\ donated \in [Guests -> RangeSet]
    /\ keys \subseteq Guests

(***************************************************************************)
(* No two ranges of a borrower overlap.  find_page_range only looks at the *)
(* lower bound and its predecessor, and the in-place edits of start and    *)
(* count through a const_cast (lines 358, 365, 483, 509) bypass the set's  *)
(* ordering: a page in two ranges, or ranges out of order, would hide      *)
(* donated pages from every lookup.                                        *)
(***************************************************************************)
NoOverlap ==
    \A g \in Guests : \A s, t \in Starts(donated[g]) :
        s # t => Limit(donated[g], s) <= t \/ Limit(donated[g], t) <= s

(***************************************************************************)
(* page_already_donated answers exactly whether the page lies in a range   *)
(* of that borrower, for every borrower and page: the two-candidate search *)
(* of find_page_range never misses a range nor reports a wrong one.        *)
(***************************************************************************)
FindPageRangeCorrect ==
    \A g \in Guests, p \in Pages :
        LET r == FindPageRange(donated[g], p)
        IN  /\ r # End => Contains(donated[g], r, p)
            /\ (\E s \in Starts(donated[g]) : Contains(donated[g], s, p)) => r # End

(***************************************************************************)
(* What the spec promises (section 2, "Donated-Page Interval"): within one *)
(* borrower's set no two ranges are adjacent, adjacency being always       *)
(* coalesced.  add_page_to_donated_range extends one neighbour and never   *)
(* merges it with the other one (lines 441-451).                           *)
(***************************************************************************)
NoAdjacentRanges ==
    \A g \in Guests : \A s, t \in Starts(donated[g]) :
        s # t => Limit(donated[g], s) # t

=============================================================================
