------------------------- MODULE DonatedPagesProofs -------------------------
(***************************************************************************)
(* Proofs about the donated-page tracker of DonatedPages, for every number *)
(* of pages and every set of borrowers.                                    *)
(***************************************************************************)
EXTENDS DonatedPages, WellFoundedInduction, TLAPS

-----------------------------------------------------------------------------
(***************************************************************************)
(* std::set::lower_bound and std::prev are modelled by CHOOSE of a least   *)
(* and a greatest start: the sets they choose from have one.               *)
(***************************************************************************)
LEMMA NatHasLeast ==
    ASSUME NEW T \in SUBSET Nat, T # {}
    PROVE  \E x \in T : \A y \in T : x <= y
<1>1. \E x \in T : \A y \in T : ~(<<y, x>> \in OpToRel(<, Nat))
  BY NatLessThanWellFounded, WFMin
<1>2. PICK x \in T : \A y \in T : ~(<<y, x>> \in OpToRel(<, Nat))
  BY <1>1
<1>3. \A y \in T : x <= y
  <2>. TAKE y \in T
  <2>1. <<y, x>> \in Nat \X Nat
    OBVIOUS
  <2>2. ~(y < x)
    BY <1>2, <2>1, Zenon DEF OpToRel
  <2>. QED  BY <2>2
<1>. QED  BY <1>3

LEMMA BoundedNatHasGreatest ==
    ASSUME NEW T \in SUBSET Nat, T # {}, NEW B \in Nat, \A t \in T : t < B
    PROVE  \E x \in T : \A y \in T : y <= x
<1>. DEFINE U == {B - t : t \in T}
<1>1. U \in SUBSET Nat /\ U # {}
  <2>1. U \in SUBSET Nat
    OBVIOUS
  <2>2. PICK t \in T : TRUE
    OBVIOUS
  <2>3. B - t \in U
    OBVIOUS
  <2>. QED  BY <2>1, <2>3
<1>2. PICK u \in U : \A v \in U : u <= v
  BY <1>1, NatHasLeast
<1>3. PICK x \in T : u = B - x
  OBVIOUS
<1>4. \A y \in T : B - y \in U
  OBVIOUS
<1>5. \A y \in T : B - x <= B - y
  BY <1>2, <1>3, <1>4
<1>. QED  BY <1>5

\* The starts of a range set are pages.
LEMMA StartsArePages ==
    ASSUME NEW rs \in RangeSet
    PROVE  /\ Starts(rs) \subseteq Pages
           /\ \A s \in Starts(rs) : rs[s] \in 1 .. NumPages /\ s + rs[s] <= NumPages
BY NumPagesAssumption DEF Starts, RangeSet, Pages

\* Setting the counts of one or two starts keeps a range set a range set
\* when the new ranges stay inside the page space.
LEMMA SetCount ==
    ASSUME NEW rs \in RangeSet, NEW s \in Pages, NEW n \in 0 .. NumPages, s + n <= NumPages
    PROVE  [rs EXCEPT ![s] = n] \in RangeSet
BY NumPagesAssumption DEF RangeSet, Pages

LEMMA SetTwoCounts ==
    ASSUME NEW rs \in RangeSet, NEW s \in Pages, NEW t \in Pages, s # t,
           NEW n \in 0 .. NumPages, s + n <= NumPages,
           NEW m \in 0 .. NumPages, t + m <= NumPages
    PROVE  [rs EXCEPT ![s] = n, ![t] = m] \in RangeSet
BY NumPagesAssumption DEF RangeSet, Pages

\* lower_bound(p): End when no start is at or above p, the least such start
\* otherwise.
LEMMA LowerBoundSpec ==
    ASSUME NEW rs \in RangeSet, NEW p \in Nat
    PROVE  LET lb == LowerBound(rs, p)
           IN  \/ lb = End /\ \A t \in Starts(rs) : t < p
               \/ /\ lb \in Starts(rs) /\ lb >= p
                  /\ \A t \in Starts(rs) : t >= p => lb <= t
<1>. DEFINE T == {s \in Starts(rs) : s >= p}
<1>1. CASE T = {}
  BY <1>1, StartsArePages DEF LowerBound, Pages
<1>2. CASE T # {}
  <2>0. T \in SUBSET Nat
    BY StartsArePages, NumPagesAssumption DEF Pages
  <2>1. \E s \in T : \A t \in T : s <= t
    BY <1>2, <2>0, NatHasLeast
  <2>. QED  BY <2>1 DEF LowerBound
<1>. QED  BY <1>1, <1>2

\* prev(it): the greatest start below it, when there is a start below it.
LEMMA PrevSpec ==
    ASSUME NEW rs \in RangeSet, NEW it, \E s \in Starts(rs) : s < it
    PROVE  /\ Prev(rs, it) \in Starts(rs)
           /\ Prev(rs, it) < it
           /\ \A t \in Starts(rs) : t < it => t <= Prev(rs, it)
<1>. DEFINE T == {s \in Starts(rs) : s < it}
<1>1. T \in SUBSET Nat /\ T # {} /\ \A t \in T : t < NumPages
  BY StartsArePages, NumPagesAssumption DEF Pages
<1>2. \E s \in T : \A t \in T : t <= s
  BY <1>1, NumPagesAssumption, BoundedNatHasGreatest
<1>. QED  BY <1>2 DEF Prev

\* find_page_range returns End or a range that contains the page.
LEMMA FindPageRangeSound ==
    ASSUME NEW rs \in RangeSet, NEW p \in Pages
    PROVE  LET r == FindPageRange(rs, p)
           IN  r = End \/ (r \in Starts(rs) /\ Contains(rs, r, p))
<1>. DEFINE lb == LowerBound(rs, p)
<1>0. p \in Nat /\ End \notin Starts(rs)
  BY StartsArePages, NumPagesAssumption DEF Pages, End
<1>1. \/ lb = End /\ \A t \in Starts(rs) : t < p
      \/ lb \in Starts(rs) /\ lb >= p
  BY <1>0, LowerBoundSpec
<1>2. CASE Starts(rs) = {}
  BY <1>2 DEF FindPageRange
<1>3. CASE Starts(rs) # {} /\ IsBegin(rs, lb)
  BY <1>0, <1>1, <1>3 DEF FindPageRange
<1>4. CASE Starts(rs) # {} /\ ~IsBegin(rs, lb) /\ lb = End
  <2>1. \E s \in Starts(rs) : s < lb
    BY <1>4, StartsArePages, NumPagesAssumption DEF Pages, End
  <2>2. Prev(rs, lb) \in Starts(rs)
    BY <2>1, PrevSpec
  <2>. QED  BY <1>4, <2>2 DEF FindPageRange
<1>5. CASE Starts(rs) # {} /\ ~IsBegin(rs, lb) /\ lb # End
  <2>1. lb \in Starts(rs)
    BY <1>1, <1>5
  <2>2. \E s \in Starts(rs) : s < lb
    BY <1>5, <2>1, StartsArePages, NumPagesAssumption DEF IsBegin, Pages
  <2>3. Prev(rs, lb) \in Starts(rs)
    BY <2>2, PrevSpec
  <2>. QED  BY <1>5, <2>1, <2>3 DEF FindPageRange
<1>. QED  BY <1>2, <1>3, <1>4, <1>5

\* add_page_to_donated_range keeps every range inside the page space.
LEMMA AddPageType ==
    ASSUME NEW rs \in RangeSet, NEW p \in Pages
    PROVE  AddPage(rs, p) \in RangeSet
<1>. DEFINE lb == LowerBound(rs, p)
<1>0. p \in Nat /\ p + 1 <= NumPages /\ End \notin Starts(rs)
  BY StartsArePages, NumPagesAssumption DEF Pages, End
<1>1. \/ lb = End /\ \A t \in Starts(rs) : t < p
      \/ lb \in Starts(rs) /\ lb >= p
  BY <1>0, LowerBoundSpec
<1>2. Emplace(rs, p) \in RangeSet
  <2>1. CASE rs[p] = 0
    <3>. DEFINE new == [rs EXCEPT ![p] = 1]
    <3>1. new \in [Pages -> 0 .. NumPages]
      BY <1>0, NumPagesAssumption DEF RangeSet, Pages
    <3>2. \A t \in Pages : t + new[t] <= NumPages
      BY <1>0 DEF RangeSet
    <3>. QED  BY <2>1, <3>1, <3>2 DEF Emplace, RangeSet
  <2>2. CASE rs[p] # 0
    BY <2>2 DEF Emplace
  <2>. QED  BY <2>1, <2>2
<1>3. ASSUME NEW s \in Starts(rs), ContiguousBelow(rs, s, p)
      PROVE  ExtendAbove(rs, s) \in RangeSet
  <2>1. s \in Pages /\ rs[s] + 1 \in 0 .. NumPages /\ s + (rs[s] + 1) <= NumPages
    BY <1>0, <1>3, StartsArePages, NumPagesAssumption DEF ContiguousBelow, Limit, Pages
  <2>. QED  BY <2>1, SetCount DEF ExtendAbove
<1>4. ASSUME lb \in Starts(rs), ContiguousAbove(rs, lb, p)
      PROVE  ExtendBelow(rs, lb) \in RangeSet
  <2>1. /\ lb \in Pages /\ lb - 1 = p /\ lb # p
         /\ rs[lb] + 1 \in 0 .. NumPages /\ p + (rs[lb] + 1) <= NumPages
    BY <1>0, <1>4, StartsArePages, NumPagesAssumption DEF ContiguousAbove, Pages
  <2>2. lb + 0 <= NumPages
    BY <2>1, NumPagesAssumption DEF Pages
  <2>. QED  BY <2>1, <2>2, NumPagesAssumption, SetTwoCounts DEF ExtendBelow
<1>5. CASE Starts(rs) = {}
  BY <1>2, <1>5 DEF AddPage
<1>6. CASE Starts(rs) # {} /\ lb = End
  <2>1. \E s \in Starts(rs) : s < lb
    BY <1>6, StartsArePages, NumPagesAssumption DEF Pages, End
  <2>2. Prev(rs, lb) \in Starts(rs)
    BY <2>1, PrevSpec
  <2>. QED  BY <1>2, <1>3, <1>6, <2>2 DEF AddPage
<1>7. CASE Starts(rs) # {} /\ lb # End
  <2>1. lb \in Starts(rs)
    BY <1>1, <1>7
  <2>2. ~IsBegin(rs, lb) => Prev(rs, lb) \in Starts(rs)
    BY <2>1, PrevSpec, StartsArePages, NumPagesAssumption DEF IsBegin, Pages
  <2>. QED  BY <1>2, <1>3, <1>4, <1>7, <2>1, <2>2 DEF AddPage
<1>. QED  BY <1>5, <1>6, <1>7

\* remove_page_from_donated_range keeps every range inside the page space.
LEMMA RemovePageType ==
    ASSUME NEW rs \in RangeSet, NEW p \in Pages
    PROVE  RemovePage(rs, p) \in RangeSet
<1>. DEFINE r == FindPageRange(rs, p)
<1>1. r = End \/ (r \in Starts(rs) /\ Contains(rs, r, p))
  BY FindPageRangeSound
<1>2. CASE r = End
  BY <1>2 DEF RemovePage
<1>3. CASE r \in Starts(rs) /\ Contains(rs, r, p)
  <2>0. r \in Pages /\ rs[r] \in 1 .. NumPages /\ r + rs[r] <= NumPages /\ r # End
    BY <1>3, StartsArePages DEF End, Pages
  <2>1. CASE TopPage(rs, r, p)
    <3>1. [rs EXCEPT ![r] = 0] \in RangeSet
      BY <2>0, SetCount, NumPagesAssumption DEF Pages
    <3>2. [rs EXCEPT ![r] = rs[r] - 1] \in RangeSet
      BY <2>0, SetCount, NumPagesAssumption DEF Pages
    <3>. QED  BY <2>1, <2>0, <3>1, <3>2 DEF RemovePage
  <2>2. CASE ~TopPage(rs, r, p) /\ MiddlePage(rs, r, p)
    <3>1. /\ p + 1 \in Pages /\ p + 1 # r
          /\ p - r \in 0 .. NumPages /\ r + (p - r) <= NumPages
          /\ Limit(rs, r) - (p + 1) \in 0 .. NumPages
          /\ (p + 1) + (Limit(rs, r) - (p + 1)) <= NumPages
      BY <1>3, <2>0, <2>2, NumPagesAssumption DEF MiddlePage, Contains, Limit, Pages
    <3>2. [rs EXCEPT ![r] = p - r, ![p + 1] = Limit(rs, r) - (p + 1)] \in RangeSet
      BY <2>0, <3>1, SetTwoCounts
    <3>. QED  BY <2>0, <2>2, <3>2 DEF RemovePage
  <2>3. CASE ~TopPage(rs, r, p) /\ ~MiddlePage(rs, r, p) /\ BottomPage(rs, r, p)
    <3>1. [rs EXCEPT ![r] = 0] \in RangeSet
      BY <2>0, SetCount, NumPagesAssumption DEF Pages
    <3>2. rs[r] # 1 =>
            /\ r + 1 \in Pages /\ r + 1 # r
            /\ rs[r] - 1 \in 0 .. NumPages /\ (r + 1) + (rs[r] - 1) <= NumPages
      BY <2>0, NumPagesAssumption DEF Pages
    <3>3. rs[r] # 1 => [rs EXCEPT ![r] = 0, ![r + 1] = rs[r] - 1] \in RangeSet
      BY <2>0, <3>2, SetTwoCounts, NumPagesAssumption DEF Pages
    <3>. QED  BY <2>0, <2>3, <3>1, <3>3 DEF RemovePage
  <2>4. CASE ~TopPage(rs, r, p) /\ ~MiddlePage(rs, r, p) /\ ~BottomPage(rs, r, p)
    BY <2>0, <2>4 DEF RemovePage
  <2>. QED  BY <2>1, <2>2, <2>3, <2>4
<1>. QED  BY <1>1, <1>2, <1>3

-----------------------------------------------------------------------------
(***************************************************************************)
(* No overlap.  Disjoint(rs) is NoOverlap for one borrower's range set.    *)
(***************************************************************************)
Disjoint(rs) ==
    \A s, t \in Starts(rs) : s # t => Limit(rs, s) <= t \/ Limit(rs, t) <= s

\* Among disjoint ranges, the one containing p is the last start at or
\* below p.
LEMMA ContainingRangeIsLast ==
    ASSUME NEW rs \in RangeSet, Disjoint(rs), NEW p \in Pages,
           NEW s \in Starts(rs), Contains(rs, s, p),
           NEW q \in Starts(rs), s <= q, q <= p
    PROVE  q = s
BY StartsArePages DEF Disjoint, Contains, Limit, Pages

\* find_page_range finds every page of a set of disjoint ranges.
LEMMA FindPageRangeComplete ==
    ASSUME NEW rs \in RangeSet, Disjoint(rs), NEW p \in Pages,
           NEW s \in Starts(rs), Contains(rs, s, p)
    PROVE  FindPageRange(rs, p) # End
<1>. DEFINE lb == LowerBound(rs, p)
<1>0. p \in Nat /\ End \notin Starts(rs) /\ s \in Nat /\ s <= p /\ Starts(rs) # {}
  BY StartsArePages, NumPagesAssumption DEF Pages, End, Contains
<1>1. \/ lb = End /\ \A t \in Starts(rs) : t < p
      \/ /\ lb \in Starts(rs) /\ lb >= p
         /\ \A t \in Starts(rs) : t >= p => lb <= t
  BY <1>0, LowerBoundSpec
<1>2. CASE lb = End
  <2>1. ~IsBegin(rs, lb) /\ s < lb
    BY <1>0, <1>2, StartsArePages, NumPagesAssumption DEF IsBegin, Pages, End
  <2>2. /\ Prev(rs, lb) \in Starts(rs) /\ s <= Prev(rs, lb)
        /\ Prev(rs, lb) <= p
    BY <1>1, <1>2, <2>1, PrevSpec, StartsArePages, NumPagesAssumption DEF Pages, End
  <2>3. Prev(rs, lb) = s
    BY <2>2, ContainingRangeIsLast
  <2>. QED  BY <1>0, <1>2, <2>1, <2>3 DEF FindPageRange
<1>3. CASE lb # End /\ Contains(rs, lb, p)
  BY <1>0, <1>3 DEF FindPageRange
<1>4. CASE lb # End /\ ~Contains(rs, lb, p)
  <2>0. lb \in Starts(rs) /\ lb >= p /\ \A t \in Starts(rs) : t >= p => lb <= t
    BY <1>1, <1>4
  <2>1. s < lb /\ ~IsBegin(rs, lb)
    BY <1>0, <1>4, <2>0, StartsArePages, NumPagesAssumption DEF IsBegin, Pages
  <2>2. /\ Prev(rs, lb) \in Starts(rs) /\ s <= Prev(rs, lb) /\ Prev(rs, lb) < lb
    BY <2>1, PrevSpec
  <2>3. Prev(rs, lb) <= p
    BY <2>0, <2>2, StartsArePages, NumPagesAssumption DEF Pages
  <2>4. Prev(rs, lb) = s
    BY <2>2, <2>3, ContainingRangeIsLast
  <2>. QED  BY <1>0, <1>4, <2>1, <2>4 DEF FindPageRange
<1>. QED  BY <1>2, <1>3, <1>4

-----------------------------------------------------------------------------
(***************************************************************************)
(* Type correctness of the tracker: every borrower's ranges stay inside    *)
(* the page space and the keys of m_donated_page_map are borrowers, after  *)
(* any sequence of add_page_to_donated_range, remove_page_from_donated_    *)
(* range and the erase of reclaim_root_pages.                              *)
(***************************************************************************)
LEMMA TrackerTypeStep == TrackerTypeOK /\ [TrackerNext]_trackerVars => TrackerTypeOK'
  <2> SUFFICES ASSUME TrackerTypeOK, [TrackerNext]_trackerVars
               PROVE  TrackerTypeOK'
    OBVIOUS
  <2>1. ASSUME NEW g \in Guests, NEW p \in Pages, AddPageToDonatedRange(g, p)
        PROVE  TrackerTypeOK'
    BY <2>1, AddPageType DEF AddPageToDonatedRange, TrackerTypeOK
  <2>2. ASSUME NEW g \in Guests, NEW p \in Pages, RemovePageFromDonatedRange(g, p)
        PROVE  TrackerTypeOK'
    BY <2>2, RemovePageType DEF RemovePageFromDonatedRange, TrackerTypeOK
  <2>3. ASSUME NEW g \in Guests, EraseDonatedRanges(g)
        PROVE  TrackerTypeOK'
    BY <2>3, NumPagesAssumption DEF EraseDonatedRanges, TrackerTypeOK, EmptyRangeSet, RangeSet, Pages
  <2>4. CASE UNCHANGED trackerVars
    BY <2>4 DEF trackerVars, TrackerTypeOK
  <2>. QED  BY <2>1, <2>2, <2>3, <2>4 DEF TrackerNext

THEOREM TrackerTypeCorrect == TrackerSpec => []TrackerTypeOK
<1>1. TrackerInit => TrackerTypeOK
  BY NumPagesAssumption DEF TrackerInit, TrackerTypeOK, EmptyRangeSet, RangeSet, Pages
<1>. QED  BY <1>1, TrackerTypeStep, PTL DEF TrackerSpec

-----------------------------------------------------------------------------
(***************************************************************************)
(* Each way add_page_to_donated_range changes a range set keeps the ranges *)
(* disjoint when the page is in none of them, which is what the callers'   *)
(* check page_already_donated(guest, p) establishes.                       *)
(***************************************************************************)
NotDonated(rs, p) == \A s \in Starts(rs) : ~Contains(rs, s, p)

\* A page in no range starts none.
LEMMA NotDonatedNoStart ==
    ASSUME NEW rs \in RangeSet, NEW p \in Pages, NotDonated(rs, p)
    PROVE  rs[p] = 0
<1>. SUFFICES ASSUME rs[p] # 0 PROVE FALSE
  OBVIOUS
<1>1. rs[p] \in 1 .. NumPages
  BY DEF RangeSet
<1>2. p \in Starts(rs)
  BY <1>1 DEF Starts
<1>3. Contains(rs, p, p)
  BY <1>1, NumPagesAssumption DEF Contains, Limit, Pages
<1>. QED  BY <1>2, <1>3 DEF NotDonated

LEMMA EmplaceDisjoint ==
    ASSUME NEW rs \in RangeSet, Disjoint(rs), NEW p \in Pages, NotDonated(rs, p)
    PROVE  Disjoint(Emplace(rs, p))
<1>1. rs[p] = 0
  BY NotDonatedNoStart
<1>. DEFINE new == [rs EXCEPT ![p] = 1]
<1>2. Starts(new) = Starts(rs) \cup {p} /\ Limit(new, p) = p + 1
  BY <1>1 DEF Starts, Limit, RangeSet, Pages
<1>3. \A t \in Starts(rs) : t # p /\ Limit(new, t) = Limit(rs, t)
                             /\ (p + 1 <= t \/ Limit(rs, t) <= p)
  BY <1>1, StartsArePages, NumPagesAssumption DEF NotDonated, Starts, Contains, Limit, RangeSet, Pages
<1>4. Emplace(rs, p) = new
  BY <1>1 DEF Emplace
<1>5. ASSUME NEW s \in Starts(new), NEW t \in Starts(new), s # t
      PROVE  Limit(new, s) <= t \/ Limit(new, t) <= s
  <2>1. CASE s = p
    BY <1>2, <1>3, <1>5, <2>1
  <2>2. CASE t = p
    BY <1>2, <1>3, <1>5, <2>2
  <2>3. CASE s # p /\ t # p
    BY <1>2, <1>3, <1>5, <2>3 DEF Disjoint
  <2>. QED  BY <2>1, <2>2, <2>3
<1>. QED  BY <1>4, <1>5 DEF Disjoint

LEMMA ExtendAboveDisjoint ==
    ASSUME NEW rs \in RangeSet, Disjoint(rs), NEW p \in Pages, NotDonated(rs, p),
           NEW s \in Starts(rs), ContiguousBelow(rs, s, p)
    PROVE  Disjoint(ExtendAbove(rs, s))
<1>. DEFINE new == [rs EXCEPT ![s] = rs[s] + 1]
<1>0. s \in Pages /\ rs[s] \in Nat
  BY StartsArePages, NumPagesAssumption DEF Pages
<1>1. Starts(new) = Starts(rs) /\ Limit(new, s) = p + 1
  BY <1>0 DEF Starts, Limit, ContiguousBelow, RangeSet, Pages
<1>2. \A t \in Starts(rs) \ {s} : Limit(new, t) = Limit(rs, t)
                                  /\ (p + 1 <= t \/ Limit(rs, t) <= s)
  BY <1>0, StartsArePages, NumPagesAssumption
     DEF NotDonated, Disjoint, Starts, Contains, ContiguousBelow, Limit, RangeSet, Pages
<1>. QED  BY <1>1, <1>2 DEF Disjoint, ExtendAbove

LEMMA ExtendBelowDisjoint ==
    ASSUME NEW rs \in RangeSet, Disjoint(rs), NEW p \in Pages, NotDonated(rs, p),
           NEW s \in Starts(rs), ContiguousAbove(rs, s, p)
    PROVE  Disjoint(ExtendBelow(rs, s))
<1>. DEFINE new == [rs EXCEPT ![s] = 0, ![s - 1] = rs[s] + 1]
<1>0. s \in Pages /\ s = p + 1 /\ rs[s] \in Nat /\ rs[p] = 0
  BY StartsArePages, NotDonatedNoStart, NumPagesAssumption DEF ContiguousAbove, Pages
<1>1. Starts(new) = (Starts(rs) \ {s}) \cup {p} /\ Limit(new, p) = Limit(rs, s)
  BY <1>0 DEF Starts, Limit, RangeSet, Pages
<1>2. \A t \in Starts(rs) \ {s} : /\ t # p /\ Limit(new, t) = Limit(rs, t)
                                  /\ (Limit(rs, s) <= t \/ Limit(rs, t) <= p)
  BY <1>0, StartsArePages, NumPagesAssumption
     DEF NotDonated, Disjoint, Starts, Contains, Limit, RangeSet, Pages
<1>. QED  BY <1>1, <1>2 DEF Disjoint, ExtendBelow

\* The three ways of adding a page, in the order of the code's branches.
LEMMA AddPageDisjoint ==
    ASSUME NEW rs \in RangeSet, Disjoint(rs), NEW p \in Pages, NotDonated(rs, p)
    PROVE  Disjoint(AddPage(rs, p))
<1>. DEFINE lb == LowerBound(rs, p)
<1>0. p \in Nat /\ End \notin Starts(rs)
  BY StartsArePages, NumPagesAssumption DEF Pages, End
<1>1. \/ lb = End /\ \A t \in Starts(rs) : t < p
      \/ lb \in Starts(rs) /\ lb >= p
  BY <1>0, LowerBoundSpec
<1>2. Disjoint(Emplace(rs, p))
  BY EmplaceDisjoint
<1>3. \A s \in Starts(rs) : ContiguousBelow(rs, s, p) => Disjoint(ExtendAbove(rs, s))
  BY ExtendAboveDisjoint
<1>4. lb \in Starts(rs) /\ ContiguousAbove(rs, lb, p) => Disjoint(ExtendBelow(rs, lb))
  BY ExtendBelowDisjoint
<1>5. CASE Starts(rs) = {}
  BY <1>2, <1>5 DEF AddPage
<1>6. CASE Starts(rs) # {} /\ lb = End
  <2>1. \E s \in Starts(rs) : s < lb
    BY <1>6, StartsArePages, NumPagesAssumption DEF Pages, End
  <2>2. Prev(rs, lb) \in Starts(rs)
    BY <2>1, PrevSpec
  <2>. QED  BY <1>2, <1>3, <1>6, <2>2 DEF AddPage
<1>7. CASE Starts(rs) # {} /\ lb # End
  <2>1. lb \in Starts(rs)
    BY <1>1, <1>7
  <2>2. ~IsBegin(rs, lb) => Prev(rs, lb) \in Starts(rs)
    BY <2>1, PrevSpec, StartsArePages, NumPagesAssumption DEF IsBegin, Pages
  <2>. QED  BY <1>2, <1>3, <1>4, <1>7, <2>1, <2>2 DEF AddPage
<1>. QED  BY <1>5, <1>6, <1>7

-----------------------------------------------------------------------------
(***************************************************************************)
(* remove_page_from_donated_range shrinks a range (top page, bottom page   *)
(* of a one-page range) or replaces it by two ranges inside it (middle     *)
(* page; bottom page, as an erased range and a range one page above).      *)
(***************************************************************************)
\* No range starts strictly inside another one.
LEMMA InsideNoStart ==
    ASSUME NEW rs \in RangeSet, Disjoint(rs), NEW r \in Starts(rs),
           NEW q \in Pages, r < q, q < Limit(rs, r)
    PROVE  rs[q] = 0
<1>. SUFFICES ASSUME rs[q] # 0 PROVE FALSE
  OBVIOUS
<1>1. q \in Starts(rs) /\ rs[q] \in 1 .. NumPages
  BY DEF Starts, RangeSet
<1>. QED  BY <1>1, StartsArePages, NumPagesAssumption DEF Disjoint, Limit, Pages

LEMMA ShrinkDisjoint ==
    ASSUME NEW rs \in RangeSet, Disjoint(rs), NEW r \in Starts(rs),
           NEW n \in Nat, n <= rs[r]
    PROVE  Disjoint([rs EXCEPT ![r] = n])
<1>. DEFINE new == [rs EXCEPT ![r] = n]
<1>0. r \in Pages
  BY StartsArePages
<1>1. Starts(new) \subseteq Starts(rs)
  BY <1>0 DEF Starts, RangeSet, Pages
<1>2. \A t \in Starts(new) : (Limit(new, t) <= Limit(rs, t) /\ new[t] = rs[t]) \/ t = r
  BY <1>0 DEF Starts, Limit, RangeSet, Pages
<1>3. Limit(new, r) <= Limit(rs, r)
  BY <1>0, StartsArePages, NumPagesAssumption DEF Limit, Pages
<1>. QED  BY <1>1, <1>2, <1>3, StartsArePages, NumPagesAssumption DEF Disjoint, Limit, Pages

LEMMA SplitDisjoint ==
    ASSUME NEW rs \in RangeSet, Disjoint(rs), NEW r \in Starts(rs),
           NEW q \in Pages, r < q, NEW n \in Nat, r + n <= q,
           NEW m \in Nat \ {0}, q + m <= Limit(rs, r)
    PROVE  Disjoint([rs EXCEPT ![r] = n, ![q] = m])
<1>. DEFINE new == [rs EXCEPT ![r] = n, ![q] = m]
<1>0. r \in Pages /\ rs[r] \in 1 .. NumPages /\ q < Limit(rs, r) /\ q # r
  BY StartsArePages, NumPagesAssumption DEF Limit, Pages
<1>1. rs[q] = 0
  BY <1>0, InsideNoStart
<1>2. Starts(new) \subseteq Starts(rs) \cup {q}
  BY <1>0 DEF Starts, RangeSet, Pages
<1>3. \A t \in Starts(new) \ {r, q} : t \in Starts(rs) /\ Limit(new, t) = Limit(rs, t)
  BY <1>0, <1>2 DEF Starts, Limit, RangeSet, Pages
<1>4. Limit(new, r) <= q /\ Limit(new, q) <= Limit(rs, r)
  BY <1>0 DEF Limit, RangeSet, Pages
<1>5. ASSUME NEW t \in Starts(new) \ {r, q}, NEW x \in {r, q}
      PROVE  Limit(new, x) <= t \/ Limit(new, t) <= x
  <2>1. Limit(rs, r) <= t \/ Limit(rs, t) <= r
    BY <1>3 DEF Disjoint
  <2>0. t \in Starts(rs) /\ Limit(new, t) = Limit(rs, t)
    BY <1>3
  <2>2. /\ t \in Nat /\ r \in Nat /\ q \in Nat
        /\ Limit(rs, t) \in Nat /\ Limit(rs, r) \in Nat
    BY <1>0, <2>0, StartsArePages, NumPagesAssumption DEF Limit, Pages
  <2>3. Limit(new, r) \in Nat /\ Limit(new, q) \in Nat
    BY <1>0 DEF Limit, RangeSet, Pages
  <2>4. CASE x = r
    BY <1>0, <1>4, <2>0, <2>1, <2>2, <2>3, <2>4
  <2>5. CASE x = q
    BY <1>0, <1>4, <2>0, <2>1, <2>2, <2>3, <2>5
  <2>. QED  BY <2>4, <2>5
<1>6. ASSUME NEW a \in Starts(new) \ {r, q}, NEW b \in Starts(new) \ {r, q}, a # b
      PROVE  Limit(new, a) <= b \/ Limit(new, b) <= a
  BY <1>3, <1>6 DEF Disjoint
<1>. QED  BY <1>4, <1>5, <1>6, StartsArePages, NumPagesAssumption DEF Disjoint, Pages

LEMMA RemovePageDisjoint ==
    ASSUME NEW rs \in RangeSet, Disjoint(rs), NEW p \in Pages
    PROVE  Disjoint(RemovePage(rs, p))
<1>. DEFINE r == FindPageRange(rs, p)
<1>1. r = End \/ (r \in Starts(rs) /\ Contains(rs, r, p))
  BY FindPageRangeSound
<1>2. CASE r = End
  BY <1>2 DEF RemovePage
<1>3. CASE r \in Starts(rs) /\ Contains(rs, r, p)
  <2>0. /\ r \in Pages /\ r \in Nat /\ p \in Nat /\ r # End
        /\ rs[r] \in 1 .. NumPages /\ r + rs[r] <= NumPages
        /\ r <= p /\ p < Limit(rs, r)
    BY <1>3, StartsArePages, NumPagesAssumption DEF Contains, End, Pages
  <2>1. Disjoint([rs EXCEPT ![r] = 0]) /\ Disjoint([rs EXCEPT ![r] = rs[r] - 1])
    <3>1. 0 \in Nat /\ 0 <= rs[r] /\ rs[r] - 1 \in Nat /\ rs[r] - 1 <= rs[r]
      BY <2>0, NumPagesAssumption
    <3>. QED  BY <1>3, <3>1, ShrinkDisjoint
  <2>2. CASE TopPage(rs, r, p)
    BY <2>0, <2>1, <2>2 DEF RemovePage
  <2>3. CASE ~TopPage(rs, r, p) /\ MiddlePage(rs, r, p)
    <3>1. /\ p + 1 \in Pages /\ r < p + 1
          /\ p - r \in Nat /\ r + (p - r) <= p + 1
          /\ Limit(rs, r) - (p + 1) \in Nat \ {0}
          /\ (p + 1) + (Limit(rs, r) - (p + 1)) <= Limit(rs, r)
      BY <2>0, <2>3, NumPagesAssumption DEF MiddlePage, Limit, Pages
    <3>2. Disjoint([rs EXCEPT ![r] = p - r, ![p + 1] = Limit(rs, r) - (p + 1)])
      BY <1>3, <3>1, SplitDisjoint
    <3>. QED  BY <2>0, <2>3, <3>2 DEF RemovePage
  <2>4. CASE ~TopPage(rs, r, p) /\ ~MiddlePage(rs, r, p) /\ BottomPage(rs, r, p)
    <3>1. rs[r] # 1 =>
            /\ r + 1 \in Pages /\ r < r + 1 /\ r + 0 <= r + 1
            /\ rs[r] - 1 \in Nat \ {0} /\ (r + 1) + (rs[r] - 1) <= Limit(rs, r)
      BY <2>0, NumPagesAssumption DEF Limit, Pages
    <3>2. rs[r] # 1 => Disjoint([rs EXCEPT ![r] = 0, ![r + 1] = rs[r] - 1])
      BY <1>3, <3>1, SplitDisjoint
    <3>. QED  BY <2>0, <2>1, <2>4, <3>2 DEF RemovePage
  <2>5. CASE ~TopPage(rs, r, p) /\ ~MiddlePage(rs, r, p) /\ ~BottomPage(rs, r, p)
    BY <2>0, <2>5 DEF RemovePage
  <2>. QED  BY <2>2, <2>3, <2>4, <2>5
<1>. QED  BY <1>1, <1>2, <1>3

-----------------------------------------------------------------------------
\* The inductive invariant: type correctness and disjointness together.
\* A borrower without an entry in m_donated_page_map has no ranges.
KeysCoverRanges == \A g \in Guests \ keys : donated[g] = EmptyRangeSet

TrackerInv == TrackerTypeOK /\ KeysCoverRanges /\ NoOverlap

LEMMA NoOverlapIsDisjoint ==
    NoOverlap <=> \A g \in Guests : Disjoint(donated[g])
BY DEF NoOverlap, Disjoint

\* TrackerInv holds in every reachable state of the tracker.
LEMMA TrackerInvariant == TrackerSpec => []TrackerInv
<1>1. TrackerInit => TrackerInv
  BY NumPagesAssumption
     DEF TrackerInit, TrackerInv, TrackerTypeOK, KeysCoverRanges, NoOverlap, EmptyRangeSet,
         RangeSet, Starts, Pages
<1>2. TrackerInv /\ [TrackerNext]_trackerVars => TrackerInv'
  <2> SUFFICES ASSUME TrackerInv, [TrackerNext]_trackerVars
               PROVE  TrackerInv'
    OBVIOUS
  <2>0. TrackerTypeOK'
    BY TrackerTypeStep DEF TrackerInv
  <2>6. KeysCoverRanges'
    <3>1. ASSUME NEW g \in Guests, NEW p \in Pages, AddPageToDonatedRange(g, p)
          PROVE  KeysCoverRanges'
      BY <3>1 DEF TrackerInv, TrackerTypeOK, KeysCoverRanges, AddPageToDonatedRange
    <3>2. ASSUME NEW g \in Guests, NEW p \in Pages, RemovePageFromDonatedRange(g, p)
          PROVE  KeysCoverRanges'
      BY <3>2 DEF TrackerInv, TrackerTypeOK, KeysCoverRanges, RemovePageFromDonatedRange
    <3>3. ASSUME NEW g \in Guests, EraseDonatedRanges(g)
          PROVE  KeysCoverRanges'
      BY <3>3 DEF TrackerInv, TrackerTypeOK, KeysCoverRanges, EraseDonatedRanges
    <3>4. CASE UNCHANGED trackerVars
      BY <3>4 DEF TrackerInv, KeysCoverRanges, trackerVars
    <3>. QED  BY <3>1, <3>2, <3>3, <3>4 DEF TrackerNext
  <2>1. \A g \in Guests : donated[g] \in RangeSet /\ Disjoint(donated[g])
    BY NoOverlapIsDisjoint DEF TrackerInv, TrackerTypeOK
  <2>2. ASSUME NEW g \in Guests, NEW p \in Pages, AddPageToDonatedRange(g, p)
        PROVE  \A h \in Guests : Disjoint(donated'[h])
    <3>1. NotDonated(donated[g], p)
      <4>. SUFFICES ASSUME NEW s \in Starts(donated[g]), Contains(donated[g], s, p)
                    PROVE  FALSE
        BY DEF NotDonated
      <4>1. FindPageRange(donated[g], p) # End
        BY <2>1, FindPageRangeComplete
      <4>2. g \notin keys
        BY <2>2, <4>1 DEF AddPageToDonatedRange, PageAlreadyDonated
      <4>3. donated[g] = EmptyRangeSet
        BY <4>2 DEF TrackerInv, KeysCoverRanges
      <4>. QED  BY <4>3 DEF EmptyRangeSet, Starts
    <3>2. Disjoint(AddPage(donated[g], p))
      BY <2>1, <3>1, AddPageDisjoint
    <3>. QED  BY <2>1, <2>2, <3>2 DEF AddPageToDonatedRange
  <2>3. ASSUME NEW g \in Guests, NEW p \in Pages, RemovePageFromDonatedRange(g, p)
        PROVE  \A h \in Guests : Disjoint(donated'[h])
    BY <2>1, <2>3, RemovePageDisjoint DEF RemovePageFromDonatedRange
  <2>4. ASSUME NEW g \in Guests, EraseDonatedRanges(g)
        PROVE  \A h \in Guests : Disjoint(donated'[h])
    BY <2>1, <2>4 DEF EraseDonatedRanges, Disjoint, EmptyRangeSet, Starts
  <2>5. ASSUME UNCHANGED trackerVars
        PROVE  \A h \in Guests : Disjoint(donated'[h])
    BY <2>1, <2>5 DEF trackerVars
  <2>7. \A h \in Guests : Disjoint(donated'[h])
    BY <2>2, <2>3, <2>4, <2>5 DEF TrackerNext
  <2>. QED  BY <2>0, <2>6, <2>7 DEF TrackerInv, NoOverlap, Disjoint
<1>. QED  BY <1>1, <1>2, PTL DEF TrackerSpec

(***************************************************************************)
(* No two ranges of a borrower overlap, after any sequence of calls that   *)
(* honours the contract of add_page_to_donated_range (the page is not yet  *)
(* donated to that borrower): neither the one-neighbour extensions nor the *)
(* in-place edits through const_cast (lines 356-369, 483, 509) nor the     *)
(* split of a range (lines 491-500) ever make two ranges share a page.     *)
(***************************************************************************)
THEOREM TrackerNoOverlap == TrackerSpec => []NoOverlap
<1>1. TrackerInv => NoOverlap
  BY DEF TrackerInv
<1>. QED  BY <1>1, TrackerInvariant, PTL

(***************************************************************************)
(* page_already_donated(guest, p) is exact in every reachable state:       *)
(* find_page_range, which inspects only the lower bound of p and its       *)
(* predecessor (lines 331-354), returns a range containing p whenever one  *)
(* exists and only then.                                                   *)
(***************************************************************************)
THEOREM TrackerFindPageRangeCorrect == TrackerSpec => []FindPageRangeCorrect
<1>1. TrackerInv => FindPageRangeCorrect
  <2>. SUFFICES ASSUME TrackerInv, NEW g \in Guests, NEW p \in Pages
                PROVE  LET r == FindPageRange(donated[g], p)
                       IN  /\ r # End => Contains(donated[g], r, p)
                           /\ (\E s \in Starts(donated[g]) : Contains(donated[g], s, p)) => r # End
    BY DEF FindPageRangeCorrect
  <2>1. donated[g] \in RangeSet /\ Disjoint(donated[g])
    BY NoOverlapIsDisjoint DEF TrackerInv, TrackerTypeOK
  <2>2. FindPageRange(donated[g], p) # End => Contains(donated[g], FindPageRange(donated[g], p), p)
    BY <2>1, FindPageRangeSound
  <2>3. (\E s \in Starts(donated[g]) : Contains(donated[g], s, p)) => FindPageRange(donated[g], p) # End
    BY <2>1, FindPageRangeComplete
  <2>. QED  BY <2>2, <2>3
<1>. QED  BY <1>1, TrackerInvariant, PTL

-----------------------------------------------------------------------------
(***************************************************************************)
(* What the tracker's edits do to the set of donated pages: adding a page  *)
(* not yet donated adds exactly that page, and removing a page from        *)
(* disjoint ranges takes exactly that page out, whichever branch of        *)
(* add_page_to_donated_range or remove_page_from_donated_range runs.       *)
(***************************************************************************)
\* Some range starting in T covers page x.
Covers(f, T, x) == \E t \in T : f[t] > 0 /\ t <= x /\ x < t + f[t]

\* The pages of a range set, split by the starts in S and the others.
LEMMA PagesOfSplit ==
    ASSUME NEW f, NEW S \in SUBSET Pages, NEW x
    PROVE  x \in PagesOf(f) <=> x \in Pages /\ (Covers(f, Pages \ S, x) \/ Covers(f, S, x))
BY DEF PagesOf, Starts, Contains, Limit, Covers

\* Ranges whose counts an edit leaves alone cover the same pages.
LEMMA CoversFrame ==
    ASSUME NEW f, NEW g, NEW T, \A t \in T : f[t] = g[t], NEW x
    PROVE  Covers(f, T, x) <=> Covers(g, T, x)
BY DEF Covers

\* An edit of the counts at the starts in S, for a page x no other range
\* covers, changes x's membership only through those starts.
LEMMA PagesOfEdit ==
    ASSUME NEW rs \in RangeSet, NEW new \in [Pages -> Nat], NEW S \in SUBSET Pages,
           \A t \in Pages \ S : new[t] = rs[t], NEW x \in Pages
    PROVE  /\ x \in PagesOf(new) <=> Covers(rs, Pages \ S, x) \/ Covers(new, S, x)
           /\ x \in PagesOf(rs) <=> Covers(rs, Pages \ S, x) \/ Covers(rs, S, x)
<1>1. Covers(new, Pages \ S, x) <=> Covers(rs, Pages \ S, x)
  BY CoversFrame
<1>. QED  BY <1>1, PagesOfSplit

LEMMA PagesOfSubset ==
    ASSUME NEW f
    PROVE  PagesOf(f) \subseteq Pages
BY DEF PagesOf

LEMMA EmplacePages ==
    ASSUME NEW rs \in RangeSet, NEW p \in Pages, NotDonated(rs, p)
    PROVE  PagesOf(Emplace(rs, p)) = PagesOf(rs) \cup {p}
<1>1. rs[p] = 0
  BY NotDonatedNoStart
<1>. DEFINE new == [rs EXCEPT ![p] = 1]
<1>2. Emplace(rs, p) = new /\ new \in [Pages -> Nat]
      /\ \A t \in Pages \ {p} : new[t] = rs[t]
  BY <1>1 DEF Emplace, RangeSet
<1>. SUFFICES ASSUME NEW x \in Pages
              PROVE  x \in PagesOf(new) <=> x \in PagesOf(rs) \/ x = p
  BY <1>2, PagesOfSubset
<1>3. /\ x \in PagesOf(new) <=> Covers(rs, Pages \ {p}, x) \/ Covers(new, {p}, x)
      /\ x \in PagesOf(rs) <=> Covers(rs, Pages \ {p}, x) \/ Covers(rs, {p}, x)
  BY <1>2, PagesOfEdit
<1>4. (Covers(new, {p}, x) <=> x = p) /\ ~Covers(rs, {p}, x)
  BY <1>1 DEF Covers, RangeSet, Pages
<1>. QED  BY <1>3, <1>4

LEMMA ExtendAbovePages ==
    ASSUME NEW rs \in RangeSet, NEW p \in Pages,
           NEW s \in Starts(rs), ContiguousBelow(rs, s, p)
    PROVE  PagesOf(ExtendAbove(rs, s)) = PagesOf(rs) \cup {p}
<1>. DEFINE new == [rs EXCEPT ![s] = rs[s] + 1]
<1>0. s \in Pages /\ rs[s] \in 1 .. NumPages /\ s + rs[s] = p
  BY StartsArePages DEF ContiguousBelow, Limit
<1>1. new \in [Pages -> Nat] /\ \A t \in Pages \ {s} : new[t] = rs[t]
  BY <1>0 DEF RangeSet
<1>. SUFFICES ASSUME NEW x \in Pages
              PROVE  x \in PagesOf(new) <=> x \in PagesOf(rs) \/ x = p
  BY PagesOfSubset DEF ExtendAbove
<1>2. /\ x \in PagesOf(new) <=> Covers(rs, Pages \ {s}, x) \/ Covers(new, {s}, x)
      /\ x \in PagesOf(rs) <=> Covers(rs, Pages \ {s}, x) \/ Covers(rs, {s}, x)
  BY <1>0, <1>1, PagesOfEdit
<1>3. /\ Covers(new, {s}, x) <=> s <= x /\ x < p + 1
      /\ Covers(rs, {s}, x) <=> s <= x /\ x < p
  BY <1>0 DEF Covers, RangeSet, Pages
<1>. QED  BY <1>0, <1>2, <1>3 DEF Pages

LEMMA ExtendBelowPages ==
    ASSUME NEW rs \in RangeSet, NEW p \in Pages, NotDonated(rs, p),
           NEW s \in Starts(rs), ContiguousAbove(rs, s, p)
    PROVE  PagesOf(ExtendBelow(rs, s)) = PagesOf(rs) \cup {p}
<1>. DEFINE new == [rs EXCEPT ![s] = 0, ![s - 1] = rs[s] + 1]
<1>0. s \in Pages /\ s = p + 1 /\ rs[s] \in 1 .. NumPages /\ rs[p] = 0
  BY StartsArePages, NotDonatedNoStart DEF ContiguousAbove, Pages
<1>1. /\ new \in [Pages -> Nat] /\ \A t \in Pages \ {s, p} : new[t] = rs[t]
      /\ new[s] = 0 /\ new[p] = rs[s] + 1
  <2>1. rs \in [Pages -> Nat] /\ p \in Pages /\ s # p /\ s - 1 = p
    BY <1>0 DEF RangeSet
  <2>. QED  BY <1>0, <2>1
<1>. SUFFICES ASSUME NEW x \in Pages
              PROVE  x \in PagesOf(new) <=> x \in PagesOf(rs) \/ x = p
  BY PagesOfSubset DEF ExtendBelow
<1>4. {s, p} \in SUBSET Pages
  BY <1>0
<1>2. /\ x \in PagesOf(new) <=> Covers(rs, Pages \ {s, p}, x) \/ Covers(new, {s, p}, x)
      /\ x \in PagesOf(rs) <=> Covers(rs, Pages \ {s, p}, x) \/ Covers(rs, {s, p}, x)
  BY <1>1, <1>4, PagesOfEdit
<1>3. /\ Covers(new, {s, p}, x) <=> p <= x /\ x < s + rs[s]
      /\ Covers(rs, {s, p}, x) <=> s <= x /\ x < s + rs[s]
  BY <1>0, <1>1 DEF Covers, Pages
<1>. QED  BY <1>0, <1>2, <1>3 DEF Pages

\* add_page_to_donated_range(guest, p), called when p is not donated to
\* guest, makes the guest's pages its old pages and p.
LEMMA AddPagePages ==
    ASSUME NEW rs \in RangeSet, NEW p \in Pages, NotDonated(rs, p)
    PROVE  PagesOf(AddPage(rs, p)) = PagesOf(rs) \cup {p}
<1>. DEFINE lb == LowerBound(rs, p)
<1>0. p \in Nat /\ End \notin Starts(rs)
  BY StartsArePages, NumPagesAssumption DEF Pages, End
<1>1. \/ lb = End /\ \A t \in Starts(rs) : t < p
      \/ lb \in Starts(rs) /\ lb >= p
  BY <1>0, LowerBoundSpec
<1>2. PagesOf(Emplace(rs, p)) = PagesOf(rs) \cup {p}
  BY EmplacePages
<1>3. \A s \in Starts(rs) : ContiguousBelow(rs, s, p)
        => PagesOf(ExtendAbove(rs, s)) = PagesOf(rs) \cup {p}
  BY ExtendAbovePages
<1>4. lb \in Starts(rs) /\ ContiguousAbove(rs, lb, p)
        => PagesOf(ExtendBelow(rs, lb)) = PagesOf(rs) \cup {p}
  BY ExtendBelowPages
<1>5. CASE Starts(rs) = {}
  BY <1>2, <1>5 DEF AddPage
<1>6. CASE Starts(rs) # {} /\ lb = End
  <2>1. \E s \in Starts(rs) : s < lb
    BY <1>6, StartsArePages, NumPagesAssumption DEF Pages, End
  <2>2. Prev(rs, lb) \in Starts(rs)
    BY <2>1, PrevSpec
  <2>. QED  BY <1>2, <1>3, <1>6, <2>2 DEF AddPage
<1>7. CASE Starts(rs) # {} /\ lb # End
  <2>1. lb \in Starts(rs)
    BY <1>1, <1>7
  <2>2. ~IsBegin(rs, lb) => Prev(rs, lb) \in Starts(rs)
    BY <2>1, PrevSpec, StartsArePages, NumPagesAssumption DEF IsBegin, Pages
  <2>. QED  BY <1>2, <1>3, <1>4, <1>7, <2>1, <2>2 DEF AddPage
<1>. QED  BY <1>5, <1>6, <1>7


\* Among disjoint ranges, no range but r's covers a page of r's range.
LEMMA OthersMissRange ==
    ASSUME NEW rs \in RangeSet, Disjoint(rs), NEW r \in Starts(rs),
           NEW x \in Pages, r <= x, x < Limit(rs, r), NEW T \in SUBSET (Pages \ {r})
    PROVE  ~Covers(rs, T, x)
<1>. SUFFICES ASSUME NEW t \in T, rs[t] > 0, t <= x, x < t + rs[t] PROVE FALSE
  BY DEF Covers
<1>1. t \in Starts(rs) /\ t # r
  BY DEF Starts
<1>2. Limit(rs, t) <= r \/ Limit(rs, r) <= t
  BY <1>1 DEF Disjoint
<1>. QED  BY <1>1, <1>2, StartsArePages DEF Limit, Pages

\* remove_page_from_donated_range(guest, p) takes exactly p out of the
\* guest's pages when its ranges are disjoint.
LEMMA RemovePagePages ==
    ASSUME NEW rs \in RangeSet, Disjoint(rs), NEW p \in Pages
    PROVE  PagesOf(RemovePage(rs, p)) = PagesOf(rs) \ {p}
<1>. DEFINE r == FindPageRange(rs, p)
<1>1. r = End \/ (r \in Starts(rs) /\ Contains(rs, r, p))
  BY FindPageRangeSound
<1>2. CASE r = End
  <2>1. p \notin PagesOf(rs)
    BY <1>2, FindPageRangeComplete DEF PagesOf
  <2>. QED  BY <1>2, <2>1 DEF RemovePage
<1>3. CASE r \in Starts(rs) /\ Contains(rs, r, p)
  <2>0. /\ r \in Pages /\ r # End
        /\ rs[r] \in 1 .. NumPages /\ r + rs[r] <= NumPages
        /\ r <= p /\ p < Limit(rs, r)
    BY <1>3, StartsArePages, NumPagesAssumption DEF Contains, End, Pages
  <2>. SUFFICES ASSUME NEW x \in Pages
                PROVE  x \in PagesOf(RemovePage(rs, p)) <=> x \in PagesOf(rs) /\ x # p
    BY PagesOfSubset
  <2>1. ~Covers(rs, Pages \ {r}, p) /\ ~Covers(rs, Pages \ {r, p + 1}, p)
        /\ ~Covers(rs, Pages \ {r, r + 1}, p)
    BY <1>3, <2>0, OthersMissRange
  <2>2. CASE TopPage(rs, r, p)
    <3>. DEFINE new == [rs EXCEPT ![r] = rs[r] - 1]
    <3>1. RemovePage(rs, p) = new
      <4>1. RemovePage(rs, p) = IF rs[r] = 1 THEN [rs EXCEPT ![r] = 0]
                                ELSE [rs EXCEPT ![r] = rs[r] - 1]
        BY <2>0, <2>2 DEF RemovePage
      <4>2. rs[r] = 1 => [rs EXCEPT ![r] = 0] = new
        OBVIOUS
      <4>. QED  BY <4>1, <4>2
    <3>2. new \in [Pages -> Nat] /\ \A t \in Pages \ {r} : new[t] = rs[t]
      BY <2>0 DEF RangeSet
    <3>3. /\ x \in PagesOf(new) <=> Covers(rs, Pages \ {r}, x) \/ Covers(new, {r}, x)
          /\ x \in PagesOf(rs) <=> Covers(rs, Pages \ {r}, x) \/ Covers(rs, {r}, x)
      BY <2>0, <3>2, PagesOfEdit
    <3>4. /\ Covers(new, {r}, x) <=> r <= x /\ x < p
          /\ Covers(rs, {r}, x) <=> r <= x /\ x < p + 1
      BY <2>0, <2>2 DEF Covers, TopPage, Limit, RangeSet, Pages
    <3>. QED  BY <2>0, <2>1, <3>1, <3>3, <3>4 DEF Pages
  <2>3. CASE ~TopPage(rs, r, p) /\ MiddlePage(rs, r, p)
    <3>. DEFINE new == [rs EXCEPT ![r] = p - r, ![p + 1] = Limit(rs, r) - (p + 1)]
    <3>0. p + 1 \in Pages /\ r < p + 1 /\ p + 1 < Limit(rs, r)
      BY <2>0, <2>3, NumPagesAssumption DEF MiddlePage, Limit, Pages
    <3>1. RemovePage(rs, p) = new
      BY <2>0, <2>3 DEF RemovePage
    <3>2. rs[p + 1] = 0
      BY <1>3, <3>0, InsideNoStart
    <3>3. /\ new \in [Pages -> Nat] /\ \A t \in Pages \ {r, p + 1} : new[t] = rs[t]
          /\ new[r] = p - r /\ new[p + 1] = Limit(rs, r) - (p + 1)
      <4>1. /\ rs \in [Pages -> Nat] /\ r # p + 1
            /\ p - r \in Nat /\ Limit(rs, r) - (p + 1) \in Nat
        BY <2>0, <3>0 DEF RangeSet, Limit, Pages
      <4>. QED  BY <2>0, <3>0, <4>1
    <3>4. /\ x \in PagesOf(new) <=> Covers(rs, Pages \ {r, p + 1}, x) \/ Covers(new, {r, p + 1}, x)
          /\ x \in PagesOf(rs) <=> Covers(rs, Pages \ {r, p + 1}, x) \/ Covers(rs, {r, p + 1}, x)
      BY <2>0, <3>0, <3>3, PagesOfEdit
    <3>5. /\ Covers(new, {r, p + 1}, x) <=> (r <= x /\ x < p) \/ (p + 1 <= x /\ x < Limit(rs, r))
          /\ Covers(rs, {r, p + 1}, x) <=> r <= x /\ x < Limit(rs, r)
      BY <2>0, <3>0, <3>2, <3>3 DEF Covers, Limit, Pages
    <3>. QED  BY <2>0, <2>1, <3>0, <3>1, <3>4, <3>5, NumPagesAssumption DEF Pages, Limit
  <2>4. CASE ~TopPage(rs, r, p) /\ ~MiddlePage(rs, r, p) /\ BottomPage(rs, r, p)
    <3>. DEFINE new == [rs EXCEPT ![r] = 0, ![r + 1] = rs[r] - 1]
    <3>0. p = r /\ rs[r] # 1 /\ r + 1 \in Pages /\ r + 1 < Limit(rs, r)
      BY <2>0, <2>4, NumPagesAssumption DEF TopPage, BottomPage, Limit, Pages
    <3>1. RemovePage(rs, p) = new
      BY <2>0, <2>4, <3>0 DEF RemovePage
    <3>2. rs[r + 1] = 0
      BY <1>3, <3>0, InsideNoStart DEF Pages
    <3>3. /\ new \in [Pages -> Nat] /\ \A t \in Pages \ {r, r + 1} : new[t] = rs[t]
          /\ new[r] = 0 /\ new[r + 1] = rs[r] - 1
      <4>1. rs \in [Pages -> Nat] /\ r # r + 1 /\ rs[r] - 1 \in Nat
        BY <2>0, <3>0 DEF RangeSet, Pages
      <4>. QED  BY <2>0, <3>0, <4>1
    <3>4. /\ x \in PagesOf(new) <=> Covers(rs, Pages \ {r, r + 1}, x) \/ Covers(new, {r, r + 1}, x)
          /\ x \in PagesOf(rs) <=> Covers(rs, Pages \ {r, r + 1}, x) \/ Covers(rs, {r, r + 1}, x)
      BY <2>0, <3>0, <3>3, PagesOfEdit
    <3>5. /\ Covers(new, {r, r + 1}, x) <=> r + 1 <= x /\ x < Limit(rs, r)
          /\ Covers(rs, {r, r + 1}, x) <=> r <= x /\ x < Limit(rs, r)
      BY <2>0, <3>0, <3>2, <3>3 DEF Covers, Limit, Pages
    <3>. QED  BY <2>0, <2>1, <3>0, <3>1, <3>4, <3>5 DEF Pages
  <2>5. CASE ~TopPage(rs, r, p) /\ ~MiddlePage(rs, r, p) /\ ~BottomPage(rs, r, p)
    BY <2>0, <2>5 DEF TopPage, MiddlePage, BottomPage, Limit, Pages
  <2>. QED  BY <2>2, <2>3, <2>4, <2>5
<1>. QED  BY <1>1, <1>2, <1>3

=============================================================================
