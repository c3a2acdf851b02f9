---------------------------- MODULE DonationProofs ----------------------------
(***************************************************************************)
(* Proofs about the root's page-donation protocol of Donation, for every   *)
(* number of CPUs, borrowers, pages and guest slots.                       *)
(*                                                                         *)
(* RootIsolation, TrackerMatchesRootEpt and LargeEntriesIntact are not     *)
(* inductive as they stand: each is preserved only because of what the     *)
(* CPUs in the middle of a handler hold.  DonationIInv adds that: the      *)
(* initiator of a shootdown owns it; a donation between its resolve and    *)
(* its unmap still sees its page mapped and the page size it read; a       *)
(* donation between its unmap and its add holds a page nobody has in the  *)
(* tracker; a reclaim works for a dead borrower, on a page no donation in *)
(* flight holds; and every stale cached translation belongs to a parked    *)
(* CPU or to the initiator before its INVEPT.                              *)
(***************************************************************************)
EXTENDS Donation, DonatedPagesProofs

\* A donation between resolve and unmap: its page is still in the root's
\* EPT, and the page size gpa_to_hpa reported is still the EPT's.
DonationBeforeUnmap ==
    \A c \in Cpus : pc[c] \in {"begin", "wait"} =>
        /\ present[req[c].page]
        /\ req[c].from2m = large[RegionOf(req[c].page)]

\* The CPU waiting for acknowledgements is the one whose shootdown is in
\* flight.
ShootdownOwned == \A c \in Cpus : pc[c] = "wait" => shootdown = c

\* A donation between unmap and add_page_to_donated_range holds a page
\* that is in no borrower's ranges, and no other donation holds it.
DonationInFlight ==
    \A c \in Cpus : pc[c] \in {"invept", "add"} =>
        /\ ~present[req[c].page]
        /\ \A g \in Guests : req[c].page \notin PagesOf(donated[g])
        /\ \A d \in Cpus \ {c} : pc[d] \in {"invept", "add"} => req[d].page # req[c].page

\* A reclaim works for a dead borrower, on a page that no other borrower
\* has, that none has once it is removed, and that no donation in flight
\* holds.
ReclaimInFlight ==
    \A c \in Cpus : pc[c] \in {"remove", "remap"} =>
        /\ ~alive[req[c].guest]
        /\ \A h \in Guests : (h # req[c].guest \/ pc[c] = "remap")
                                => req[c].page \notin PagesOf(donated[h])
        /\ \A d \in Cpus : pc[d] \in {"invept", "add"} => req[d].page # req[c].page

\* A live borrower maps only pages donated to it, and so will the donation
\* about to map one for it.
LiveMapsDonated ==
    /\ \A g \in Guests, gg \in GuestGpas :
          alive[g] /\ guestEpt[g][gg] # NoPage => guestEpt[g][gg] \in PagesOf(donated[g])
    /\ \A c \in Cpus : pc[c] = "map_guest" /\ alive[req[c].guest]
          => req[c].page \in PagesOf(donated[req[c].guest])

\* A CPU caches a translation of a page the root no longer maps only while
\* it is parked by a shootdown, or as the initiator before its INVEPT.
TlbCoherent ==
    \A c \in Cpus : \A p \in tlb[c] :
        \/ present[p]
        \/ pc[c] = "parked"
        \/ pc[c] = "invept" /\ p = req[c].page

DonationIInv ==
    /\ DonationTypeOK
    /\ KeysCoverRanges
    /\ NoOverlap
    /\ TrackerMatchesRootEpt
    /\ LargeEntriesIntact
    /\ DonationBeforeUnmap
    /\ ShootdownOwned
    /\ DonationInFlight
    /\ ReclaimInFlight
    /\ LiveMapsDonated
    /\ TlbCoherent

-----------------------------------------------------------------------------
\* A page's 2M region is a region of the root's EPT: the pages fill whole
\* regions.
LEMMA RegionOfType ==
    ASSUME NEW p \in Pages
    PROVE  RegionOf(p) \in Regions
<1>1. /\ RegionPages \in Nat \ {0} /\ NumPages \in Nat \ {0}
      /\ NumPages = (NumPages \div RegionPages) * RegionPages
  BY DonationAssumption, NumPagesAssumption
<1>2. p \in Nat /\ p < NumPages
  BY NumPagesAssumption DEF Pages
<1>3. (p \div RegionPages) * RegionPages <= p
  BY <1>1, <1>2
<1>. QED  BY <1>1, <1>2, <1>3 DEF RegionOf, Regions

\* Every borrower's ranges are a range set of disjoint ranges.
LEMMA TrackerShape ==
    ASSUME DonationIInv, NEW g \in Guests
    PROVE  donated[g] \in RangeSet /\ Disjoint(donated[g])
BY NoOverlapIsDisjoint DEF DonationIInv, DonationTypeOK, TrackerTypeOK

\* page_already_donated(g, p) true: p is one of g's pages.
LEMMA AlreadyDonatedIsDonated ==
    ASSUME DonationIInv, NEW g \in Guests, NEW p \in Pages, PageAlreadyDonated(g, p)
    PROVE  p \in PagesOf(donated[g])
<1>1. donated[g] \in RangeSet
  BY TrackerShape
<1>2. FindPageRange(donated[g], p) \in Starts(donated[g])
      /\ Contains(donated[g], FindPageRange(donated[g], p), p)
  BY <1>1, FindPageRangeSound DEF PageAlreadyDonated
<1>. QED  BY <1>2 DEF PagesOf

LEMMA NotInPagesNotDonated ==
    ASSUME NEW rs, NEW p \in Pages, p \notin PagesOf(rs)
    PROVE  NotDonated(rs, p)
BY DEF NotDonated, PagesOf

LEMMA EmptyHasNoPages == PagesOf(EmptyRangeSet) = {}
BY DEF PagesOf, Starts, EmptyRangeSet

LEMMA InitIInv == Init => DonationIInv
<1>. SUFFICES ASSUME Init PROVE DonationIInv
  OBVIOUS
<1>1. NoRequest \in Request
  BY DonationAssumption, NumPagesAssumption DEF NoRequest, Request, Pages
<1>2. /\ EmptyRangeSet \in RangeSet
      /\ \A g \in Guests : PagesOf(donated[g]) = {}
  BY EmptyHasNoPages, NumPagesAssumption DEF Init, TrackerInit, EmptyRangeSet, RangeSet, Pages
<1>3. DonationTypeOK
  BY <1>1, <1>2 DEF Init, TrackerInit, DonationTypeOK, TrackerTypeOK, Locs
<1>4. KeysCoverRanges /\ NoOverlap
  BY DEF Init, TrackerInit, KeysCoverRanges, NoOverlap, EmptyRangeSet, Starts
<1>. QED
  BY <1>2, <1>3, <1>4
  DEF Init, DonationIInv, TrackerMatchesRootEpt, LargeEntriesIntact, DonationBeforeUnmap,
      ShootdownOwned, DonationInFlight, ReclaimInFlight, LiveMapsDonated, TlbCoherent

-----------------------------------------------------------------------------
(***************************************************************************)
(* The steps that move a CPU without touching the root's EPT, the tracker *)
(* or the borrowers' EPTs.                                                 *)
(***************************************************************************)
LEMMA DonateCheckIInv ==
    ASSUME DonationIInv, NEW c \in Cpus, NEW g \in Guests, NEW p \in Pages,
           NEW gg \in GuestGpas, DonateCheck(c, g, p, gg)
    PROVE  DonationIInv'
<1>0. /\ PageAlreadyDonated(g, p) => p \in PagesOf(donated[g])
      /\ [guest |-> g, page |-> p, slot |-> gg, from2m |-> FALSE] \in Request
  BY AlreadyDonatedIsDonated DEF Request
<1>1. DonationTypeOK'
  BY <1>0 DEF DonateCheck, Ready, IpiPending, Goto, trackerVars, DonationIInv, DonationTypeOK, TrackerTypeOK, Locs
<1>2. (KeysCoverRanges /\ NoOverlap)'
  BY DEF DonateCheck, Ready, IpiPending, Goto, trackerVars, DonationIInv, DonationTypeOK, KeysCoverRanges, NoOverlap
<1>3. TrackerMatchesRootEpt'
  BY DEF DonateCheck, Ready, IpiPending, Goto, trackerVars, DonationIInv, DonationTypeOK, TrackerMatchesRootEpt, InFlight
<1>4. LargeEntriesIntact'
  BY DEF DonateCheck, Ready, IpiPending, Goto, trackerVars, DonationIInv, DonationTypeOK, LargeEntriesIntact
<1>5. DonationBeforeUnmap'
  BY DEF DonateCheck, Ready, IpiPending, Goto, trackerVars, DonationIInv, DonationTypeOK, DonationBeforeUnmap
<1>6. ShootdownOwned'
  BY DEF DonateCheck, Ready, IpiPending, Goto, trackerVars, DonationIInv, DonationTypeOK, ShootdownOwned
<1>7. DonationInFlight'
  BY DEF DonateCheck, Ready, IpiPending, Goto, trackerVars, DonationIInv, DonationTypeOK, DonationInFlight
<1>8. ReclaimInFlight'
  BY DEF DonateCheck, Ready, IpiPending, Goto, trackerVars, DonationIInv, DonationTypeOK, ReclaimInFlight
<1>9. LiveMapsDonated'
  BY <1>0 DEF DonateCheck, Ready, IpiPending, Goto, trackerVars, DonationIInv, DonationTypeOK, LiveMapsDonated
<1>10. TlbCoherent'
  BY DEF DonateCheck, Ready, IpiPending, Goto, trackerVars, DonationIInv, DonationTypeOK, TlbCoherent
<1>. QED  BY <1>1, <1>2, <1>3, <1>4, <1>5, <1>6, <1>7, <1>8, <1>9, <1>10 DEF DonationIInv

LEMMA DonateResolveIInv ==
    ASSUME DonationIInv, NEW c \in Cpus, DonateResolve(c)
    PROVE  DonationIInv'
<1>0. [req[c] EXCEPT !.from2m = large[RegionOf(req[c].page)]] \in Request
  <2>1. req[c] \in Request /\ RegionOf(req[c].page) \in Regions
    BY RegionOfType DEF DonationIInv, DonationTypeOK, Request
  <2>. QED  BY <2>1 DEF DonationIInv, DonationTypeOK, Request
<1>1. DonationTypeOK'
  BY <1>0 DEF DonateResolve, Goto, trackerVars, DonationIInv, DonationTypeOK, TrackerTypeOK, Locs
<1>2. (KeysCoverRanges /\ NoOverlap)'
  BY DEF DonateResolve, Goto, trackerVars, DonationIInv, DonationTypeOK, KeysCoverRanges, NoOverlap
<1>3. TrackerMatchesRootEpt'
  BY DEF DonateResolve, Goto, trackerVars, DonationIInv, DonationTypeOK, TrackerMatchesRootEpt, InFlight
<1>4. LargeEntriesIntact'
  BY DEF DonateResolve, Goto, trackerVars, DonationIInv, DonationTypeOK, LargeEntriesIntact
<1>5. DonationBeforeUnmap'
  <2>. SUFFICES ASSUME NEW d \in Cpus, pc'[d] \in {"begin", "wait"}
                PROVE  /\ present'[req'[d].page]
                       /\ req'[d].from2m = large'[RegionOf(req'[d].page)]
    BY DEF DonationBeforeUnmap
  <2>1. CASE d = c
    <3>1. present[req[c].page] /\ pc'[c] = "begin"
          /\ req'[c] = [req[c] EXCEPT !.from2m = large[RegionOf(req[c].page)]]
      BY <2>1 DEF DonateResolve, Goto, DonationIInv, DonationTypeOK
    <3>2. req[c] \in Request
      BY DEF DonationIInv, DonationTypeOK
    <3>. QED  BY <2>1, <3>1, <3>2 DEF DonateResolve, Request
  <2>2. CASE d # c
    BY <2>2 DEF DonateResolve, Goto, DonationIInv, DonationTypeOK, DonationBeforeUnmap
  <2>. QED  BY <2>1, <2>2
<1>6. ShootdownOwned'
  BY DEF DonateResolve, Goto, trackerVars, DonationIInv, DonationTypeOK, ShootdownOwned
<1>7. DonationInFlight'
  BY DEF DonateResolve, Goto, trackerVars, DonationIInv, DonationTypeOK, DonationInFlight
<1>8. ReclaimInFlight'
  BY DEF DonateResolve, Goto, trackerVars, DonationIInv, DonationTypeOK, ReclaimInFlight
<1>9. LiveMapsDonated'
  BY DEF DonateResolve, Goto, trackerVars, DonationIInv, DonationTypeOK, LiveMapsDonated
<1>10. TlbCoherent'
  BY DEF DonateResolve, Goto, trackerVars, DonationIInv, DonationTypeOK, TlbCoherent
<1>. QED  BY <1>1, <1>2, <1>3, <1>4, <1>5, <1>6, <1>7, <1>8, <1>9, <1>10 DEF DonationIInv

LEMMA DonateBeginShootdownIInv ==
    ASSUME DonationIInv, NEW c \in Cpus, DonateBeginShootdown(c)
    PROVE  DonationIInv'
<1>1. DonationTypeOK'
  BY DEF DonateBeginShootdown, Goto, trackerVars, DonationIInv, DonationTypeOK, TrackerTypeOK, Locs
<1>2. (KeysCoverRanges /\ NoOverlap)'
  BY DEF DonateBeginShootdown, Goto, trackerVars, DonationIInv, DonationTypeOK, KeysCoverRanges, NoOverlap
<1>3. TrackerMatchesRootEpt'
  BY DEF DonateBeginShootdown, Goto, trackerVars, DonationIInv, DonationTypeOK, TrackerMatchesRootEpt, InFlight
<1>4. LargeEntriesIntact'
  BY DEF DonateBeginShootdown, Goto, trackerVars, DonationIInv, DonationTypeOK, LargeEntriesIntact
<1>5. DonationBeforeUnmap'
  BY DEF DonateBeginShootdown, Goto, trackerVars, DonationIInv, DonationTypeOK, DonationBeforeUnmap
<1>6. ShootdownOwned'
  BY DonationAssumption
  DEF DonateBeginShootdown, Goto, trackerVars, DonationIInv, DonationTypeOK, ShootdownOwned
<1>7. DonationInFlight'
  BY DEF DonateBeginShootdown, Goto, trackerVars, DonationIInv, DonationTypeOK, DonationInFlight
<1>8. ReclaimInFlight'
  BY DEF DonateBeginShootdown, Goto, trackerVars, DonationIInv, DonationTypeOK, ReclaimInFlight
<1>9. LiveMapsDonated'
  BY DEF DonateBeginShootdown, Goto, trackerVars, DonationIInv, DonationTypeOK, LiveMapsDonated
<1>10. TlbCoherent'
  BY DEF DonateBeginShootdown, Goto, trackerVars, DonationIInv, DonationTypeOK, TlbCoherent
<1>. QED  BY <1>1, <1>2, <1>3, <1>4, <1>5, <1>6, <1>7, <1>8, <1>9, <1>10 DEF DonationIInv

LEMMA DonateSplitFailsIInv ==
    ASSUME DonationIInv, NEW c \in Cpus, DonateSplitFails(c)
    PROVE  DonationIInv'
<1>1. DonationTypeOK'
  BY DEF DonateSplitFails, Goto, trackerVars, DonationIInv, DonationTypeOK, TrackerTypeOK, Locs
<1>2. (KeysCoverRanges /\ NoOverlap)'
  BY DEF DonateSplitFails, Goto, trackerVars, DonationIInv, DonationTypeOK, KeysCoverRanges, NoOverlap
<1>3. TrackerMatchesRootEpt'
  BY DEF DonateSplitFails, Goto, trackerVars, DonationIInv, DonationTypeOK, TrackerMatchesRootEpt, InFlight
<1>4. LargeEntriesIntact'
  BY DEF DonateSplitFails, Goto, trackerVars, DonationIInv, DonationTypeOK, LargeEntriesIntact
<1>5. DonationBeforeUnmap'
  BY DEF DonateSplitFails, Goto, trackerVars, DonationIInv, DonationTypeOK, DonationBeforeUnmap
<1>6. ShootdownOwned'
  BY DEF DonateSplitFails, Goto, trackerVars, DonationIInv, DonationTypeOK, ShootdownOwned
<1>7. DonationInFlight'
  BY DEF DonateSplitFails, Goto, trackerVars, DonationIInv, DonationTypeOK, DonationInFlight
<1>8. ReclaimInFlight'
  BY DEF DonateSplitFails, Goto, trackerVars, DonationIInv, DonationTypeOK, ReclaimInFlight
<1>9. LiveMapsDonated'
  BY DEF DonateSplitFails, Goto, trackerVars, DonationIInv, DonationTypeOK, LiveMapsDonated
<1>10. TlbCoherent'
  BY DEF DonateSplitFails, Goto, trackerVars, DonationIInv, DonationTypeOK, TlbCoherent
<1>. QED  BY <1>1, <1>2, <1>3, <1>4, <1>5, <1>6, <1>7, <1>8, <1>9, <1>10 DEF DonationIInv

LEMMA DonateInveptIInv ==
    ASSUME DonationIInv, NEW c \in Cpus, DonateInvept(c)
    PROVE  DonationIInv'
<1>1. DonationTypeOK'
  BY DEF DonateInvept, Goto, trackerVars, DonationIInv, DonationTypeOK, TrackerTypeOK, Locs
<1>2. (KeysCoverRanges /\ NoOverlap)'
  BY DEF DonateInvept, Goto, trackerVars, DonationIInv, DonationTypeOK, KeysCoverRanges, NoOverlap
<1>3. TrackerMatchesRootEpt'
  BY DEF DonateInvept, Goto, trackerVars, DonationIInv, DonationTypeOK, TrackerMatchesRootEpt, InFlight
<1>4. LargeEntriesIntact'
  BY DEF DonateInvept, Goto, trackerVars, DonationIInv, DonationTypeOK, LargeEntriesIntact
<1>5. DonationBeforeUnmap'
  BY DEF DonateInvept, Goto, trackerVars, DonationIInv, DonationTypeOK, DonationBeforeUnmap
<1>6. ShootdownOwned'
  BY DEF DonateInvept, Goto, trackerVars, DonationIInv, DonationTypeOK, ShootdownOwned
<1>7. DonationInFlight'
  BY DEF DonateInvept, Goto, trackerVars, DonationIInv, DonationTypeOK, DonationInFlight
<1>8. ReclaimInFlight'
  BY DEF DonateInvept, Goto, trackerVars, DonationIInv, DonationTypeOK, ReclaimInFlight
<1>9. LiveMapsDonated'
  BY DEF DonateInvept, Goto, trackerVars, DonationIInv, DonationTypeOK, LiveMapsDonated
<1>10. TlbCoherent'
  BY DEF DonateInvept, Goto, trackerVars, DonationIInv, DonationTypeOK, TlbCoherent
<1>. QED  BY <1>1, <1>2, <1>3, <1>4, <1>5, <1>6, <1>7, <1>8, <1>9, <1>10 DEF DonationIInv

LEMMA AckShootdownIInv ==
    ASSUME DonationIInv, NEW c \in Cpus, AckShootdown(c)
    PROVE  DonationIInv'
<1>1. DonationTypeOK'
  BY DEF AckShootdown, IpiPending, Goto, trackerVars, DonationIInv, DonationTypeOK, TrackerTypeOK, Locs
<1>2. (KeysCoverRanges /\ NoOverlap)'
  BY DEF AckShootdown, IpiPending, Goto, trackerVars, DonationIInv, DonationTypeOK, KeysCoverRanges, NoOverlap
<1>3. TrackerMatchesRootEpt'
  BY DEF AckShootdown, IpiPending, Goto, trackerVars, DonationIInv, DonationTypeOK, TrackerMatchesRootEpt, InFlight
<1>4. LargeEntriesIntact'
  BY DEF AckShootdown, IpiPending, Goto, trackerVars, DonationIInv, DonationTypeOK, LargeEntriesIntact
<1>5. DonationBeforeUnmap'
  BY DEF AckShootdown, IpiPending, Goto, trackerVars, DonationIInv, DonationTypeOK, DonationBeforeUnmap
<1>6. ShootdownOwned'
  BY DEF AckShootdown, IpiPending, Goto, trackerVars, DonationIInv, DonationTypeOK, ShootdownOwned
<1>7. DonationInFlight'
  BY DEF AckShootdown, IpiPending, Goto, trackerVars, DonationIInv, DonationTypeOK, DonationInFlight
<1>8. ReclaimInFlight'
  BY DEF AckShootdown, IpiPending, Goto, trackerVars, DonationIInv, DonationTypeOK, ReclaimInFlight
<1>9. LiveMapsDonated'
  BY DEF AckShootdown, IpiPending, Goto, trackerVars, DonationIInv, DonationTypeOK, LiveMapsDonated
<1>10. TlbCoherent'
  BY DEF AckShootdown, IpiPending, Goto, trackerVars, DonationIInv, DonationTypeOK, TlbCoherent
<1>. QED  BY <1>1, <1>2, <1>3, <1>4, <1>5, <1>6, <1>7, <1>8, <1>9, <1>10 DEF DonationIInv

LEMMA ResumeFromShootdownIInv ==
    ASSUME DonationIInv, NEW c \in Cpus, ResumeFromShootdown(c)
    PROVE  DonationIInv'
<1>1. DonationTypeOK'
  BY DEF ResumeFromShootdown, Goto, trackerVars, DonationIInv, DonationTypeOK, TrackerTypeOK, Locs
<1>2. (KeysCoverRanges /\ NoOverlap)'
  BY DEF ResumeFromShootdown, Goto, trackerVars, DonationIInv, DonationTypeOK, KeysCoverRanges, NoOverlap
<1>3. TrackerMatchesRootEpt'
  BY DEF ResumeFromShootdown, Goto, trackerVars, DonationIInv, DonationTypeOK, TrackerMatchesRootEpt, InFlight
<1>4. LargeEntriesIntact'
  BY DEF ResumeFromShootdown, Goto, trackerVars, DonationIInv, DonationTypeOK, LargeEntriesIntact
<1>5. DonationBeforeUnmap'
  BY DEF ResumeFromShootdown, Goto, trackerVars, DonationIInv, DonationTypeOK, DonationBeforeUnmap
<1>6. ShootdownOwned'
  BY DEF ResumeFromShootdown, Goto, trackerVars, DonationIInv, DonationTypeOK, ShootdownOwned
<1>7. DonationInFlight'
  BY DEF ResumeFromShootdown, Goto, trackerVars, DonationIInv, DonationTypeOK, DonationInFlight
<1>8. ReclaimInFlight'
  BY DEF ResumeFromShootdown, Goto, trackerVars, DonationIInv, DonationTypeOK, ReclaimInFlight
<1>9. LiveMapsDonated'
  BY DEF ResumeFromShootdown, Goto, trackerVars, DonationIInv, DonationTypeOK, LiveMapsDonated
<1>10. TlbCoherent'
  BY DEF ResumeFromShootdown, Goto, trackerVars, DonationIInv, DonationTypeOK, TlbCoherent
<1>. QED  BY <1>1, <1>2, <1>3, <1>4, <1>5, <1>6, <1>7, <1>8, <1>9, <1>10 DEF DonationIInv

LEMMA CacheTranslationIInv ==
    ASSUME DonationIInv, NEW c \in Cpus, NEW p \in Pages, CacheTranslation(c, p)
    PROVE  DonationIInv'
<1>1. DonationTypeOK'
  BY DEF CacheTranslation, trackerVars, DonationIInv, DonationTypeOK, TrackerTypeOK, Locs
<1>2. (KeysCoverRanges /\ NoOverlap)'
  BY DEF CacheTranslation, trackerVars, DonationIInv, DonationTypeOK, KeysCoverRanges, NoOverlap
<1>3. TrackerMatchesRootEpt'
  BY DEF CacheTranslation, trackerVars, DonationIInv, DonationTypeOK, TrackerMatchesRootEpt, InFlight
<1>4. LargeEntriesIntact'
  BY DEF CacheTranslation, trackerVars, DonationIInv, DonationTypeOK, LargeEntriesIntact
<1>5. DonationBeforeUnmap'
  BY DEF CacheTranslation, trackerVars, DonationIInv, DonationTypeOK, DonationBeforeUnmap
<1>6. ShootdownOwned'
  BY DEF CacheTranslation, trackerVars, DonationIInv, DonationTypeOK, ShootdownOwned
<1>7. DonationInFlight'
  BY DEF CacheTranslation, trackerVars, DonationIInv, DonationTypeOK, DonationInFlight
<1>8. ReclaimInFlight'
  BY DEF CacheTranslation, trackerVars, DonationIInv, DonationTypeOK, ReclaimInFlight
<1>9. LiveMapsDonated'
  BY DEF CacheTranslation, trackerVars, DonationIInv, DonationTypeOK, LiveMapsDonated
<1>10. TlbCoherent'
  BY DEF CacheTranslation, trackerVars, DonationIInv, DonationTypeOK, TlbCoherent
<1>. QED  BY <1>1, <1>2, <1>3, <1>4, <1>5, <1>6, <1>7, <1>8, <1>9, <1>10 DEF DonationIInv

LEMMA DestroyDomainIInv ==
    ASSUME DonationIInv, NEW g \in Guests, DestroyDomain(g)
    PROVE  DonationIInv'
<1>0. UNCHANGED <<donated, keys, present, large, guestEpt, tlb, shootdown, pc, req>>
      /\ alive' = [alive EXCEPT ![g] = FALSE]
  BY DEF DestroyDomain, trackerVars
<1>1. DonationTypeOK'
  BY <1>0 DEF DonationIInv, DonationTypeOK, TrackerTypeOK
<1>2. (KeysCoverRanges /\ NoOverlap /\ TrackerMatchesRootEpt /\ LargeEntriesIntact)'
  BY <1>0 DEF DonationIInv, KeysCoverRanges, NoOverlap, TrackerMatchesRootEpt, InFlight,
              LargeEntriesIntact
<1>3. (DonationBeforeUnmap /\ ShootdownOwned /\ DonationInFlight /\ TlbCoherent)'
  BY <1>0 DEF DonationIInv, DonationBeforeUnmap, ShootdownOwned, DonationInFlight, TlbCoherent
<1>4. ReclaimInFlight'
  BY <1>0 DEF DonationIInv, DonationTypeOK, ReclaimInFlight
<1>5. LiveMapsDonated'
  BY <1>0 DEF DonationIInv, DonationTypeOK, LiveMapsDonated
<1>. QED  BY <1>1, <1>2, <1>3, <1>4, <1>5 DEF DonationIInv

LEMMA DonateUnmapIInv ==
    ASSUME DonationIInv, NEW c \in Cpus, DonateUnmap(c)
    PROVE  DonationIInv'
<1>0. /\ present[req[c].page]
      /\ req[c].from2m = large[RegionOf(req[c].page)]
      /\ \A g \in Guests : req[c].page \notin PagesOf(donated[g])
      /\ RegionOf(req[c].page) \in Regions
      /\ \A d \in Cpus \ {c} : pc[d] = "parked"
  BY RegionOfType DEF DonateUnmap, DonationIInv, DonationTypeOK, Request,
                      DonationBeforeUnmap, TrackerMatchesRootEpt
<1>1. DonationTypeOK'
  BY <1>0 DEF DonateUnmap, Goto, trackerVars, DonationIInv, DonationTypeOK, DonationTypeOK, TrackerTypeOK, Locs
<1>2. (KeysCoverRanges /\ NoOverlap)'
  BY <1>0 DEF DonateUnmap, Goto, trackerVars, DonationIInv, DonationTypeOK, KeysCoverRanges, NoOverlap
<1>3. TrackerMatchesRootEpt'
  BY <1>0 DEF DonateUnmap, Goto, trackerVars, DonationIInv, DonationTypeOK, TrackerMatchesRootEpt, InFlight
<1>4. LargeEntriesIntact'
  BY <1>0 DEF DonateUnmap, Goto, trackerVars, DonationIInv, DonationTypeOK, LargeEntriesIntact
<1>5. DonationBeforeUnmap'
  BY <1>0 DEF DonateUnmap, Goto, trackerVars, DonationIInv, DonationTypeOK, DonationBeforeUnmap
<1>6. ShootdownOwned'
  BY <1>0 DEF DonateUnmap, Goto, trackerVars, DonationIInv, DonationTypeOK, ShootdownOwned
<1>7. DonationInFlight'
  <2>. SUFFICES ASSUME NEW d \in Cpus, pc'[d] \in {"invept", "add"}
                PROVE  /\ ~present'[req'[d].page]
                       /\ \A g \in Guests : req'[d].page \notin PagesOf(donated'[g])
                       /\ \A e \in Cpus \ {d} : pc'[e] \in {"invept", "add"} => req'[e].page # req'[d].page
    BY DEF DonationInFlight
  <2>1. d = c /\ \A e \in Cpus \ {c} : pc'[e] = "parked"
    BY <1>0 DEF DonateUnmap, Goto, DonationIInv, DonationTypeOK
  <2>. QED  BY <1>0, <2>1 DEF DonateUnmap, Goto, trackerVars, DonationIInv, DonationTypeOK, Request
<1>8. ReclaimInFlight'
  BY <1>0 DEF DonateUnmap, Goto, trackerVars, DonationIInv, DonationTypeOK, ReclaimInFlight
<1>9. LiveMapsDonated'
  BY <1>0 DEF DonateUnmap, Goto, trackerVars, DonationIInv, DonationTypeOK, LiveMapsDonated
<1>10. TlbCoherent'
  BY <1>0 DEF DonateUnmap, Goto, trackerVars, DonationIInv, DonationTypeOK, TlbCoherent
<1>. QED  BY <1>1, <1>2, <1>3, <1>4, <1>5, <1>6, <1>7, <1>8, <1>9, <1>10 DEF DonationIInv

LEMMA DonateAddIInv ==
    ASSUME DonationIInv, NEW c \in Cpus, DonateAdd(c)
    PROVE  DonationIInv'
<1>. DEFINE g == req[c].guest
           p == req[c].page
<1>0. /\ g \in Guests /\ p \in Pages
      /\ ~present[p] /\ \A h \in Guests : p \notin PagesOf(donated[h])
      /\ AddPage(donated[g], p) \in RangeSet
      /\ Disjoint(AddPage(donated[g], p))
      /\ \A h \in Guests : PagesOf(donated'[h]) =
            IF h = g THEN PagesOf(donated[h]) \cup {p} ELSE PagesOf(donated[h])
  <2>1. g \in Guests /\ p \in Pages /\ pc[c] = "add"
    BY DEF DonateAdd, DonationIInv, DonationTypeOK, Request
  <2>2. ~present[p] /\ \A h \in Guests : p \notin PagesOf(donated[h])
    BY <2>1 DEF DonationIInv, DonationInFlight
  <2>3. donated[g] \in RangeSet /\ Disjoint(donated[g]) /\ NotDonated(donated[g], p)
    BY <2>1, <2>2, TrackerShape, NotInPagesNotDonated
  <2>4. /\ AddPage(donated[g], p) \in RangeSet
        /\ Disjoint(AddPage(donated[g], p))
        /\ PagesOf(AddPage(donated[g], p)) = PagesOf(donated[g]) \cup {p}
    BY <2>1, <2>3, AddPageType, AddPageDisjoint, AddPagePages
  <2>5. donated' = [donated EXCEPT ![g] = AddPage(donated[g], p)]
    BY DEF DonateAdd
  <2>. QED  BY <2>1, <2>2, <2>4, <2>5 DEF DonationIInv, DonationTypeOK, TrackerTypeOK
<1>1. DonationTypeOK'
  BY <1>0 DEF DonateAdd, Goto, trackerVars, DonationIInv, DonationTypeOK, DonationTypeOK, TrackerTypeOK, Locs
<1>2. (KeysCoverRanges /\ NoOverlap)'
  <2>1. \A h \in Guests : donated'[h] \in RangeSet /\ Disjoint(donated'[h])
    <3>. SUFFICES ASSUME NEW h \in Guests PROVE donated'[h] \in RangeSet /\ Disjoint(donated'[h])
      OBVIOUS
    <3>1. CASE h = g
      BY <1>0, <3>1 DEF DonateAdd, DonationIInv, DonationTypeOK, TrackerTypeOK
    <3>2. CASE h # g
      BY <3>2, TrackerShape DEF DonateAdd, DonationIInv, DonationTypeOK, TrackerTypeOK
    <3>. QED  BY <3>1, <3>2
  <2>2. KeysCoverRanges'
    BY DEF DonateAdd, DonationIInv, DonationTypeOK, TrackerTypeOK, KeysCoverRanges
  <2>. QED  BY <2>1, <2>2 DEF NoOverlap, Disjoint
<1>3. TrackerMatchesRootEpt'
  <2>0. present' = present /\ pc' = [pc EXCEPT ![c] = "map_guest"] /\ req' = req
        /\ pc[c] = "add"
    BY DEF DonateAdd, Goto
  <2>. SUFFICES ASSUME NEW q \in Pages
                PROVE  /\ \A h \in Guests : q \in PagesOf(donated'[h]) => ~present'[q]
                       /\ \A h1, h2 \in Guests :
                             q \in PagesOf(donated'[h1]) \cap PagesOf(donated'[h2]) => h1 = h2
    BY DEF TrackerMatchesRootEpt
  <2>1. \A h \in Guests : q \in PagesOf(donated'[h]) => ~present'[q]
    BY <1>0, <2>0 DEF DonationIInv, TrackerMatchesRootEpt
  <2>2. \A h1, h2 \in Guests : q \in PagesOf(donated'[h1]) \cap PagesOf(donated'[h2]) => h1 = h2
    <3>1. CASE q = p
      BY <1>0, <3>1
    <3>2. CASE q # p
      <4>. SUFFICES ASSUME NEW h1 \in Guests, NEW h2 \in Guests,
                           q \in PagesOf(donated'[h1]), q \in PagesOf(donated'[h2])
                    PROVE  h1 = h2
        OBVIOUS
      <4>1. q \in PagesOf(donated[h1]) /\ q \in PagesOf(donated[h2])
        BY <1>0, <3>2
      <4>. QED  BY <4>1 DEF DonationIInv, TrackerMatchesRootEpt
    <3>. QED  BY <3>1, <3>2
  <2>. QED  BY <2>1, <2>2
<1>4. LargeEntriesIntact'
  BY <1>0 DEF DonateAdd, Goto, trackerVars, DonationIInv, DonationTypeOK, LargeEntriesIntact
<1>5. DonationBeforeUnmap'
  BY <1>0 DEF DonateAdd, Goto, trackerVars, DonationIInv, DonationTypeOK, DonationBeforeUnmap
<1>6. ShootdownOwned'
  BY <1>0 DEF DonateAdd, Goto, trackerVars, DonationIInv, DonationTypeOK, ShootdownOwned
<1>7. DonationInFlight'
  <2>0. pc' = [pc EXCEPT ![c] = "map_guest"] /\ req' = req /\ present' = present
    BY DEF DonateAdd, Goto
  <2>. SUFFICES ASSUME NEW d \in Cpus, pc'[d] \in {"invept", "add"}
                PROVE  /\ ~present'[req'[d].page]
                       /\ \A h \in Guests : req'[d].page \notin PagesOf(donated'[h])
                       /\ \A e \in Cpus \ {d} : pc'[e] \in {"invept", "add"} => req'[e].page # req'[d].page
    BY DEF DonationInFlight
  <2>1. d # c /\ pc[d] \in {"invept", "add"}
    BY <2>0 DEF DonationIInv, DonationTypeOK
  <2>2. req[d].page # p /\ req[d].page \in Pages
    BY <2>1 DEF DonateAdd, DonationIInv, DonationInFlight, DonationTypeOK, Request
  <2>3. ~present[req[d].page] /\ \A h \in Guests : req[d].page \notin PagesOf(donated[h])
    BY <2>1 DEF DonationIInv, DonationInFlight
  <2>4. \A e \in Cpus \ {d} : pc'[e] \in {"invept", "add"} => req'[e].page # req'[d].page
    BY <2>0, <2>1 DEF DonationIInv, DonationInFlight, DonationTypeOK
  <2>. QED  BY <1>0, <2>0, <2>2, <2>3, <2>4
<1>8. ReclaimInFlight'
  <2>0. pc' = [pc EXCEPT ![c] = "map_guest"] /\ req' = req /\ alive' = alive
    BY DEF DonateAdd, Goto
  <2>. SUFFICES ASSUME NEW e \in Cpus, pc'[e] \in {"remove", "remap"}
                PROVE  /\ ~alive'[req'[e].guest]
                       /\ \A h \in Guests : (h # req'[e].guest \/ pc'[e] = "remap")
                                             => req'[e].page \notin PagesOf(donated'[h])
                       /\ \A d \in Cpus : pc'[d] \in {"invept", "add"} => req'[d].page # req'[e].page
    BY DEF ReclaimInFlight
  <2>1. e # c /\ pc'[e] = pc[e]
    BY <2>0 DEF DonateAdd, DonationIInv, DonationTypeOK
  <2>2. req[e].page # p
    BY <2>1 DEF DonateAdd, DonationIInv, ReclaimInFlight
  <2>3. \A h \in Guests : (h # req[e].guest \/ pc[e] = "remap")
                             => req[e].page \notin PagesOf(donated'[h])
    BY <1>0, <2>1, <2>2 DEF DonationIInv, ReclaimInFlight
  <2>4. \A d \in Cpus : pc'[d] \in {"invept", "add"} => req'[d].page # req'[e].page
    BY <2>0, <2>1 DEF DonationIInv, ReclaimInFlight, DonationTypeOK
  <2>. QED  BY <2>0, <2>1, <2>3, <2>4 DEF DonationIInv, ReclaimInFlight
<1>9. LiveMapsDonated'
  <2>0. alive' = alive /\ guestEpt' = guestEpt /\ req' = req
        /\ pc' = [pc EXCEPT ![c] = "map_guest"]
    BY DEF DonateAdd, Goto
  <2>1. \A h \in Guests, gg \in GuestGpas :
          alive'[h] /\ guestEpt'[h][gg] # NoPage => guestEpt'[h][gg] \in PagesOf(donated'[h])
    BY <1>0, <2>0 DEF DonationIInv, LiveMapsDonated
  <2>2. \A d \in Cpus : pc'[d] = "map_guest" /\ alive'[req'[d].guest]
          => req'[d].page \in PagesOf(donated'[req'[d].guest])
    <3>. SUFFICES ASSUME NEW d \in Cpus, pc'[d] = "map_guest", alive'[req'[d].guest]
                  PROVE  req'[d].page \in PagesOf(donated'[req'[d].guest])
      OBVIOUS
    <3>1. CASE d = c
      BY <1>0, <2>0, <3>1
    <3>2. CASE d # c
      <4>1. pc[d] = "map_guest" /\ req[d].guest \in Guests
        BY <2>0, <3>2 DEF DonationIInv, DonationTypeOK, Request
      <4>. QED  BY <1>0, <2>0, <4>1 DEF DonationIInv, LiveMapsDonated
    <3>. QED  BY <3>1, <3>2
  <2>. QED  BY <2>1, <2>2 DEF LiveMapsDonated
<1>10. TlbCoherent'
  BY <1>0 DEF DonateAdd, Goto, trackerVars, DonationIInv, DonationTypeOK, TlbCoherent
<1>. QED  BY <1>1, <1>2, <1>3, <1>4, <1>5, <1>6, <1>7, <1>8, <1>9, <1>10 DEF DonationIInv

LEMMA DonateMapGuestIInv ==
    ASSUME DonationIInv, NEW c \in Cpus, DonateMapGuest(c)
    PROVE  DonationIInv'
<1>0. req[c].page \in Pages /\ req[c].guest \in Guests /\ req[c].slot \in GuestGpas
  BY DEF DonationIInv, DonationTypeOK, Request
<1>1. DonationTypeOK'
  BY <1>0 DEF DonateMapGuest, Goto, trackerVars, DonationIInv, DonationTypeOK, DonationTypeOK, TrackerTypeOK, Locs
<1>2. (KeysCoverRanges /\ NoOverlap)'
  BY <1>0 DEF DonateMapGuest, Goto, trackerVars, DonationIInv, DonationTypeOK, KeysCoverRanges, NoOverlap
<1>3. TrackerMatchesRootEpt'
  BY <1>0 DEF DonateMapGuest, Goto, trackerVars, DonationIInv, DonationTypeOK, TrackerMatchesRootEpt, InFlight
<1>4. LargeEntriesIntact'
  BY <1>0 DEF DonateMapGuest, Goto, trackerVars, DonationIInv, DonationTypeOK, LargeEntriesIntact
<1>5. DonationBeforeUnmap'
  BY <1>0 DEF DonateMapGuest, Goto, trackerVars, DonationIInv, DonationTypeOK, DonationBeforeUnmap
<1>6. ShootdownOwned'
  BY <1>0 DEF DonateMapGuest, Goto, trackerVars, DonationIInv, DonationTypeOK, ShootdownOwned
<1>7. DonationInFlight'
  BY <1>0 DEF DonateMapGuest, Goto, trackerVars, DonationIInv, DonationTypeOK, DonationInFlight
<1>8. ReclaimInFlight'
  BY <1>0 DEF DonateMapGuest, Goto, trackerVars, DonationIInv, DonationTypeOK, ReclaimInFlight
<1>9. LiveMapsDonated'
  BY <1>0 DEF DonateMapGuest, Goto, trackerVars, DonationIInv, DonationTypeOK, LiveMapsDonated
<1>10. TlbCoherent'
  BY <1>0 DEF DonateMapGuest, Goto, trackerVars, DonationIInv, DonationTypeOK, TlbCoherent
<1>. QED  BY <1>1, <1>2, <1>3, <1>4, <1>5, <1>6, <1>7, <1>8, <1>9, <1>10 DEF DonationIInv

LEMMA ReclaimCheckIInv ==
    ASSUME DonationIInv, NEW c \in Cpus, NEW g \in Guests, NEW p \in Pages, ReclaimCheck(c, g, p)
    PROVE  DonationIInv'
<1>0. /\ p \in PagesOf(donated[g])
      /\ \A h \in Guests \ {g} : p \notin PagesOf(donated[h])
      /\ [req[c] EXCEPT !.guest = g, !.page = p] \in Request
  <2>1. p \in PagesOf(donated[g])
    BY AlreadyDonatedIsDonated DEF ReclaimCheck
  <2>2. \A h \in Guests \ {g} : p \notin PagesOf(donated[h])
    BY <2>1 DEF DonationIInv, TrackerMatchesRootEpt
  <2>3. [req[c] EXCEPT !.guest = g, !.page = p] \in Request
    BY DEF DonationIInv, DonationTypeOK, Request
  <2>. QED  BY <2>1, <2>2, <2>3
<1>1. DonationTypeOK'
  BY <1>0 DEF ReclaimCheck, Ready, IpiPending, Goto, trackerVars, DonationIInv, DonationTypeOK, DonationTypeOK, TrackerTypeOK, Locs
<1>2. (KeysCoverRanges /\ NoOverlap)'
  BY <1>0 DEF ReclaimCheck, Ready, IpiPending, Goto, trackerVars, DonationIInv, DonationTypeOK, KeysCoverRanges, NoOverlap
<1>3. TrackerMatchesRootEpt'
  BY <1>0 DEF ReclaimCheck, Ready, IpiPending, Goto, trackerVars, DonationIInv, DonationTypeOK, TrackerMatchesRootEpt, InFlight
<1>4. LargeEntriesIntact'
  BY <1>0 DEF ReclaimCheck, Ready, IpiPending, Goto, trackerVars, DonationIInv, DonationTypeOK, LargeEntriesIntact
<1>5. DonationBeforeUnmap'
  BY <1>0 DEF ReclaimCheck, Ready, IpiPending, Goto, trackerVars, DonationIInv, DonationTypeOK, DonationBeforeUnmap
<1>6. ShootdownOwned'
  BY <1>0 DEF ReclaimCheck, Ready, IpiPending, Goto, trackerVars, DonationIInv, DonationTypeOK, ShootdownOwned
<1>7. DonationInFlight'
  BY <1>0 DEF ReclaimCheck, Ready, IpiPending, Goto, trackerVars, DonationIInv, DonationTypeOK, DonationInFlight
<1>8. ReclaimInFlight'
  <2>0. /\ req'[c].guest = g /\ req'[c].page = p /\ pc'[c] = "remove" /\ ~alive[g]
        /\ \A d \in Cpus \ {c} : pc'[d] = pc[d] /\ req'[d] = req[d]
        /\ alive' = alive /\ donated' = donated /\ pc[c] = "idle"
    BY <1>0 DEF ReclaimCheck, Ready, Goto, trackerVars, DonationIInv, DonationTypeOK, Request
  <2>1. \A d \in Cpus : pc[d] \in {"invept", "add"} => req[d].page # p
    BY <1>0 DEF DonationIInv, DonationInFlight
  <2>. QED  BY <1>0, <2>0, <2>1 DEF DonationIInv, ReclaimInFlight
<1>9. LiveMapsDonated'
  BY <1>0 DEF ReclaimCheck, Ready, IpiPending, Goto, trackerVars, DonationIInv, DonationTypeOK, LiveMapsDonated
<1>10. TlbCoherent'
  BY <1>0 DEF ReclaimCheck, Ready, IpiPending, Goto, trackerVars, DonationIInv, DonationTypeOK, TlbCoherent
<1>. QED  BY <1>1, <1>2, <1>3, <1>4, <1>5, <1>6, <1>7, <1>8, <1>9, <1>10 DEF DonationIInv

LEMMA ReclaimRemoveIInv ==
    ASSUME DonationIInv, NEW c \in Cpus, ReclaimRemove(c)
    PROVE  DonationIInv'
<1>. DEFINE g == req[c].guest
           p == req[c].page
<1>0. /\ g \in Guests /\ p \in Pages /\ ~alive[g]
      /\ donated' \in [Guests -> RangeSet]
      /\ \A h \in Guests : Disjoint(donated'[h])
      /\ \A h \in Guests : PagesOf(donated'[h]) =
            IF h = g THEN PagesOf(donated[h]) \ {p} ELSE PagesOf(donated[h])
  <2>1. g \in Guests /\ p \in Pages /\ pc[c] = "remove" /\ ~alive[g]
    BY DEF ReclaimRemove, DonationIInv, DonationTypeOK, Request, ReclaimInFlight
  <2>2. donated[g] \in RangeSet /\ Disjoint(donated[g])
        /\ \A h \in Guests : donated[h] \in RangeSet /\ Disjoint(donated[h])
    BY <2>1, TrackerShape
  <2>3. CASE g \in keys
    <3>1. /\ RemovePage(donated[g], p) \in RangeSet
          /\ Disjoint(RemovePage(donated[g], p))
          /\ PagesOf(RemovePage(donated[g], p)) = PagesOf(donated[g]) \ {p}
      BY <2>1, <2>2, RemovePageType, RemovePageDisjoint, RemovePagePages
    <3>2. donated' = [donated EXCEPT ![g] = RemovePage(donated[g], p)]
      BY <2>3 DEF ReclaimRemove
    <3>. QED  BY <2>1, <2>2, <3>1, <3>2 DEF DonationIInv, DonationTypeOK, TrackerTypeOK
  <2>4. CASE g \notin keys
    <3>1. donated' = donated /\ PagesOf(donated[g]) = {}
      BY <2>1, <2>4, EmptyHasNoPages DEF ReclaimRemove, DonationIInv, KeysCoverRanges
    <3>. QED  BY <2>1, <2>2, <3>1 DEF DonationIInv, DonationTypeOK, TrackerTypeOK
  <2>. QED  BY <2>3, <2>4
<1>1. DonationTypeOK'
  BY <1>0 DEF ReclaimRemove, Goto, trackerVars, DonationIInv, DonationTypeOK, DonationTypeOK, TrackerTypeOK, Locs
<1>2. (KeysCoverRanges /\ NoOverlap)'
  <2>1. \A h \in Guests \ keys : donated'[h] = donated[h]
    BY <1>0 DEF ReclaimRemove, DonationIInv, DonationTypeOK, TrackerTypeOK
  <2>2. KeysCoverRanges'
    BY <2>1 DEF ReclaimRemove, DonationIInv, KeysCoverRanges
  <2>. QED  BY <1>0, <2>2 DEF NoOverlap, Disjoint
<1>3. TrackerMatchesRootEpt'
  <2>0. present' = present /\ pc' = [pc EXCEPT ![c] = "remap"] /\ req' = req
        /\ pc[c] = "remove"
    BY DEF ReclaimRemove, Goto
  <2>. SUFFICES ASSUME NEW q \in Pages
                PROVE  /\ \A h \in Guests : q \in PagesOf(donated'[h]) => ~present'[q]
                       /\ \A h1, h2 \in Guests :
                             q \in PagesOf(donated'[h1]) \cap PagesOf(donated'[h2]) => h1 = h2
    BY DEF TrackerMatchesRootEpt
  <2>1. \A h \in Guests : q \in PagesOf(donated'[h]) => ~present'[q]
    BY <1>0, <2>0 DEF DonationIInv, TrackerMatchesRootEpt
  <2>2. \A h1, h2 \in Guests : q \in PagesOf(donated'[h1]) \cap PagesOf(donated'[h2]) => h1 = h2
    BY <1>0 DEF DonationIInv, TrackerMatchesRootEpt
  <2>. QED  BY <2>1, <2>2
<1>4. LargeEntriesIntact'
  BY <1>0 DEF ReclaimRemove, Goto, trackerVars, DonationIInv, DonationTypeOK, LargeEntriesIntact
<1>5. DonationBeforeUnmap'
  BY <1>0 DEF ReclaimRemove, Goto, trackerVars, DonationIInv, DonationTypeOK, DonationBeforeUnmap
<1>6. ShootdownOwned'
  BY <1>0 DEF ReclaimRemove, Goto, trackerVars, DonationIInv, DonationTypeOK, ShootdownOwned
<1>7. DonationInFlight'
  BY <1>0 DEF ReclaimRemove, Goto, trackerVars, DonationIInv, DonationTypeOK, DonationInFlight
<1>8. ReclaimInFlight'
  BY <1>0 DEF ReclaimRemove, Goto, trackerVars, DonationIInv, DonationTypeOK, ReclaimInFlight
<1>9. LiveMapsDonated'
  BY <1>0 DEF ReclaimRemove, Goto, trackerVars, DonationIInv, DonationTypeOK, LiveMapsDonated
<1>10. TlbCoherent'
  BY <1>0 DEF ReclaimRemove, Goto, trackerVars, DonationIInv, DonationTypeOK, TlbCoherent
<1>. QED  BY <1>1, <1>2, <1>3, <1>4, <1>5, <1>6, <1>7, <1>8, <1>9, <1>10 DEF DonationIInv

LEMMA ReclaimRemapIInv ==
    ASSUME DonationIInv, NEW c \in Cpus, ReclaimRemap(c)
    PROVE  DonationIInv'
<1>0. /\ req[c].page \in Pages /\ pc[c] = "remap"
      /\ \A h \in Guests : req[c].page \notin PagesOf(donated[h])
      /\ \A d \in Cpus : pc[d] \in {"invept", "add"} => req[d].page # req[c].page
  BY DEF ReclaimRemap, DonationIInv, DonationTypeOK, Request, ReclaimInFlight
<1>1. DonationTypeOK'
  BY <1>0 DEF ReclaimRemap, Goto, trackerVars, DonationIInv, DonationTypeOK, DonationTypeOK, TrackerTypeOK, Locs
<1>2. (KeysCoverRanges /\ NoOverlap)'
  BY <1>0 DEF ReclaimRemap, Goto, trackerVars, DonationIInv, DonationTypeOK, KeysCoverRanges, NoOverlap
<1>3. TrackerMatchesRootEpt'
  BY <1>0 DEF ReclaimRemap, Goto, trackerVars, DonationIInv, DonationTypeOK, TrackerMatchesRootEpt, InFlight
<1>4. LargeEntriesIntact'
  BY <1>0 DEF ReclaimRemap, Goto, trackerVars, DonationIInv, DonationTypeOK, LargeEntriesIntact
<1>5. DonationBeforeUnmap'
  BY <1>0 DEF ReclaimRemap, Goto, trackerVars, DonationIInv, DonationTypeOK, DonationBeforeUnmap
<1>6. ShootdownOwned'
  BY <1>0 DEF ReclaimRemap, Goto, trackerVars, DonationIInv, DonationTypeOK, ShootdownOwned
<1>7. DonationInFlight'
  BY <1>0 DEF ReclaimRemap, Goto, trackerVars, DonationIInv, DonationTypeOK, DonationInFlight
<1>8. ReclaimInFlight'
  BY <1>0 DEF ReclaimRemap, Goto, trackerVars, DonationIInv, DonationTypeOK, ReclaimInFlight
<1>9. LiveMapsDonated'
  BY <1>0 DEF ReclaimRemap, Goto, trackerVars, DonationIInv, DonationTypeOK, LiveMapsDonated
<1>10. TlbCoherent'
  BY <1>0 DEF ReclaimRemap, Goto, trackerVars, DonationIInv, DonationTypeOK, TlbCoherent
<1>. QED  BY <1>1, <1>2, <1>3, <1>4, <1>5, <1>6, <1>7, <1>8, <1>9, <1>10 DEF DonationIInv

LEMMA ReclaimRootPagesIInv ==
    ASSUME DonationIInv, NEW c \in Cpus, NEW g \in Guests, ReclaimRootPages(c, g)
    PROVE  DonationIInv'
<1>0. /\ \A h \in Guests : PagesOf(donated'[h]) =
            IF h = g THEN {} ELSE PagesOf(donated[h])
      /\ \A h \in Guests \ {g} : PagesOf(donated[h]) \cap PagesOf(donated[g]) = {}
      /\ donated' \in [Guests -> RangeSet]
  <2>1. \A h \in Guests \ {g} : PagesOf(donated[h]) \cap PagesOf(donated[g]) = {}
    BY PagesOfSubset DEF DonationIInv, TrackerMatchesRootEpt
  <2>2. EmptyRangeSet \in RangeSet
    BY NumPagesAssumption DEF EmptyRangeSet, RangeSet, Pages
  <2>. QED  BY <2>1, <2>2, EmptyHasNoPages
            DEF ReclaimRootPages, DonationIInv, DonationTypeOK, TrackerTypeOK
<1>1. DonationTypeOK'
  BY <1>0 DEF ReclaimRootPages, Ready, IpiPending, trackerVars, DonationIInv, DonationTypeOK, DonationTypeOK, TrackerTypeOK, Locs
<1>2. (KeysCoverRanges /\ NoOverlap)'
  <2>1. \A h \in Guests : Disjoint(donated'[h])
    <3>. SUFFICES ASSUME NEW h \in Guests PROVE Disjoint(donated'[h])
      OBVIOUS
    <3>1. CASE h = g
      BY <3>1 DEF ReclaimRootPages, DonationIInv, DonationTypeOK, TrackerTypeOK,
                  Disjoint, Starts, EmptyRangeSet
    <3>2. CASE h # g
      BY <3>2, TrackerShape DEF ReclaimRootPages, DonationIInv, DonationTypeOK, TrackerTypeOK
    <3>. QED  BY <3>1, <3>2
  <2>2. KeysCoverRanges'
    BY DEF ReclaimRootPages, DonationIInv, DonationTypeOK, TrackerTypeOK, KeysCoverRanges
  <2>. QED  BY <2>1, <2>2 DEF NoOverlap, Disjoint
<1>3. TrackerMatchesRootEpt'
  BY <1>0 DEF ReclaimRootPages, Ready, IpiPending, trackerVars, DonationIInv, DonationTypeOK, TrackerMatchesRootEpt, InFlight
<1>4. LargeEntriesIntact'
  BY <1>0 DEF ReclaimRootPages, Ready, IpiPending, trackerVars, DonationIInv, DonationTypeOK, LargeEntriesIntact
<1>5. DonationBeforeUnmap'
  BY <1>0 DEF ReclaimRootPages, Ready, IpiPending, trackerVars, DonationIInv, DonationTypeOK, Request, DonationBeforeUnmap
<1>6. ShootdownOwned'
  BY <1>0 DEF ReclaimRootPages, Ready, IpiPending, trackerVars, DonationIInv, DonationTypeOK, ShootdownOwned
<1>7. DonationInFlight'
  BY <1>0 DEF ReclaimRootPages, Ready, IpiPending, trackerVars, DonationIInv, DonationTypeOK, Request, DonationInFlight
<1>8. ReclaimInFlight'
  BY <1>0 DEF ReclaimRootPages, Ready, IpiPending, trackerVars, DonationIInv, DonationTypeOK, ReclaimInFlight
<1>9. LiveMapsDonated'
  BY <1>0 DEF ReclaimRootPages, Ready, IpiPending, trackerVars, DonationIInv, DonationTypeOK, LiveMapsDonated
<1>10. TlbCoherent'
  BY <1>0 DEF ReclaimRootPages, Ready, IpiPending, trackerVars, DonationIInv, DonationTypeOK, TlbCoherent
<1>. QED  BY <1>1, <1>2, <1>3, <1>4, <1>5, <1>6, <1>7, <1>8, <1>9, <1>10 DEF DonationIInv


LEMMA DonateAddFailsIInv ==
    ASSUME DonationIInv, NEW c \in Cpus, DonateAddFails(c)
    PROVE  DonationIInv'
<1>0. /\ req[c].guest \in Guests /\ pc[c] = "add"
      /\ donated' = donated
      /\ keys \subseteq keys' /\ keys' \subseteq keys \cup {req[c].guest}
      /\ pc' = [pc EXCEPT ![c] = "idle"]
      /\ UNCHANGED <<present, large, guestEpt, tlb, alive, shootdown, req>>
  BY DEF DonateAddFails, Goto, trackerVars, DonationIInv, DonationTypeOK, Request
<1>1. DonationTypeOK'
  BY <1>0 DEF DonationIInv, DonationTypeOK, TrackerTypeOK, Locs
<1>2. (KeysCoverRanges /\ NoOverlap)'
  BY <1>0 DEF DonationIInv, KeysCoverRanges, NoOverlap
<1>3. TrackerMatchesRootEpt'
  BY <1>0 DEF DonationIInv, TrackerMatchesRootEpt
<1>4. LargeEntriesIntact'
  BY <1>0 DEF DonationIInv, LargeEntriesIntact
<1>5. DonationBeforeUnmap'
  BY <1>0 DEF DonationIInv, DonationTypeOK, DonationBeforeUnmap
<1>6. ShootdownOwned'
  BY <1>0 DEF DonationIInv, DonationTypeOK, ShootdownOwned
<1>7. DonationInFlight'
  BY <1>0 DEF DonationIInv, DonationTypeOK, DonationInFlight
<1>8. ReclaimInFlight'
  BY <1>0 DEF DonationIInv, DonationTypeOK, ReclaimInFlight
<1>9. LiveMapsDonated'
  BY <1>0 DEF DonationIInv, DonationTypeOK, LiveMapsDonated
<1>10. TlbCoherent'
  BY <1>0 DEF DonationIInv, DonationTypeOK, TlbCoherent
<1>. QED  BY <1>1, <1>2, <1>3, <1>4, <1>5, <1>6, <1>7, <1>8, <1>9, <1>10 DEF DonationIInv

LEMMA DonationIInvStep == DonationIInv /\ [Next]_vars => DonationIInv'
<1> SUFFICES ASSUME DonationIInv, [Next]_vars PROVE DonationIInv'
  OBVIOUS
<1>1. ASSUME NEW c \in Cpus, CpuStep(c) PROVE DonationIInv'
  BY <1>1, DonateResolveIInv, DonateBeginShootdownIInv, DonateUnmapIInv,
     DonateSplitFailsIInv, DonateInveptIInv, DonateAddIInv, DonateAddFailsIInv,
     DonateMapGuestIInv,
     ReclaimRemoveIInv, ReclaimRemapIInv, AckShootdownIInv, ResumeFromShootdownIInv
     DEF CpuStep
<1>2. ASSUME NEW c \in Cpus, Hypercall(c) PROVE DonationIInv'
  BY <1>2, DonateCheckIInv, ReclaimCheckIInv, ReclaimRootPagesIInv DEF Hypercall
<1>3. ASSUME NEW c \in Cpus, NEW p \in Pages, CacheTranslation(c, p) PROVE DonationIInv'
  BY <1>3, CacheTranslationIInv
<1>4. ASSUME NEW g \in Guests, DestroyDomain(g) PROVE DonationIInv'
  BY <1>4, DestroyDomainIInv
<1>5. CASE UNCHANGED vars
  <2>1. /\ donated' = donated /\ keys' = keys /\ present' = present /\ large' = large
        /\ guestEpt' = guestEpt /\ tlb' = tlb /\ alive' = alive
        /\ shootdown' = shootdown /\ pc' = pc /\ req' = req
    BY <1>5 DEF vars, trackerVars, protoVars
  <2>2. (DonationTypeOK /\ KeysCoverRanges /\ NoOverlap)'
    BY <2>1 DEF DonationIInv, DonationTypeOK, TrackerTypeOK, KeysCoverRanges, NoOverlap
  <2>3. (TrackerMatchesRootEpt /\ LargeEntriesIntact)'
    BY <2>1 DEF DonationIInv, TrackerMatchesRootEpt, InFlight, LargeEntriesIntact
  <2>4. (DonationBeforeUnmap /\ ShootdownOwned /\ DonationInFlight)'
    BY <2>1 DEF DonationIInv, DonationBeforeUnmap, ShootdownOwned, DonationInFlight
  <2>5. (ReclaimInFlight /\ LiveMapsDonated /\ TlbCoherent)'
    BY <2>1 DEF DonationIInv, ReclaimInFlight, LiveMapsDonated, TlbCoherent
  <2>. QED  BY <2>2, <2>3, <2>4, <2>5 DEF DonationIInv
<1>6. QED
  BY <1>1, <1>2, <1>3, <1>4, <1>5 DEF Next

LEMMA DonationIInvariant == Spec => []DonationIInv
BY InitIInv, DonationIInvStep, PTL DEF Spec

\* What the invariant says of one page a live borrower maps: the tracker
\* records it for that borrower, the root's EPT lacks it, and no CPU that
\* can run the root holds a translation of it.
LEMMA LentPageIsolated ==
    ASSUME DonationIInv, NEW g \in Guests, NEW gg \in GuestGpas,
           alive[g], guestEpt[g][gg] # NoPage
    PROVE  LET p == guestEpt[g][gg]
           IN  /\ p \in Pages
               /\ p \in PagesOf(donated[g])
               /\ ~present[p]
               /\ \A c \in Cpus : pc[c] # "parked" => p \notin tlb[c]
<1>. DEFINE p == guestEpt[g][gg]
<1>1. p \in Pages /\ p \in PagesOf(donated[g])
  BY DEF DonationIInv, DonationTypeOK, LiveMapsDonated
<1>2. ~present[p]
  BY <1>1 DEF DonationIInv, TrackerMatchesRootEpt
<1>3. ASSUME NEW c \in Cpus, pc[c] # "parked", p \in tlb[c] PROVE FALSE
  <2>1. pc[c] = "invept" /\ req[c].page = p
    BY <1>2, <1>3 DEF DonationIInv, TlbCoherent
  <2>2. p \notin PagesOf(donated[g])
    BY <2>1 DEF DonationIInv, DonationInFlight
  <2>. QED  BY <1>1, <2>2
<1>. QED  BY <1>1, <1>2, <1>3

LEMMA IInvRootIsolation == DonationIInv => RootIsolation
<1> SUFFICES ASSUME DonationIInv, NEW p \in LentToLive
             PROVE  /\ ~present[p]
                    /\ \A c \in Cpus : pc[c] # "parked" => p \notin tlb[c]
                    /\ \A g, h \in Guests :
                          (alive[g] /\ alive[h] /\ \E gg, hh \in GuestGpas :
                               guestEpt[g][gg] = p /\ guestEpt[h][hh] = p) => g = h
  BY DEF RootIsolation
<1>1. PICK g0 \in Guests, gg0 \in GuestGpas :
         alive[g0] /\ guestEpt[g0][gg0] = p /\ p # NoPage
  BY DEF LentToLive
<1>2. ~present[p] /\ \A c \in Cpus : pc[c] # "parked" => p \notin tlb[c]
  BY <1>1, LentPageIsolated
<1>3. ASSUME NEW g \in Guests, NEW h \in Guests, alive[g], alive[h],
             NEW gg \in GuestGpas, NEW hh \in GuestGpas,
             guestEpt[g][gg] = p, guestEpt[h][hh] = p
      PROVE  g = h
  <2>1. p \in Pages /\ p \in PagesOf(donated[g]) /\ p \in PagesOf(donated[h])
    BY <1>1, <1>3, LentPageIsolated
  <2>. QED  BY <2>1 DEF DonationIInv, TrackerMatchesRootEpt
<1>. QED  BY <1>2, <1>3

LEMMA IInvGuestMaps ==
    ASSUME DonationIInv, [Next]_vars
    PROVE  \A g \in Guests, gg \in GuestGpas :
               (alive[g] /\ guestEpt'[g][gg] # guestEpt[g][gg])
                  => guestEpt'[g][gg] \in PagesOf(donated[g])
<1> SUFFICES ASSUME NEW g \in Guests, NEW gg \in GuestGpas, alive[g],
                    guestEpt'[g][gg] # guestEpt[g][gg]
             PROVE  guestEpt'[g][gg] \in PagesOf(donated[g])
  OBVIOUS
<1>1. PICK c \in Cpus : DonateMapGuest(c)
  BY DEF Next, vars, protoVars, CpuStep, Hypercall, DonateResolve, DonateBeginShootdown,
         DonateUnmap, DonateSplitFails, DonateInvept, DonateAdd, DonateAddFails, DonateMapGuest,
         ReclaimRemove, ReclaimRemap, AckShootdown, ResumeFromShootdown,
         DonateCheck, ReclaimCheck, ReclaimRootPages, CacheTranslation, DestroyDomain
<1>2. g = req[c].guest /\ gg = req[c].slot
  BY <1>1 DEF DonateMapGuest, DonationIInv, DonationTypeOK
<1>3. guestEpt'[g][gg] = req[c].page
  BY <1>1, <1>2 DEF DonateMapGuest, DonationIInv, DonationTypeOK
<1>. QED  BY <1>1, <1>2, <1>3 DEF DonateMapGuest, DonationIInv, LiveMapsDonated

-----------------------------------------------------------------------------
\* Every step of donate_root_page, reclaim_root_page and reclaim_root_pages,
\* of the shootdown and of the TLBs keeps the tracker, the root's and the
\* borrowers' EPTs, the CPUs' handler states and their requests well formed.
THEOREM DonationTypeCorrect == Spec => []DonationTypeOK
BY DonationIInvariant, PTL DEF DonationIInv

\* Isolation: a page a live borrower's EPT maps is absent from the root's
\* EPT and from the TLB of every CPU that can run the root, and no other
\* live borrower maps it: the shootdown of donate_root_page flushes every
\* stale translation, and reclaim_root_page remaps only after removing.
THEOREM DonationRootIsolation == Spec => []RootIsolation
BY DonationIInvariant, IInvRootIsolation, PTL

\* The tracker agrees with the root's EPT: a page recorded as donated is
\* unmapped from the root, recorded for one borrower only, and an unmapped
\* page is recorded unless a donation or a reclaim is between its halves.
THEOREM DonationTrackerMatchesRootEpt == Spec => []TrackerMatchesRootEpt
BY DonationIInvariant, PTL DEF DonationIInv

\* A 2M entry of the root's EPT stands only for pages the root owns:
\* donate_root_page splits a 2M region (identity_map_convert_2m_to_4k)
\* before unmapping one of its pages, on the page size read before the
\* shootdown, which no other CPU can change while the initiator waits.
THEOREM DonationLargeEntriesIntact == Spec => []LargeEntriesIntact
BY DonationIInvariant, PTL DEF DonationIInv

\* Action property: a live borrower's EPT gains only a page the tracker
\* records as donated to it: map_4k in donate_root_page follows
\* add_page_to_donated_range or page_already_donated.
THEOREM DonationGuestMapsOnlyDonatedPages == Spec => GuestMapsOnlyDonatedPages
<1>1. DonationIInv /\ [Next]_vars =>
        [\A g \in Guests, gg \in GuestGpas :
            (alive[g] /\ guestEpt'[g][gg] # guestEpt[g][gg])
               => guestEpt'[g][gg] \in PagesOf(donated[g])]_vars
  BY IInvGuestMaps
<1>. QED  BY <1>1, DonationIInvariant, PTL DEF Spec, GuestMapsOnlyDonatedPages

=============================================================================
