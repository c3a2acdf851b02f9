------------------------------ MODULE Donation ------------------------------
(***************************************************************************)
(* The root domain's page-donation protocol (domain.cpp, donate_root_page, *)
(* reclaim_root_page, reclaim_root_pages, lines 518-654) run concurrently  *)
(* by the root vCPUs, one per physical CPU.                                *)
(*                                                                         *)
(* State: the root's EPT (identity map, 2M regions that are split to 4K    *)
(* pages on demand, 4K pages present or not), each borrower's EPT, the     *)
(* translations each CPU caches, the donated-page tracker of module        *)
(* DonatedPages, the domain registry, and the TLB shootdown in flight.     *)
(*                                                                         *)
(* Each step is one lock section or one call whose effect other CPUs can   *)
(* observe; a handler's steps run in program order, and another CPU may    *)
(* act between any two of them.                                            *)
(*                                                                         *)
(* The shootdown primitive (vcpu::begin_shootdown / end_shootdown) is not  *)
(* under src/ and is modelled from spec sections 4.3 and 5: begin returns  *)
(* AGAIN while another shootdown is in flight, otherwise it IPIs every     *)
(* other root CPU and waits until each has acknowledged; a CPU takes the   *)
(* IPI only between two VM exits (the VMM runs with interrupts masked),    *)
(* spins in its handler until the shootdown ends, then invalidates its     *)
(* cached translations (INVEPT) and goes back to the guest.                *)
(***************************************************************************)
EXTENDS DonatedPages

CONSTANTS
    Cpus,           \* the physical CPUs, each running one root vCPU
    RegionPages,    \* 4K pages per 2M region (512 on x86-64)
    GuestGpas,      \* guest-physical page slots a donation can target
    NoCpu,          \* no shootdown in flight
    NoPage,         \* a guest EPT slot with no root page behind it
    AllocFails      \* whether a heap allocation can throw std::bad_alloc

ASSUME DonationAssumption ==
    /\ RegionPages \in Nat \ {0}
    /\ NumPages % RegionPages = 0
    /\ NoCpu \notin Cpus
    /\ NoPage \notin Pages
    /\ AllocFails \in BOOLEAN
    /\ Guests # {} /\ GuestGpas # {}    \* NoRequest names a borrower and a slot

Regions == 0 .. (NumPages \div RegionPages) - 1

RegionOf(p) == p \div RegionPages

VARIABLES
    present,    \* present[p]: the root's EPT maps page p (always 1:1)
    large,      \* large[r]: region r is one 2M entry of the root's EPT
    guestEpt,   \* guestEpt[g][gg]: the root page behind guest page gg of g
    tlb,        \* tlb[c]: root pages whose translation CPU c caches
    alive,      \* alive[g]: get_domain(g) still finds borrower g
    shootdown,  \* the CPU whose TLB shootdown is in flight, or NoCpu
    pc,         \* pc[c]: where CPU c is
    req         \* req[c]: the arguments and locals of c's current handler

protoVars == <<present, large, guestEpt, tlb, alive, shootdown, pc, req>>
vars == <<trackerVars, protoVars>>

Locs == {"idle", "resolve", "begin", "wait", "invept", "add", "map_guest",
         "remove", "remap", "parked"}

Request == [guest : Guests, page : Pages, slot : GuestGpas, from2m : BOOLEAN]

NoRequest == [guest |-> CHOOSE g \in Guests : TRUE, page |-> 0,
              slot |-> CHOOSE gg \in GuestGpas : TRUE, from2m |-> FALSE]

-----------------------------------------------------------------------------
\* CPU c has an IPI of the shootdown in flight still to take.
IpiPending(c) == shootdown \notin {NoCpu, c} /\ pc[c] # "parked"

\* A CPU back in its guest, able to start a handler.
Ready(c) == pc[c] = "idle" /\ ~IpiPending(c)

Init ==
    /\ TrackerInit
    /\ present = [p \in Pages |-> TRUE]
    /\ large = [r \in Regions |-> TRUE]
    /\ guestEpt = [g \in Guests |-> [gg \in GuestGpas |-> NoPage]]
    /\ tlb = [c \in Cpus |-> {}]
    /\ alive = [g \in Guests |-> TRUE]
    /\ shootdown = NoCpu
    /\ pc = [c \in Cpus |-> "idle"]
    /\ req = [c \in Cpus |-> NoRequest]

Goto(c, l) == pc' = [pc EXCEPT ![c] = l]

-----------------------------------------------------------------------------
(***************************************************************************)
(* donate_root_page(root, root_gpa, guest_dom, guest_gpa, ...) on CPU c.   *)
(* The hypercall layer hands it a live borrower.                           *)
(***************************************************************************)
\* Seeded fault: the one-argument page_already_donated (line 371), which
\* looks at every borrower, called instead of the per-borrower one.
DonateCheckAnyBorrower(c, g, p, gg) ==
    /\ Ready(c)
    /\ alive[g]
    /\ req' = [req EXCEPT ![c] = [guest |-> g, page |-> p, slot |-> gg, from2m |-> FALSE]]
    /\ Goto(c, IF \E h \in Guests : PageAlreadyDonated(h, p) THEN "map_guest" ELSE "resolve")
    /\ UNCHANGED <<trackerVars, present, large, guestEpt, tlb, alive, shootdown>>

DonateCheck(c, g, p, gg) ==
    /\ Ready(c)
    /\ alive[g]
    /\ req' = [req EXCEPT ![c] = [guest |-> g, page |-> p, slot |-> gg, from2m |-> FALSE]]
    /\ Goto(c, IF PageAlreadyDonated(g, p) THEN "map_guest" ELSE "resolve")
    /\ UNCHANGED <<trackerVars, present, large, guestEpt, tlb, alive, shootdown>>

\* gpa_to_hpa throws on a page the root no longer maps: FAILURE.
DonateResolve(c) ==
    /\ pc[c] = "resolve"
    /\ IF present[req[c].page]
       THEN /\ req' = [req EXCEPT ![c].from2m = large[RegionOf(req[c].page)]]
            /\ Goto(c, "begin")
       ELSE /\ Goto(c, "idle")
            /\ UNCHANGED req
    /\ UNCHANGED <<trackerVars, present, large, guestEpt, tlb, alive, shootdown>>

\* begin_shootdown: AGAIN while one is in flight.
DonateBeginShootdown(c) ==
    /\ pc[c] = "begin"
    /\ IF shootdown = NoCpu
       THEN /\ shootdown' = c
            /\ Goto(c, "wait")
       ELSE /\ Goto(c, "idle")
            /\ UNCHANGED shootdown
    /\ UNCHANGED <<trackerVars, present, large, guestEpt, tlb, alive, req>>

\* Once every other CPU is parked: split the 2M entry if gpa_to_hpa said
\* the page came from one, unmap the page, end the shootdown.
\* Seeded faults: the 2M entry is never split; end_shootdown is forgotten.
DonateUnmapNoSplit(c) ==
    /\ pc[c] = "wait"
    /\ \A d \in Cpus \ {c} : pc[d] = "parked"
    /\ present' = [present EXCEPT ![req[c].page] = FALSE]
    /\ shootdown' = NoCpu
    /\ Goto(c, "invept")
    /\ UNCHANGED <<trackerVars, large, guestEpt, tlb, alive, req>>

DonateUnmapNoEnd(c) ==
    LET p == req[c].page
    IN  /\ pc[c] = "wait"
        /\ \A d \in Cpus \ {c} : pc[d] = "parked"
        /\ large' = IF req[c].from2m THEN [large EXCEPT ![RegionOf(p)] = FALSE]
                                     ELSE large
        /\ present' = [present EXCEPT ![p] = FALSE]
        /\ Goto(c, "invept")
        /\ UNCHANGED <<trackerVars, guestEpt, tlb, alive, shootdown, req>>

DonateUnmap(c) ==
    LET p == req[c].page
    IN  /\ pc[c] = "wait"
        /\ \A d \in Cpus \ {c} : pc[d] = "parked"
        /\ large' = IF req[c].from2m THEN [large EXCEPT ![RegionOf(p)] = FALSE]
                                     ELSE large
        /\ present' = [present EXCEPT ![p] = FALSE]
        /\ shootdown' = NoCpu
        /\ Goto(c, "invept")
        /\ UNCHANGED <<trackerVars, guestEpt, tlb, alive, req>>

\* identity_map_convert_2m_to_4k allocates the page table of the 4K
\* entries and throws when that fails: the catch block (558-564) returns
\* FAILURE, with the page still mapped and end_shootdown never called.
DonateSplitFails(c) ==
    /\ pc[c] = "wait"
    /\ \A d \in Cpus \ {c} : pc[d] = "parked"
    /\ AllocFails
    /\ req[c].from2m
    /\ Goto(c, "idle")
    /\ UNCHANGED <<trackerVars, present, large, guestEpt, tlb, alive, shootdown, req>>

\* Seeded fault: root->invept() left out.
DonateInveptNoFlush(c) ==
    /\ pc[c] = "invept"
    /\ Goto(c, "add")
    /\ UNCHANGED <<trackerVars, present, large, guestEpt, tlb, alive, shootdown, req>>

\* root->invept()
DonateInvept(c) ==
    /\ pc[c] = "invept"
    /\ tlb' = [tlb EXCEPT ![c] = {}]
    /\ Goto(c, "add")
    /\ UNCHANGED <<trackerVars, present, large, guestEpt, alive, shootdown, req>>

\* add_page_to_donated_range: no second look at page_already_donated.
DonateAdd(c) ==
    LET g == req[c].guest
    IN  /\ pc[c] = "add"
        /\ donated' = [donated EXCEPT ![g] = AddPage(@, req[c].page)]
        /\ keys' = keys \cup {g}
        /\ Goto(c, "map_guest")
        /\ UNCHANGED <<present, large, guestEpt, tlb, alive, shootdown, req>>

\* add_page_to_donated_range throws std::bad_alloc: at make_unique or the
\* map's node (line 418) when the borrower has no entry yet, which then
\* stays absent, or at the emplace of a new range (424, 437, 455), after
\* the entry was made.  The catch block (558-564) returns FAILURE; the page
\* stays unmapped from the root.
DonateAddFails(c) ==
    LET g == req[c].guest
    IN  /\ pc[c] = "add"
        /\ AllocFails
        /\ \/ g \notin keys /\ UNCHANGED trackerVars
           \/ AddPageEmplaces(donated[g], req[c].page)
              /\ keys' = keys \cup {g} /\ UNCHANGED donated
        /\ Goto(c, "idle")
        /\ UNCHANGED <<present, large, guestEpt, tlb, alive, shootdown, req>>

\* guest_dom->ept().map_4k(guest_gpa, root_gpa_4k, ...): SUCCESS.
DonateMapGuest(c) ==
    /\ pc[c] = "map_guest"
    /\ guestEpt' = [guestEpt EXCEPT ![req[c].guest][req[c].slot] = req[c].page]
    /\ Goto(c, "idle")
    /\ UNCHANGED <<trackerVars, present, large, tlb, alive, shootdown, req>>

-----------------------------------------------------------------------------
(***************************************************************************)
(* reclaim_root_page(guest_domid, root_gpa) on CPU c: only once the        *)
(* borrower is gone from the registry, and only for a donated page.  A     *)
(* failed check changes nothing.  A dead borrower never comes back, so     *)
(* reading alive and then the tracker is one step.                         *)
(***************************************************************************)
ReclaimCheck(c, g, p) ==
    /\ Ready(c)
    /\ ~alive[g]
    /\ PageAlreadyDonated(g, p)
    /\ req' = [req EXCEPT ![c] = [req[c] EXCEPT !.guest = g, !.page = p]]
    /\ Goto(c, "remove")
    /\ UNCHANGED <<trackerVars, present, large, guestEpt, tlb, alive, shootdown>>

\* remove_page_from_donated_range
ReclaimRemove(c) ==
    LET g == req[c].guest
    IN  /\ pc[c] = "remove"
        /\ donated' = IF g \in keys THEN [donated EXCEPT ![g] = RemovePage(@, req[c].page)]
                                    ELSE donated
        /\ Goto(c, "remap")
        /\ UNCHANGED <<keys, present, large, guestEpt, tlb, alive, shootdown, req>>

\* map_4k_rwe(root_gpa_4k, root_gpa_4k): no shootdown, the page was absent.
ReclaimRemap(c) ==
    /\ pc[c] = "remap"
    /\ present' = [present EXCEPT ![req[c].page] = TRUE]
    /\ Goto(c, "idle")
    /\ UNCHANGED <<trackerVars, large, guestEpt, tlb, alive, shootdown, req>>

\* Seeded fault: the pages are mapped back but the entry is not erased.
ReclaimRootPagesNoErase(c, g) ==
    /\ Ready(c)
    /\ ~alive[g]
    /\ g \in keys
    /\ present' = [p \in Pages |-> present[p] \/ p \in PagesOf(donated[g])]
    /\ UNCHANGED <<trackerVars, large, guestEpt, tlb, alive, shootdown, pc, req>>

\* reclaim_root_pages(guest_domid): under the tracker lock, every page of
\* every range of the borrower is mapped back, then its entry is erased.
ReclaimRootPages(c, g) ==
    /\ Ready(c)
    /\ ~alive[g]
    /\ g \in keys
    /\ present' = [p \in Pages |-> present[p] \/ p \in PagesOf(donated[g])]
    /\ donated' = [donated EXCEPT ![g] = EmptyRangeSet]
    /\ keys' = keys \ {g}
    /\ UNCHANGED <<large, guestEpt, tlb, alive, shootdown, pc, req>>

-----------------------------------------------------------------------------
(***************************************************************************)
(* The environment: the shootdown IPI, the TLBs, the domain registry.      *)
(***************************************************************************)
\* A CPU back in its guest takes the IPI and spins in the handler.
AckShootdown(c) ==
    /\ pc[c] = "idle"
    /\ IpiPending(c)
    /\ Goto(c, "parked")
    /\ UNCHANGED <<trackerVars, present, large, guestEpt, tlb, alive, shootdown, req>>

\* The shootdown ended: the CPU invalidates its translations and resumes.
ResumeFromShootdown(c) ==
    /\ pc[c] = "parked"
    /\ shootdown = NoCpu
    /\ tlb' = [tlb EXCEPT ![c] = {}]
    /\ Goto(c, "idle")
    /\ UNCHANGED <<trackerVars, present, large, guestEpt, alive, shootdown, req>>

\* The root running on CPU c touches page p: the walk caches its translation.
CacheTranslation(c, p) ==
    /\ pc[c] = "idle"
    /\ present[p]
    /\ tlb' = [tlb EXCEPT ![c] = @ \cup {p}]
    /\ UNCHANGED <<trackerVars, present, large, guestEpt, alive, shootdown, pc, req>>

\* The borrower is destroyed and leaves the registry.
DestroyDomain(g) ==
    /\ alive[g]
    /\ alive' = [alive EXCEPT ![g] = FALSE]
    /\ UNCHANGED <<trackerVars, present, large, guestEpt, tlb, shootdown, pc, req>>

-----------------------------------------------------------------------------
\* The steps of a handler already running on CPU c, and the IPI.
CpuStep(c) ==
    \/ DonateResolve(c) \/ DonateBeginShootdown(c) \/ DonateUnmap(c) \/ DonateSplitFails(c)
    \/ DonateInvept(c) \/ DonateAdd(c) \/ DonateAddFails(c) \/ DonateMapGuest(c)
    \/ ReclaimRemove(c) \/ ReclaimRemap(c)
    \/ AckShootdown(c) \/ ResumeFromShootdown(c)

\* A hypercall the root issues on CPU c.
Hypercall(c) ==
    \/ \E g \in Guests, p \in Pages, gg \in GuestGpas : DonateCheck(c, g, p, gg)
    \/ \E g \in Guests, p \in Pages : ReclaimCheck(c, g, p)
    \/ \E g \in Guests : ReclaimRootPages(c, g)

Next ==
    \/ \E c \in Cpus : CpuStep(c) \/ Hypercall(c)
    \/ \E c \in Cpus, p \in Pages : CacheTranslation(c, p)
    \/ \E g \in Guests : DestroyDomain(g)

\* Every CPU finishes the handler it is in and takes the IPIs sent to it;
\* nothing obliges the root to issue hypercalls.
Fairness == \A c \in Cpus : WF_vars(CpuStep(c))

Spec == Init /\ [][Next]_vars /\ Fairness

-----------------------------------------------------------------------------
DonationTypeOK ==
    /\ TrackerTypeOK
    /\ present \in [Pages -> BOOLEAN]
    /\ large \in [Regions -> BOOLEAN]
    /\ guestEpt \in [Guests -> [GuestGpas -> Pages \cup {NoPage}]]
    /\ tlb \in [Cpus -> SUBSET Pages]
    /\ alive \in [Guests -> BOOLEAN]
    /\ shootdown \in Cpus \cup {NoCpu}
    /\ pc \in [Cpus -> Locs]
    /\ req \in [Cpus -> Request]

\* The root pages the EPT of a live borrower maps.
LentToLive == {guestEpt[g][gg] : g \in {h \in Guests : alive[h]}, gg \in GuestGpas} \ {NoPage}

(***************************************************************************)
(* Isolation, the point of the whole protocol: a root page a live borrower *)
(* maps is absent from the root's EPT and from the cached translations of  *)
(* every CPU that can run the root, and no other live borrower maps it.    *)
(* Breaking it takes a stale TLB entry surviving the shootdown, a remap    *)
(* by a reclaim that raced a donation, or a second donation of the page.   *)
(***************************************************************************)
RootIsolation ==
    \A p \in LentToLive :
        /\ ~present[p]
        /\ \A c \in Cpus : pc[c] # "parked" => p \notin tlb[c]
        /\ \A g, h \in Guests :
              (alive[g] /\ alive[h] /\ \E gg, hh \in GuestGpas :
                   guestEpt[g][gg] = p /\ guestEpt[h][hh] = p) => g = h

\* A donation between its unmap and its add_page_to_donated_range, or a
\* reclaim between its remove and its map_4k_rwe.
InFlight(p) == \E c \in Cpus : req[c].page = p /\ pc[c] \in {"invept", "add", "remap"}

(***************************************************************************)
(* The tracker is the root's record of what it lent: a page tracked for a  *)
(* borrower is absent from the root's EPT, and is tracked for exactly one  *)
(* borrower.  Otherwise a reclaim would map back a page a borrower still   *)
(* holds, or a reclaim for one borrower would take a page another holds.   *)
(***************************************************************************)
TrackerMatchesRootEpt ==
    \A p \in Pages :
        /\ \A g \in Guests : p \in PagesOf(donated[g]) => ~present[p]
        /\ \A g, h \in Guests :
              p \in PagesOf(donated[g]) \cap PagesOf(donated[h]) => g = h

(***************************************************************************)
(* No page is lost to the root: a page absent from the root's EPT is       *)
(* tracked for a borrower, so that a reclaim can give it back, but for the *)
(* instants a donation or a reclaim is between its two halves.  Spec       *)
(* section 4.3 step 8: a failed donation leaves no partial state.          *)
(***************************************************************************)
UnmappedPagesTracked ==
    \A p \in Pages :
        ~present[p] => (\E g \in Guests : p \in PagesOf(donated[g])) \/ InFlight(p)

(***************************************************************************)
(* Action property: a live borrower's EPT only ever gains a root page that *)
(* the tracker records as donated to that borrower (donate_root_page maps  *)
(* after add_page_to_donated_range, or when page_already_donated said so). *)
(***************************************************************************)
GuestMapsOnlyDonatedPages ==
    [][\A g \in Guests, gg \in GuestGpas :
          (alive[g] /\ guestEpt'[g][gg] # guestEpt[g][gg])
             => guestEpt'[g][gg] \in PagesOf(donated[g])]_vars

(***************************************************************************)
(* A 2M entry of the root's EPT stands only for a region all of whose      *)
(* pages the root still owns: donating a page of a 2M region first splits  *)
(* it (identity_map_convert_2m_to_4k, line 548), on the strength of the    *)
(* page size gpa_to_hpa reported before the shootdown began (line 532).    *)
(***************************************************************************)
LargeEntriesIntact ==
    \A r \in Regions : large[r] => \A p \in Pages : RegionOf(p) = r => present[p]

(***************************************************************************)
(* Every hypercall handler returns to its guest, and every CPU parked by a *)
(* shootdown resumes: the initiator's wait for acknowledgements, the only  *)
(* wait on other CPUs, always ends (spec section 5).                       *)
(***************************************************************************)
HandlersReturn == \A c \in Cpus : pc[c] # "idle" ~> pc[c] = "idle"

=============================================================================
