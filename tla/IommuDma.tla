------------------------------ MODULE IommuDma ------------------------------
(***************************************************************************)
(* The IOMMU side of a domain (domain.cpp, lines 96-263): the IOMMU        *)
(* reference set, the coherence capabilities recorded on the EPT, the      *)
(* context entries map_dma writes, DMA remapping enable and the I/O-TLB    *)
(* flushes.                                                                *)
(*                                                                         *)
(* Hardware and the IOMMU driver (iommu.h, outside src/) are modelled from *)
(* spec section 4.4: map_bdf(bus, devfn, dom) points a device's context    *)
(* entry at the domain, map_bus does so for every function of a bus, and   *)
(* an IOMMU with remapping enabled caches the translations of a device's   *)
(* DMA in its I/O-TLB, tagged by domain.                                   *)
(***************************************************************************)
EXTENDS Naturals

CONSTANTS
    Domains,        \* domain identifiers
    Root,           \* domain 0
    Iommus,         \* the IOMMU units
    Devices,        \* PCI functions (bus/devfn)
    IommuOf,        \* IommuOf[dev]: pdev->m_iommu, the unit whose scope has dev
    Catchall,       \* the units with has_catchall_scope()
    CoherentIommus, \* the units with coherent_page_walk()
    SnoopIommus,    \* the units with snoop_ctl()
    PsiIommus,      \* the units with psi_supported()
    Passthru,       \* pci_passthru_list: functions reserved for passthrough
    PassthruDomains,\* the guests created with has_passthrough_dev()
    RootDevs,       \* the root's m_pci_devs
    NumIoPages,     \* the guest-physical pages DMA can target
    IoRegionPages,  \* pages per 2M region (512)
    NoDomain        \* an empty context entry

ASSUME IommuAssumption ==
    /\ Root \in Domains
    /\ IommuOf \in [Devices -> Iommus]
    /\ Catchall \cup CoherentIommus \cup SnoopIommus \cup PsiIommus \subseteq Iommus
    /\ Passthru \subseteq Devices
    /\ PassthruDomains \subseteq Domains \ {Root}
    /\ RootDevs \subseteq Devices \ Passthru
    /\ NumIoPages \in Nat \ {0}
    /\ IoRegionPages \in Nat \ {0}
    /\ NoDomain \notin Domains

Guests == Domains \ {Root}

IoPages == 0 .. NumIoPages - 1

VARIABLES
    created,    \* created[d]: the domain object has been constructed
    pciDevs,    \* pciDevs[d]: m_pci_devs
    iommuSet,   \* iommuSet[d]: m_iommu_set
    dmaReady,   \* dmaReady[d]: m_dma_map_ready
    coherent,   \* coherent[d]: the EPT's iommu coherence flag
    snoopCtl,   \* snoopCtl[d]: the EPT's iommu snoop-control flag
    ctx,        \* ctx[i][dev]: the domain unit i's context entry gives dev
    remap,      \* remap[i]: dma_remapping_enabled()
    iotlb,      \* iotlb[i]: the <<domain, page>> translations unit i caches
    dirty       \* dirty[d]: some line of d's EPT is not yet written back to memory

iommuVars == <<created, pciDevs, iommuSet, dmaReady, coherent, snoopCtl, ctx, remap, iotlb, dirty>>

-----------------------------------------------------------------------------
(***************************************************************************)
(* The root exists from boot with its devices; the EPT's coherence flags   *)
(* have whatever value ept::mmap starts with, and the tables written by    *)
(* the constructor (the root's identity map) are still in the CPU cache.   *)
(***************************************************************************)
IommuInit ==
    /\ created = [d \in Domains |-> d = Root]
    /\ pciDevs = [d \in Domains |-> IF d = Root THEN RootDevs ELSE {}]
    /\ iommuSet = [d \in Domains |-> {}]
    /\ dmaReady = [d \in Domains |-> FALSE]
    /\ coherent \in [Domains -> BOOLEAN]
    /\ snoopCtl \in [Domains -> BOOLEAN]
    /\ ctx = [i \in Iommus |-> [dev \in Devices |-> NoDomain]]
    /\ remap = [i \in Iommus |-> FALSE]
    /\ iotlb = [i \in Iommus |-> {}]
    /\ dirty = [d \in Domains |-> TRUE]

\* The constructor of a guest: setup_domU assigns every function of
\* pci_passthru_list to a guest created with a passthrough device.
SetupDomU(d) ==
    /\ ~created[d]
    /\ created' = [created EXCEPT ![d] = TRUE]
    /\ pciDevs' = [pciDevs EXCEPT ![d] = IF d \in PassthruDomains THEN Passthru ELSE {}]
    /\ UNCHANGED <<iommuSet, dmaReady, coherent, snoopCtl, ctx, remap, iotlb, dirty>>

\* add_iommu / remove_iommu, as the IOMMU driver calls them: a duplicate
\* add changes nothing.
AddIommu(d, i) ==
    /\ created[d]
    /\ iommuSet' = [iommuSet EXCEPT ![d] = @ \cup {i}]
    /\ UNCHANGED <<created, pciDevs, dmaReady, coherent, snoopCtl, ctx, remap, iotlb, dirty>>

RemoveIommu(d, i) ==
    /\ created[d]
    /\ iommuSet' = [iommuSet EXCEPT ![d] = @ \ {i}]
    /\ UNCHANGED <<created, pciDevs, dmaReady, coherent, snoopCtl, ctx, remap, iotlb, dirty>>

\* The units of the domain's devices.
DevIommus(d) == {IommuOf[dev] : dev \in pciDevs[d]}

\* Seeded fault: the tables are not flushed when the walk is not coherent.
PrepareIommusNoFlush(d) ==
    /\ created[d]
    /\ coherent' = [coherent EXCEPT ![d] = DevIommus(d) \subseteq CoherentIommus]
    /\ snoopCtl' = [snoopCtl EXCEPT ![d] = DevIommus(d) \subseteq SnoopIommus]
    /\ iommuSet' = [iommuSet EXCEPT ![d] = @ \cup DevIommus(d)]
    /\ dmaReady' = [dmaReady EXCEPT ![d] = TRUE]
    /\ UNCHANGED <<created, pciDevs, ctx, remap, iotlb, dirty>>

\* prepare_iommus: the capabilities intersected over the units of the
\* domain's devices, each of which is added to the set; flush_tables
\* writes every line of the EPT back when the walk is not coherent.
PrepareIommus(d) ==
    LET coh == DevIommus(d) \subseteq CoherentIommus
    IN  /\ created[d]
        /\ coherent' = [coherent EXCEPT ![d] = coh]
        /\ snoopCtl' = [snoopCtl EXCEPT ![d] = DevIommus(d) \subseteq SnoopIommus]
        /\ iommuSet' = [iommuSet EXCEPT ![d] = @ \cup DevIommus(d)]
        /\ dirty' = [dirty EXCEPT ![d] = @ /\ coh]
        /\ dmaReady' = [dmaReady EXCEPT ![d] = TRUE]
        /\ UNCHANGED <<created, pciDevs, ctx, remap, iotlb>>

\* The check-then-enable of DMA remapping on every unit of the set.
EnableRemapping(S) == [i \in Iommus |-> remap[i] \/ i \in S]

\* Seeded fault: buses with a passthrough function are mapped whole.
RootContextsNoSkip(cat) ==
    [i \in Iommus |-> [dev \in Devices |->
        IF \/ i = cat
           \/ dev \in pciDevs[Root] /\ IommuOf[dev] = i /\ i \notin Catchall
        THEN Root ELSE ctx[i][dev]]]

\* map_root_dma with catch-all unit cat: every function not reserved for
\* passthrough goes to the root through cat (map_bus for a bus without
\* passthrough functions, map_bdf otherwise), then the root's own devices
\* behind other units.
RootContexts(cat) ==
    [i \in Iommus |-> [dev \in Devices |->
        IF \/ i = cat /\ dev \notin Passthru
           \/ dev \in pciDevs[Root] /\ IommuOf[dev] = i /\ i \notin Catchall
        THEN Root ELSE ctx[i][dev]]]

\* map_guest_dma: each device of the guest through its own unit.
GuestContexts(d) ==
    [i \in Iommus |-> [dev \in Devices |->
        IF dev \in pciDevs[d] /\ IommuOf[dev] = i THEN d ELSE ctx[i][dev]]]

\* find_catchall_iommu: a unit of the set with catch-all scope.
MapRootDma ==
    \E cat \in iommuSet[Root] \cap Catchall :
        /\ ctx' = RootContexts(cat)
        /\ remap' = EnableRemapping(iommuSet[Root])

MapGuestDma(d) ==
    /\ ctx' = GuestContexts(d)
    /\ remap' = EnableRemapping(iommuSet[d])

\* map_dma: expects(m_dma_map_ready).
MapDma(d) ==
    /\ created[d]
    /\ dmaReady[d]
    /\ IF d = Root THEN MapRootDma ELSE MapGuestDma(d)
    /\ UNCHANGED <<created, pciDevs, iommuSet, dmaReady, coherent, snoopCtl, iotlb, dirty>>

\* A device's DMA to page p through a unit with remapping enabled: the
\* unit caches the translation of the domain its context entry names.
DeviceDma(dev, p) ==
    LET i == IommuOf[dev]
    IN  /\ remap[i]
        /\ ctx[i][dev] # NoDomain
        /\ iotlb' = [iotlb EXCEPT ![i] = @ \cup {<<ctx[i][dev], p>>}]
        /\ UNCHANGED <<created, pciDevs, iommuSet, dmaReady, coherent, snoopCtl, ctx, remap, dirty>>

\* The I/O-TLB of unit i after a flush_iotlb_page_range(d, p, n) when it
\* supports page-selective invalidation, after flush_iotlb_domain(d) when
\* it does not.
FlushRange(i, d, p, n) ==
    IF i \in PsiIommus
    THEN {e \in iotlb[i] : ~(e[1] = d /\ p <= e[2] /\ e[2] < p + n)}
    ELSE {e \in iotlb[i] : e[1] # d}

\* flush_iotlb: every unit of the set drops the domain's translations.
FlushIotlb(d) ==
    /\ iotlb' = [i \in Iommus |-> IF i \in iommuSet[d] THEN {e \in iotlb[i] : e[1] # d}
                                                       ELSE iotlb[i]]
    /\ UNCHANGED <<created, pciDevs, iommuSet, dmaReady, coherent, snoopCtl, ctx, remap, dirty>>

\* flush_iotlb_page_4k(p) and flush_iotlb_page_2m(p).
FlushIotlbPage4k(d, p) ==
    /\ iotlb' = [i \in Iommus |-> IF i \in iommuSet[d] THEN FlushRange(i, d, p, 1)
                                                       ELSE iotlb[i]]
    /\ UNCHANGED <<created, pciDevs, iommuSet, dmaReady, coherent, snoopCtl, ctx, remap, dirty>>

FlushIotlbPage2m(d, p) ==
    /\ iotlb' = [i \in Iommus |-> IF i \in iommuSet[d] THEN FlushRange(i, d, p, IoRegionPages)
                                                       ELSE iotlb[i]]
    /\ UNCHANGED <<created, pciDevs, iommuSet, dmaReady, coherent, snoopCtl, ctx, remap, dirty>>

\* A write to d's EPT by ept::mmap (spec section 4.4): the line is flushed
\* to memory after the write when the iommu coherence flag is clear, left
\* in the cache when it is set.
EptWrite(d) ==
    /\ created[d]
    /\ dirty' = [dirty EXCEPT ![d] = @ \/ coherent[d]]
    /\ UNCHANGED <<created, pciDevs, iommuSet, dmaReady, coherent, snoopCtl, ctx, remap, iotlb>>

\* The 2M flushes are issued for region-aligned pages.
IoRegionStarts == {p \in IoPages : p % IoRegionPages = 0}

IommuNext ==
    \/ \E d \in Guests : SetupDomU(d)
    \/ \E d \in Domains, i \in Iommus : AddIommu(d, i) \/ RemoveIommu(d, i)
    \/ \E d \in Domains : PrepareIommus(d) \/ MapDma(d) \/ FlushIotlb(d) \/ EptWrite(d)
    \/ \E dev \in Devices, p \in IoPages : DeviceDma(dev, p)
    \/ \E d \in Domains, p \in IoPages : FlushIotlbPage4k(d, p)
    \/ \E d \in Domains, p \in IoRegionStarts : FlushIotlbPage2m(d, p)

IommuSpec == IommuInit /\ [][IommuNext]_iommuVars

-----------------------------------------------------------------------------
IommuTypeOK ==
    /\ created \in [Domains -> BOOLEAN]
    /\ pciDevs \in [Domains -> SUBSET Devices]
    /\ iommuSet \in [Domains -> SUBSET Iommus]
    /\ dmaReady \in [Domains -> BOOLEAN]
    /\ coherent \in [Domains -> BOOLEAN]
    /\ snoopCtl \in [Domains -> BOOLEAN]
    /\ ctx \in [Iommus -> [Devices -> Domains \cup {NoDomain}]]
    /\ remap \in [Iommus -> BOOLEAN]
    /\ iotlb \in [Iommus -> SUBSET (Domains \X IoPages)]
    /\ dirty \in [Domains -> BOOLEAN]

\* Unit i translates DMA with d's tables: remapping is on and a device in
\* its scope has a context entry naming d.
Walks(i, d) == remap[i] /\ \E dev \in Devices : IommuOf[dev] = i /\ ctx[i][dev] = d

(***************************************************************************)
(* A device's DMA is translated only with the tables of a domain that owns *)
(* it: the root for the functions not reserved for passthrough, a guest    *)
(* for the functions assigned to it.  map_root_dma maps whole buses to the *)
(* catch-all unit and must skip the passthrough functions (find_passthru_  *)
(* dev), whichever order the root's and the guests' map_dma run in.        *)
(***************************************************************************)
DmaIsolation ==
    \A i \in Iommus, dev \in Devices :
        LET d == ctx[i][dev]
        IN  /\ d = Root => dev \notin Passthru
            /\ d \in Guests => dev \in pciDevs[d]

(***************************************************************************)
(* No unit without coherent page walks reads a domain's EPT while lines of *)
(* it are still in the CPU cache: prepare_iommus must clear the coherence  *)
(* flag for such a unit (so ept::mmap flushes every later write) and flush *)
(* the tables written before.  This relates the capability intersection of *)
(* prepare_iommus to the units map_dma later makes walk the tables.        *)
(***************************************************************************)
NoStaleWalk ==
    \A d \in Domains, i \in Iommus \ CoherentIommus : Walks(i, d) => ~dirty[d]

=============================================================================
