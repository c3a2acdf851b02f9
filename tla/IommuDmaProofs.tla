-------------------------- MODULE IommuDmaProofs ---------------------------
(***************************************************************************)
(* Proofs about the IOMMU side of a domain (IommuDma), for every set of    *)
(* domains, units and PCI functions and every assignment of functions to   *)
(* units.                                                                  *)
(***************************************************************************)
EXTENDS IommuDma, TLAPS

(***************************************************************************)
(* The configuration under which the root's EPT is never walked stale:     *)
(* every function outside pci_passthru_list that lies in the scope of a    *)
(* catch-all unit is one of the root's m_pci_devs.  map_root_dma maps such *)
(* functions through the catch-all unit by bus, but prepare_iommus takes   *)
(* the capabilities of the units of m_pci_devs only.                       *)
(***************************************************************************)
CatchallCovered ==
    \A dev \in Devices \ Passthru : IommuOf[dev] \in Catchall => dev \in RootDevs

\* A domain not yet constructed has no devices, is not ready for DMA and
\* no context entry names it; the root is constructed with its devices.
Uncreated ==
    /\ \A d \in Domains : ~created[d] =>
            /\ pciDevs[d] = {}
            /\ ~dmaReady[d]
            /\ \A i \in Iommus, dev \in Devices : ctx[i][dev] # d
    /\ created[Root]
    /\ pciDevs[Root] = RootDevs

\* A context entry naming d in a function's own unit was written by
\* map_dma of d, after prepare_iommus of d took that unit into account.
CtxOwned ==
    \A i \in Iommus, dev \in Devices :
        ctx[i][dev] \in Domains /\ IommuOf[dev] = i =>
            /\ dmaReady[ctx[i][dev]]
            /\ i \in DevIommus(ctx[i][dev])

\* What prepare_iommus recorded still holds: the coherence flag is the
\* intersection over the units of the domain's devices, and when it is
\* clear no line of the EPT is left in the cache.
CoherenceRecorded ==
    \A d \in Domains : dmaReady[d] =>
        /\ coherent[d] = (DevIommus(d) \subseteq CoherentIommus)
        /\ ~coherent[d] => ~dirty[d]

IInv == IommuTypeOK /\ Uncreated /\ DmaIsolation /\ CtxOwned /\ CoherenceRecorded

-----------------------------------------------------------------------------
LEMMA InitIInv == IommuInit => IInv
<1>. SUFFICES ASSUME IommuInit PROVE IInv
  OBVIOUS
<1>1. IommuTypeOK
  BY IommuAssumption DEF IommuInit, IommuTypeOK
<1>2. Uncreated
  BY IommuAssumption DEF IommuInit, Uncreated
<1>3. \A i \in Iommus, dev \in Devices : ctx[i][dev] = NoDomain
  BY DEF IommuInit
<1>4. DmaIsolation /\ CtxOwned
  BY <1>3, IommuAssumption DEF DmaIsolation, CtxOwned, Guests
<1>5. CoherenceRecorded
  BY DEF IommuInit, CoherenceRecorded
<1>. QED  BY <1>1, <1>2, <1>4, <1>5 DEF IInv

\* The steps that leave every variable but iommuSet and iotlb alone.
LEMMA IInvSetOrTlbStep ==
    ASSUME IInv, IommuTypeOK',
           UNCHANGED <<created, pciDevs, dmaReady, coherent, snoopCtl, ctx, remap, dirty>>
    PROVE  IInv'
BY DEF IInv, Uncreated, DmaIsolation, CtxOwned, CoherenceRecorded, DevIommus

LEMMA SetupDomUIInv ==
    ASSUME IInv, NEW d \in Guests, SetupDomU(d)
    PROVE  IInv'
<1>1. IommuTypeOK'
  BY IommuAssumption DEF IInv, IommuTypeOK, SetupDomU, Guests
<1>2. Uncreated'
  <2>1. d # Root
    BY DEF Guests
  <2>. QED  BY <2>1 DEF IInv, IommuTypeOK, Uncreated, SetupDomU
<1>3. DmaIsolation'
  BY DEF IInv, IommuTypeOK, Uncreated, DmaIsolation, SetupDomU, Guests
<1>4. CtxOwned'
  BY DEF IInv, IommuTypeOK, Uncreated, CtxOwned, SetupDomU, DevIommus, Guests
<1>5. CoherenceRecorded'
  BY DEF IInv, IommuTypeOK, Uncreated, CoherenceRecorded, SetupDomU, DevIommus, Guests
<1>. QED  BY <1>1, <1>2, <1>3, <1>4, <1>5 DEF IInv

LEMMA PrepareIommusIInv ==
    ASSUME IInv, NEW d \in Domains, PrepareIommus(d)
    PROVE  IInv'
<1>1. IommuTypeOK'
  BY IommuAssumption DEF IInv, IommuTypeOK, PrepareIommus, DevIommus
<1>2. Uncreated'
  BY DEF IInv, Uncreated, PrepareIommus
<1>3. DmaIsolation'
  BY DEF IInv, DmaIsolation, PrepareIommus
<1>4. CtxOwned'
  BY DEF IInv, IommuTypeOK, CtxOwned, PrepareIommus, DevIommus
<1>5. CoherenceRecorded'
  BY DEF IInv, IommuTypeOK, CoherenceRecorded, PrepareIommus, DevIommus
<1>. QED  BY <1>1, <1>2, <1>3, <1>4, <1>5 DEF IInv

LEMMA EptWriteIInv ==
    ASSUME IInv, NEW d \in Domains, EptWrite(d)
    PROVE  IInv'
<1>1. IommuTypeOK'
  BY DEF IInv, IommuTypeOK, EptWrite
<1>2. Uncreated' /\ DmaIsolation' /\ CtxOwned'
  BY DEF IInv, Uncreated, DmaIsolation, CtxOwned, EptWrite, DevIommus
<1>3. CoherenceRecorded'
  <2>. SUFFICES ASSUME NEW e \in Domains, dmaReady'[e]
                PROVE  /\ coherent'[e] = (DevIommus(e) \subseteq CoherentIommus)'
                       /\ ~coherent'[e] => ~dirty'[e]
    BY DEF CoherenceRecorded
  <2>1. /\ coherent[e] = (DevIommus(e) \subseteq CoherentIommus)
        /\ ~coherent[e] => ~dirty[e]
    BY DEF IInv, CoherenceRecorded, EptWrite
  <2>2. dirty'[e] = (dirty[e] \/ (e = d /\ coherent[e]))
    BY DEF IInv, IommuTypeOK, EptWrite
  <2>. QED  BY <2>1, <2>2 DEF EptWrite, DevIommus
<1>. QED  BY <1>1, <1>2, <1>3 DEF IInv

\* A guest's map_dma writes only its own functions, in their own units.
LEMMA MapGuestDmaIInv ==
    ASSUME IInv, NEW d \in Guests, MapDma(d)
    PROVE  IInv'
<1>1. d # Root /\ d \in Domains
  BY DEF Guests
<1>2. ctx' = GuestContexts(d) /\ remap' = EnableRemapping(iommuSet[d])
  BY <1>1 DEF MapDma, MapGuestDma
<1>3. UNCHANGED <<created, pciDevs, iommuSet, dmaReady, coherent, snoopCtl, iotlb, dirty>>
  BY DEF MapDma
<1>4. created[d] /\ dmaReady[d]
  BY DEF MapDma
<1>5. \A i \in Iommus, dev \in Devices :
        ctx'[i][dev] = IF dev \in pciDevs[d] /\ IommuOf[dev] = i THEN d ELSE ctx[i][dev]
  BY <1>2 DEF GuestContexts
<1>6. IommuTypeOK'
  <2>1. ctx' \in [Iommus -> [Devices -> Domains \cup {NoDomain}]]
    BY <1>1, <1>2 DEF IInv, IommuTypeOK, GuestContexts
  <2>2. remap' \in [Iommus -> BOOLEAN]
    BY <1>2 DEF EnableRemapping
  <2>. QED  BY <1>3, <2>1, <2>2 DEF IInv, IommuTypeOK
<1>7. Uncreated'
  BY <1>1, <1>3, <1>4, <1>5 DEF IInv, Uncreated
<1>8. DmaIsolation'
  BY <1>1, <1>3, <1>5 DEF IInv, DmaIsolation, Guests
<1>9. CtxOwned'
  BY <1>3, <1>4, <1>5 DEF IInv, CtxOwned, DevIommus
<1>10. CoherenceRecorded'
  BY <1>3 DEF IInv, CoherenceRecorded, DevIommus
<1>. QED  BY <1>6, <1>7, <1>8, <1>9, <1>10 DEF IInv

\* The root's map_dma writes the root into the catch-all unit for every
\* function outside pci_passthru_list, and into the units of its devices.
LEMMA MapRootDmaIInv ==
    ASSUME CatchallCovered, IInv, MapDma(Root)
    PROVE  IInv'
<1>1. PICK cat \in iommuSet[Root] \cap Catchall :
        ctx' = RootContexts(cat) /\ remap' = EnableRemapping(iommuSet[Root])
  BY DEF MapDma, MapRootDma
<1>2. UNCHANGED <<created, pciDevs, iommuSet, dmaReady, coherent, snoopCtl, iotlb, dirty>>
  BY DEF MapDma
<1>3. dmaReady[Root] /\ Root \in Domains
  BY IommuAssumption DEF MapDma
<1>4. \A i \in Iommus, dev \in Devices :
        ctx'[i][dev] =
          IF \/ i = cat /\ dev \notin Passthru
             \/ dev \in pciDevs[Root] /\ IommuOf[dev] = i /\ i \notin Catchall
          THEN Root ELSE ctx[i][dev]
  BY <1>1 DEF RootContexts
<1>5. pciDevs[Root] = RootDevs /\ RootDevs \cap Passthru = {}
  BY IommuAssumption DEF IInv, Uncreated
<1>6. IommuTypeOK'
  <2>1. ctx' \in [Iommus -> [Devices -> Domains \cup {NoDomain}]]
    BY <1>1, <1>3 DEF IInv, IommuTypeOK, RootContexts
  <2>2. remap' \in [Iommus -> BOOLEAN]
    BY <1>1 DEF EnableRemapping
  <2>. QED  BY <1>2, <2>1, <2>2 DEF IInv, IommuTypeOK
<1>7. Uncreated'
  BY <1>2, <1>3, <1>4 DEF IInv, Uncreated
<1>8. DmaIsolation'
  BY <1>2, <1>4, <1>5 DEF IInv, DmaIsolation, Guests
<1>9. CtxOwned'
  <2>. SUFFICES ASSUME NEW i \in Iommus, NEW dev \in Devices,
                       ctx'[i][dev] \in Domains, IommuOf[dev] = i
                PROVE  dmaReady[ctx'[i][dev]] /\ i \in DevIommus(ctx'[i][dev])
    BY <1>2 DEF CtxOwned, DevIommus
  <2>1. CASE \/ i = cat /\ dev \notin Passthru
             \/ dev \in pciDevs[Root] /\ IommuOf[dev] = i /\ i \notin Catchall
    <3>1. ctx'[i][dev] = Root
      BY <1>4, <2>1
    <3>2. dev \in pciDevs[Root]
      BY <2>1, <1>1, <1>5 DEF CatchallCovered
    <3>. QED  BY <1>3, <3>1, <3>2 DEF DevIommus
  <2>2. CASE ~(\/ i = cat /\ dev \notin Passthru
               \/ dev \in pciDevs[Root] /\ IommuOf[dev] = i /\ i \notin Catchall)
    BY <1>4, <2>2 DEF IInv, CtxOwned
  <2>. QED  BY <2>1, <2>2
<1>10. CoherenceRecorded'
  BY <1>2 DEF IInv, CoherenceRecorded, DevIommus
<1>. QED  BY <1>6, <1>7, <1>8, <1>9, <1>10 DEF IInv

\* The steps that change only the set of units or the I/O-TLBs keep the
\* types.
LEMMA SetOrTlbTypes ==
    ASSUME IInv,
           \/ \E d \in Domains, i \in Iommus : AddIommu(d, i) \/ RemoveIommu(d, i)
           \/ \E d \in Domains : FlushIotlb(d)
           \/ \E dev \in Devices, p \in IoPages : DeviceDma(dev, p)
           \/ \E d \in Domains, p \in IoPages : FlushIotlbPage4k(d, p)
           \/ \E d \in Domains, p \in IoRegionStarts : FlushIotlbPage2m(d, p)
    PROVE  /\ IommuTypeOK'
           /\ UNCHANGED <<created, pciDevs, dmaReady, coherent, snoopCtl, ctx, remap, dirty>>
<1>1. CASE \E d \in Domains, i \in Iommus : AddIommu(d, i) \/ RemoveIommu(d, i)
  BY <1>1 DEF IInv, IommuTypeOK, AddIommu, RemoveIommu
<1>2. CASE \E d \in Domains : FlushIotlb(d)
  BY <1>2 DEF IInv, IommuTypeOK, FlushIotlb
<1>3. CASE \E dev \in Devices, p \in IoPages : DeviceDma(dev, p)
  BY <1>3, IommuAssumption DEF IInv, IommuTypeOK, DeviceDma
<1>4. CASE \E d \in Domains, p \in IoPages : FlushIotlbPage4k(d, p)
  BY <1>4 DEF IInv, IommuTypeOK, FlushIotlbPage4k, FlushRange
<1>5. CASE \E d \in Domains, p \in IoRegionStarts : FlushIotlbPage2m(d, p)
  BY <1>5 DEF IInv, IommuTypeOK, FlushIotlbPage2m, FlushRange
<1>. QED  BY <1>1, <1>2, <1>3, <1>4, <1>5

LEMMA IInvStep ==
    ASSUME CatchallCovered, IInv, [IommuNext]_iommuVars
    PROVE  IInv'
<1>1. CASE \E d \in Guests : SetupDomU(d)
  BY <1>1, SetupDomUIInv
<1>2. CASE \E d \in Domains : PrepareIommus(d)
  BY <1>2, PrepareIommusIInv
<1>3. CASE \E d \in Domains : MapDma(d)
  <2>. PICK d \in Domains : MapDma(d)
    BY <1>3
  <2>1. CASE d = Root
    BY <2>1, MapRootDmaIInv
  <2>2. CASE d # Root
    BY <2>2, MapGuestDmaIInv DEF Guests
  <2>. QED  BY <2>1, <2>2
<1>4. CASE \E d \in Domains : EptWrite(d)
  BY <1>4, EptWriteIInv
<1>5. CASE \/ \E d \in Domains, i \in Iommus : AddIommu(d, i) \/ RemoveIommu(d, i)
           \/ \E d \in Domains : FlushIotlb(d)
           \/ \E dev \in Devices, p \in IoPages : DeviceDma(dev, p)
           \/ \E d \in Domains, p \in IoPages : FlushIotlbPage4k(d, p)
           \/ \E d \in Domains, p \in IoRegionStarts : FlushIotlbPage2m(d, p)
  BY <1>5, SetOrTlbTypes, IInvSetOrTlbStep
<1>6. CASE UNCHANGED iommuVars
  BY <1>6 DEF IInv, IommuTypeOK, Uncreated, DmaIsolation, CtxOwned, CoherenceRecorded,
              DevIommus, iommuVars
<1>. QED  BY <1>1, <1>2, <1>3, <1>4, <1>5, <1>6 DEF IommuNext

\* The inductive invariant holds in every reachable state.
LEMMA IInvariant ==
    ASSUME CatchallCovered
    PROVE  IommuSpec => []IInv
<1>1. IInv /\ [IommuNext]_iommuVars => IInv'
  BY IInvStep
<1>. QED  BY InitIInv, <1>1, PTL DEF IommuSpec

-----------------------------------------------------------------------------
(***************************************************************************)
(* Every reachable state has the types of IommuTypeOK, whatever the units, *)
(* the functions and their scopes.                                         *)
(***************************************************************************)
THEOREM IommuTypeCorrect == CatchallCovered => (IommuSpec => []IommuTypeOK)
<1>. SUFFICES ASSUME CatchallCovered PROVE IommuSpec => []IommuTypeOK
  OBVIOUS
<1>1. IInv => IommuTypeOK
  BY DEF IInv
<1>. QED  BY <1>1, IInvariant, PTL

(***************************************************************************)
(* A context entry gives a function only to a domain that owns it, in any  *)
(* order of the root's and the guests' map_dma: the root never gets a      *)
(* function of pci_passthru_list (map_root_dma skips them), and a guest    *)
(* gets only the functions setup_domU assigned to it.                      *)
(***************************************************************************)
THEOREM IommuDmaIsolation == CatchallCovered => (IommuSpec => []DmaIsolation)
<1>. SUFFICES ASSUME CatchallCovered PROVE IommuSpec => []DmaIsolation
  OBVIOUS
<1>1. IInv => DmaIsolation
  BY DEF IInv
<1>. QED  BY <1>1, IInvariant, PTL

(***************************************************************************)
(* No unit without coherent page walks translates DMA with a domain's EPT  *)
(* while lines of it are still in the CPU cache, provided the catch-all    *)
(* unit's functions are among the root's m_pci_devs: the intersection of   *)
(* prepare_iommus covers every unit map_dma makes walk the tables, and     *)
(* flush_tables clears the lines written before the flag was cleared.     *)
(***************************************************************************)
THEOREM IommuNoStaleWalk == CatchallCovered => (IommuSpec => []NoStaleWalk)
<1>. SUFFICES ASSUME CatchallCovered PROVE IommuSpec => []NoStaleWalk
  OBVIOUS
<1>1. IInv => NoStaleWalk
  <2>. SUFFICES ASSUME IInv, NEW d \in Domains, NEW i \in Iommus \ CoherentIommus,
                       Walks(i, d)
                PROVE  ~dirty[d]
    BY DEF NoStaleWalk
  <2>1. PICK dev \in Devices : IommuOf[dev] = i /\ ctx[i][dev] = d
    BY DEF Walks
  <2>2. dmaReady[d] /\ i \in DevIommus(d)
    BY <2>1 DEF IInv, CtxOwned
  <2>3. ~coherent[d]
    BY <2>2 DEF IInv, CoherenceRecorded
  <2>. QED  BY <2>2, <2>3 DEF IInv, CoherenceRecorded
<1>. QED  BY <1>1, IInvariant, PTL

=============================================================================
