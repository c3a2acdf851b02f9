# TLA+ models of MicroV's domain memory core

This directory holds TLA+ models of the part of MicroV's VMM that owns each domain's
memory. It covers two things: lending root memory to guest domains, and setting up
DMA remapping through the IOMMUs. It has TLC configurations that model-check the
models, and TLAPS proofs about the page tracker, the multi-CPU donation protocol, the
IOMMU bookkeeping, the serial ports, the entry points and the builder driver. It also models:
- a domain's serial ports;
- the extension's entry points (`src/vmm/src/main.cpp`);
- the Windows builder driver, through which the host creates and destroys VMs.

Line numbers refer to `src/vmm/src/hve/arch/intel_x64/domain.cpp`, except in the sections
on the entry points (`main.cpp`) and the builder driver (`src/unnamed/part_000`).

## The system

The root domain (dom0) owns all physical memory. It starts with an identity-mapped EPT
built from 2M entries (`setup_dom0`, line 279). A guest (a *borrower*) gets memory by
the root donating pages to it, one 4K page per hypercall.

**Donation** (`donate_root_page`, 518-575):
1. Look up whether the page is already donated to that borrower (`page_already_donated`, 530).
2. Resolve the page in the root EPT (`gpa_to_hpa`, 532). This throws if the root no longer maps the page.
3. Start a TLB shootdown (`begin_shootdown`, 541). It returns `AGAIN` while another is in flight.
4. Split the 2M entry if the page came from one (548), unmap the page (551), end the shootdown, and flush the local TLB (`invept`, 554).
5. Record the page in the tracker (`add_page_to_donated_range`, 556).
6. Map the page into the borrower's EPT (571).

**Reclaim** happens only once the borrower is destroyed (`get_domain` returns null):
- `reclaim_root_page` (577-609) drops one page from the tracker and maps it back.
- `reclaim_root_pages` (611-654) maps back all of a borrower's pages under the tracker lock and erases its entry.

**The donated-page tracker** (331-516) keeps a `std::set<page_range>` per borrower:
- The ranges are `{start, count}`, ordered by start.
- Lookups use `lower_bound` and its predecessor.
- Ranges grow by one page at either end. They shrink, or split in two, on removal.
- Starts and counts are edited in place through a `const_cast`.

Root CPUs run hypercall handlers concurrently. They interact through three things:
- the tracker, behind `m_donated_page_lock`;
- the root EPT;
- the shootdown: an IPI to every other root CPU, which parks each of them until it ends.

**DMA.** Each domain also keeps:
- the set of IOMMU units that serve its PCI functions;
- the coherence capabilities of those units, recorded on its EPT.

`map_dma` points the units' context entries at the domain's tables.

`vcpu`, `ept::mmap` and `page_range` are declared outside `src/`. Their behaviour is
modelled from `spec.md`, sections 2, 4.3 and 5, and the map marks those definitions
`spec_modelled`.

## Inventory

| Component | Code | State | Operations | Module |
|---|---|---|---|---|
| Donated-page tracker | 331-516, 651 | map borrower → set of ranges | find_page_range, page_already_donated, add/remove_page_…_range, erase | `DonatedPages` (refines `DonationSet`) |
| Donation protocol | 518-654 | root EPT (4K present, 2M regions), borrower EPTs, TLBs, registry, shootdown, per-CPU handler position | donate_root_page, reclaim_root_page, reclaim_root_pages | `Donation` |
| EPT map wrappers | 656-725 | — | map_*/unmap/release forwarders | only unmap/map_4k_rwe/convert, inside `Donation` |
| IOMMU registry, DMA | 96-263 | IOMMU set, device list, dma_map_ready, coherence flags | add/remove/prepare_iommus, map_dma, flush_iotlb* | `IommuDma` |
| Setup | 51-94, 265-329 | EPTP, sod_info | init_eptp, setup_dom0/U, share_root_page | the identity map (`Donation`); the constructor and setup_domU's device assignment (`IommuDma`) |
| Serial ports | 736-805 | selected ports, COM UART state per vCPU, pass-through UART | set_uart, set_pt_uart, setup_vcpu_uarts, dump_uart | `DomainUart` |
| Registers, exec mode | 720-734, 807-937 | register file | getters and setters | not modelled: data only |
| Extension entry points | `main.cpp` 43-219 | initialised subsystems, PP state | ext_main_entry, bootstrap/vmexit/fail_entry | `ExtensionEntry` |
| Windows builder driver | `src/unnamed/part_000` | request status, held MDLs and buffers, output buffers, VMs created | builderQueueInitialize, builderEvtIoDeviceControl, ioctl_create_vm, ioctl_destroy_vm, copy_from_user | `BuilderDriver` (not builderEvtIoStop) |
| Builder ABI header | `builderinterface.h` | — | IOCTL codes, `create_vm_args` layout | as `Codes` and `OutStates` of `BuilderDriver` |
| Hypercall header, shim test, genfiles.ps1 | other files | — | declarations, test, build | not modelled |

### Behaviours that make the donation code hard
- **Concurrent donations.** There is no second `page_already_donated` check between 530 and 556. Only the shootdown barrier serialises the check-then-add.
- **Stale page size.** `from` is read before the shootdown (532) and used after it (546).
- **Stale TLB entries** on the other CPUs after the unmap.
- **Cross-borrower double donation.** It is stopped only by `gpa_to_hpa` throwing (558).
- **Reclaim in two steps** (605-606) with no common lock.
- **Destroy racing a donation.** The late add recreates an entry for a dead borrower.
- **`AGAIN` and the wait for acknowledgements** (541-543).
- **In-place edits of `std::set` keys** (358, 365, 509).
- **Split arithmetic** (490-494).
- **An allocation failing between unmap and record.** The tracker's insert (556) runs after the page has left the root's EPT.

## Modules

### `DonatedPages`: the tracker

**Representation**
- Pages are frame numbers `0..NumPages-1`. Every address the code handles is page-aligned, and every step adds or subtracts whole pages.
- A range set is a function *start → count*, with 0 meaning no range starts there. A `std::set` keyed by start holds at most one range per start.
- `donated[g]` is borrower `g`'s range set. `keys` is the set of borrowers with an entry in `m_donated_page_map`.

**Set operations**
- `LowerBound` and `Prev` model `std::set::lower_bound` and `std::prev` as CHOOSE of the least start ≥ p and the greatest start < it. `End` is the past-the-end iterator.

**Code functions**, as IF/ELSE chains in the order of the code's early returns:

| Definition | Code |
|---|---|
| `FindPageRange` | find_page_range |
| `AddPage` | add_page_to_donated_range |
| `RemovePage` | remove_page_from_donated_range |

**Tracker-only actions.** `TrackerSpec` runs the tracker alone, with three actions:
- `AddPageToDonatedRange`, guarded by the caller's check `~PageAlreadyDonated` (line 530);
- `RemovePageFromDonatedRange`, which does nothing without an entry;
- `EraseDonatedRanges` (line 651).

### `DonationSet`: the abstract tracker
The tracker's promise: a set of lent pages per borrower and a set of borrowers with an entry.
- Insert a page that is not already lent.
- Remove a page.
- Drop a borrower.

`MC_DonatedPages` maps `donated[g]` to the pages of its ranges (`PagesOf`). It checks
`TrackerImplementsDonationSet == Abstract!Spec` as a PROPERTY.

### `Donation`: the protocol on several CPUs
`Donation` extends `DonatedPages`.

**Variables**

| Variable | Meaning |
|---|---|
| `present[p]` | the root EPT maps page p |
| `large[r]` | region r is still one 2M entry |
| `guestEpt[g][gg]` | the root page behind a borrower's guest page |
| `tlb[c]` | the translations CPU c caches |
| `alive[g]` | `get_domain` still finds g |
| `shootdown` | the initiator of the shootdown in flight, or `NoCpu` |
| `pc[c]` | where CPU c's handler is |
| `req[c]` | c's handler arguments and locals |

**Actions.** Each action is one lock section, or one call whose effect another CPU can
observe, and another CPU can act between any two of them.

| Action | Code |
|---|---|
| `DonateCheck` | 525-530 |
| `DonateResolve` | gpa_to_hpa, and the FAILURE path of its exception |
| `DonateBeginShootdown` | 541-543, `AGAIN` included |
| `DonateUnmap` | 546-553: split, unmap, end_shootdown |
| `DonateSplitFails` | 548 throwing, caught at 558-564: FAILURE, with the shootdown still in flight |
| `DonateInvept` | 554 |
| `DonateAdd` | 556 |
| `DonateAddFails` | 556 throwing `std::bad_alloc` (make_unique and the map node at 418, or a new range's emplace at 424, 437, 455), caught at 558-564: FAILURE, the page unmapped and recorded for nobody |
| `DonateMapGuest` | 566-574 |
| `ReclaimCheck` | 577-603 |
| `ReclaimRemove` | 605 |
| `ReclaimRemap` | 606 |
| `ReclaimRootPages` | 611-654, atomic under the tracker lock |

**Environment actions**
- The shootdown: `AckShootdown` (an idle CPU takes the IPI and parks) and `ResumeFromShootdown` (it flushes its TLB and resumes).
- `CacheTranslation`: the root touches a present page.
- `DestroyDomain`.

### `IommuDma`: IOMMU bookkeeping and DMA remapping
The domain side is modelled from lines 96-263 and 298-308. The IOMMU units and the
CPU cache behaviour of `ept::mmap` are outside `src/`; they are modelled from spec
section 4.4 and marked `spec_modelled`.

**Variables**

| Variable | Meaning |
|---|---|
| `created[d]`, `pciDevs[d]` | the domain is constructed; its `m_pci_devs` |
| `iommuSet[d]`, `dmaReady[d]` | `m_iommu_set`; `m_dma_map_ready` |
| `coherent[d]`, `snoopCtl[d]` | the coherence and snoop-control flags prepare_iommus records on the EPT |
| `dirty[d]` | some line of d's EPT is still only in the CPU cache |
| `ctx[i][dev]` | the domain unit i's context entry gives function dev |
| `remap[i]`, `iotlb[i]` | remapping enabled on unit i; the ⟨domain, page⟩ pairs its I/O-TLB caches |

**Actions**

| Action | Code |
|---|---|
| `SetupDomU` | 298-308: a passthrough guest gets all of `pci_passthru_list` |
| `AddIommu`, `RemoveIommu` | 101-119: idempotent insert, erase |
| `PrepareIommus` | 121-149: the intersection over the units of `m_pci_devs`, which joins them to the set; `flush_tables` when not coherent |
| `MapDma` | 151-232: root (catch-all unit, skipping passthrough functions, then its own devices behind other units) or guest; enables remapping on the set |
| `FlushIotlb`, `FlushIotlbPage4k`, `FlushIotlbPage2m` | 234-263: PSI range, else a domain flush |
| `DeviceDma`, `EptWrite` | environment: a device's DMA fills its unit's I/O-TLB; an EPT write stays in cache while the coherence flag is set |

The add/remove calls come from the IOMMU driver, outside `src/`. The model lets it
call them at any time.

### `BuilderDriver`: the Windows builder driver
The driver's queue dispatches requests in parallel. Two requests share no state in
this file, so each `builderEvtIoDeviceControl` call is one step, `EvtIoDeviceControl(r)`.
The step chooses everything the caller and the kernel decide:
- the input buffer: absent, failing retrieval, or a whole `create_vm_args`;
- the output buffer: absent, failing retrieval, ending before `domainid` (`short`), or whole;
- the control code;
- which of image, initrd and cmdl were passed (pointer and size non-zero);
- the first step to fail: an allocation, or a probe, MDL allocation, lock or mapping in `copy_from_user`;
- the results of `common_create_vm` and `common_destroy_vm`, which are outside `src/`.

| Definition | Code |
|---|---|
| `CopyAcquired`, `CopyReleased`, `CopyLeft` | copy_from_user (37-79): what each failure has acquired and releases |
| `FailAt`, `Allocated`, `Copied`, `CopiesLeft` | ioctl_create_vm's three copies in order (93-142) |
| `Freed`, `CreateArgs`, `CreateSucceeds` | its two exits (144-172) |
| `QueueInitialize` | builderQueueInitialize (192-217) |
| `EvtIoDeviceControl` | builderEvtIoDeviceControl (220-298), with ioctl_destroy_vm |

`held` collects whatever a finished callback left allocated. `userArgs[r]` records
what was copied back to the caller (line 267): each pointer field abstracted to
null, user or kernel, and whether the copy reached `domainid`.

### `ExtensionEntry`: the extension's entry points
`ext_main_entry` (`main.cpp` 172-219) initialises six subsystems in `InitOrder`:
- the syscall layer, which also registers the three entry functions;
- the intrinsics and the global storage;
- the VM, VP and VPS pools.

`MainStep` is one initialisation. On failure the function returns
`bf_control_op_exit`; after the sixth success it returns `bf_control_op_wait`.
`BootstrapEntry`, `VmexitEntry` and `FailEntry` (79-163) share `Dispatch`:
- a dispatch that runs a VPS does not come back;
- whatever comes back, success or error, ends in `bf_control_op_exit`.

The microkernel is outside the repository and is the environment. It calls the PP
entries only after `bf_control_op_wait`, bootstrap first and VM exits on running PPs,
and nothing after an exit.

### `DomainUart`: a domain's serial ports
`SetUart` and `SetPtUart` are the setters (736-744). The domain-creation hypercalls
call them before any vCPU exists, so the model allows them only until the first
vCPU is set up.

`SetupVcpuUarts(v)` (746-782) does two things:
- it disables the four COM ports on `v`;
- it then enables the one `m_uart_port` names (`EnabledBySwitch`, the switch), or makes a new pass-through UART and passes `v`'s port to it.

`com[u][v]` is what COM UART `u` did to vCPU `v`. `passedTo[v]` is the pass-through
object (by creation number) `v` was given. `DumpSource` is the UART `dump_uart` reads.

## Runs

| Run | Bounds | Checks | Shows |
|---|---|---|---|
| `tracker` (`MC_DonatedPages.cfg`) | 5 pages, 2 borrowers, symmetry | TrackerTypeOK, NoOverlap, FindPageRangeCorrect, TrackerImplementsDonationSet | every shape of range set on 5 pages, including middle splits and both extensions, is handled; the tracker refines a plain set |
| `tracker_coalesce` (`…_Coalesce.cfg`) | 4 pages, 1 borrower | NoAdjacentRanges (violation) | the finding below |
| `donation` (`MC_Donation.cfg`) | 2 CPUs, 2 borrowers, 2 pages in one 2M region, 1 guest slot, allocations may fail | DonationTypeOK, RootIsolation, TrackerMatchesRootEpt, NoOverlap, LargeEntriesIntact, GuestMapsOnlyDonatedPages | concurrent donations, cross-borrower donation, AGAIN, destroy racing donation, reclaim, failed splits and failed tracker inserts, 2M splitting on a stale page size |
| `donation_liveness` (`MC_Donation_Liveness.cfg`) | 2 CPUs, 1 borrower, 2 pages, no symmetry, no allocation failure | HandlersReturn | every handler returns, every parked CPU resumes |
| `donation_split_fails` (`MC_Donation_SplitFails.cfg`) | as above, with the 2M split's allocation allowed to fail | HandlersReturn (violation) | the first finding below |
| `donation_add_fails` (`MC_Donation_AddFails.cfg`) | 1 CPU, 1 borrower, 2 pages, 1 guest slot, allocations may fail | UnmappedPagesTracked (violation) | the second finding below |
| `iommu` (`MC_IommuDma.cfg`) | root and 2 guests (1 with passthrough); 2 units (catch-all non-coherent without PSI, and coherent with PSI); 4 functions; 2 DMA pages in one 2M region | DmaIsolation, NoStaleWalk | in every order of the driver's add/remove, prepare, map_dma, DMA and flushes, devices reach only their owner's tables and no non-coherent unit walks unflushed lines |
| `iommu_catchall` (`MC_IommuDma_CatchAll.cfg`) | as above, the root listing only the function behind the coherent unit | NoStaleWalk (violation) | the third finding below |
| `builder` (`MC_BuilderDriver.cfg`) | 3 requests; every buffer state, code, subset of blobs and first failure | NoResourceLeak | every failure path of the copies frees what it took |
| `builder_domain_id` (`MC_BuilderDriver_DomainId.cfg`) | as above | CreatedVmIdReturned (violation) | the fourth finding below |
| `extension_entry` (`MC_ExtensionEntry.cfg`) | 6 PPs | DispatchOnlyAfterInit | whichever initialisation fails, no PP enters a handler before all six subsystems exist |
| `domain_uart` (`MC_DomainUart.cfg`) | 3 vCPUs, the four COM ports, one other port, port 0 | ConsoleIsDumped | the one enabled UART is the one `dump_uart` reads |

**Why these bounds are enough.** Two CPUs are enough for every race here, since each
race is between a pair of handlers. Two borrowers are what cross-borrower donation
needs. Five pages let a range have a top, a middle and a bottom page, with a free
neighbour on each side (the `tracker` run). In the `donation` run, two pages in one
2M region let two CPUs read the region's size before either splits it, so the
second unmaps on a stale page size.

The `donation` run lets heap allocations fail (`AllocFails = TRUE`): the 2M split
and the tracker's insert at line 556. Its safety properties therefore also cover
those paths. In the IOMMU
runs, two units with opposite capabilities exercise both sides of every capability
test. The passthrough functions sit one behind each unit, so a guest's devices span a
coherent and a non-coherent unit. Two pages in one region separate a 4K flush from a
2M flush. The builder requests share no state. Three of them are enough for each to end
differently, and every input of a callback is enumerated. Six PPs give the entry model
every mix of booted and running processors when a dispatch returns. Three vCPUs make
the pass-through UART be replaced twice.

`extension_entry` and `domain_uart` do not check for deadlock. After
`bf_control_op_exit`, or once every vCPU is set up, nothing further happens.
`donation` does not either: once failed inserts have leaked
every page and every borrower is destroyed, no handler has anything left to do.

**Fairness.** `Fairness` is weak fairness of each CPU's handler steps
(`CpuStep(c)`), including taking an IPI and resuming. The code never blocks a handler
except in the shootdown wait, and a CPU takes a pending IPI on its next exit. Nothing
obliges the root to issue hypercalls, so `Hypercall` has no fairness.

Every property above has a mutant in `PROJECT.json`: a plausible bug in the mapped
code that TLC finds with that property alone.

## Findings

**A failed 2M split leaves the shootdown in flight (code bug).**
1. `donate_root_page` calls `identity_map_convert_2m_to_4k` (line 548) after `begin_shootdown` succeeded.
2. If that allocation throws, the catch block (558-564) returns `FAILURE` without `end_shootdown`.
3. TLC finds a run where the other CPU stays parked forever, and every later donation gets `AGAIN`.

The spec says no operation suspends indefinitely (section 5).

**A failed tracker insert loses the page (code bug).**
1. `donate_root_page` unmaps the page from the root (546-553) and then calls `add_page_to_donated_range` (line 556).
2. That call allocates: `make_unique` and the map node at 418 for a borrower's first page, or a new range's node at 424, 437 or 455.
3. If it throws, the catch block (558-564) returns `FAILURE`. The page is unmapped from the root and recorded for no borrower, so no reclaim ever gives it back.

The spec says a reclaim returns every donated page to the root (section 4.3 step 8, section 7).
`UnmappedPagesTracked` states this, and TLC finds it violated in seven states (`donation_add_fails`).

**The coherence intersection can miss the catch-all unit (spec/code divergence).**
- `prepare_iommus` intersects over the units of `m_pci_devs` only (126-133).
- `map_root_dma` makes the catch-all unit translate every non-passthrough function (167-182).
- If one of those functions is not in the root's device list, a non-coherent catch-all unit walks the root's EPT without the flush the spec requires.
- Whether the root's list can miss such a function is decided by the PCI code outside `src/`.
- The theorem `IommuNoStaleWalk` proves that `CatchallCovered` (no function is missed) is enough.

**A short output buffer loses the new VM's ID (spec/code divergence).**
- `builderinterface.h` documents `domainid` as the out field with the ID of the VM created.
- `builderEvtIoDeviceControl` copies `min(out_size, in_size)` bytes back (line 267 of `part_000`) and checks no minimum size.
- With an output buffer that ends before `domainid`, the VM is created and the request succeeds, but the caller never learns the ID and cannot destroy the VM.

**Adjacent ranges are not coalesced (spec/code divergence).**
`add_page_to_donated_range` (lines 429-451) extends one neighbour and never merges the
two. Donating frames 0, 2, then 1 leaves the ranges `{0,1}` and `{1,2}` (start,
count), which are adjacent. The spec
says a borrower's ranges are never adjacent.

The tracker stays correct, because lookups still find every page (proved below). It
only fragments.

## Proofs

### `DonatedPagesProofs`

These theorems hold for every `NumPages ∈ Nat \ {0}` and every set of borrowers.

| Theorem | Statement |
|---|---|
| `TrackerTypeCorrect` | `TrackerSpec => []TrackerTypeOK`: every range stays inside the page space |
| `TrackerNoOverlap` | `TrackerSpec => []NoOverlap` |
| `TrackerFindPageRangeCorrect` | `TrackerSpec => []FindPageRangeCorrect`: page_already_donated is exact |

**The inductive invariant** is `TrackerInv == TrackerTypeOK /\ KeysCoverRanges /\ NoOverlap`.
`NoOverlap` alone is not inductive, for two reasons:
- Adding a page needs the guard `~PageAlreadyDonated` to mean "the page is in no range". That holds only because `find_page_range` is complete on disjoint ranges (`FindPageRangeComplete`).
- A borrower without an entry must have no ranges (`KeysCoverRanges`), because `page_already_donated` answers false without looking when there is no entry.

TLC checked `TrackerInv` as an invariant of the tracker run before it was proved.

**The argument, by lemma**
- `LowerBoundSpec` and `PrevSpec`: `lower_bound` and `prev` return the least or greatest start. This rests on `NatHasLeast`, from `WFMin` and `NatLessThanWellFounded`.
- `FindPageRangeSound` / `FindPageRangeComplete`: the two-candidate search is exact when the ranges are disjoint (`ContainingRangeIsLast`).
- `EmplaceDisjoint`, `ExtendAboveDisjoint`, `ExtendBelowDisjoint`, `AddPageDisjoint`: each add branch keeps the ranges disjoint when the page is in none of them.
- `ShrinkDisjoint` and `SplitDisjoint` (through `InsideNoStart`) give `RemovePageDisjoint`.

### `IommuDmaProofs`

These theorems hold for every set of domains, units and functions, and every
assignment of functions to units and capabilities. Each has the hypothesis
`CatchallCovered`: every non-passthrough function in a catch-all unit's scope is one
of the root's devices.

| Theorem | Statement |
|---|---|
| `IommuTypeCorrect` | `IommuSpec => []IommuTypeOK` |
| `IommuDmaIsolation` | `IommuSpec => []DmaIsolation` |
| `IommuNoStaleWalk` | `IommuSpec => []NoStaleWalk` |

**The inductive invariant** is `IInv`, the conjunction of:
- `IommuTypeOK`;
- `Uncreated`: a domain not yet constructed has no devices, is not DMA-ready, and no context entry names it;
- `DmaIsolation`;
- `CtxOwned`: an entry naming d in a function's own unit has d DMA-ready and the unit among the units of d's devices;
- `CoherenceRecorded`: for a ready domain, the flag is the intersection, and a clear flag means nothing is left in cache.

`NoStaleWalk` alone is not inductive. It needs the link from a walking unit back to
the intersection that `prepare_iommus` computed (`CtxOwned`). That link needs
`Uncreated`, because `setup_domU` adds devices after other domains have mapped. TLC
checked `IInv` on the `iommu` run before it was proved. The step proof has one lemma
per action. The root's `map_dma` is the only step that uses `CatchallCovered`.

### `DomainUartProofs`
For any set of vCPUs and any ports, `UartConsoleIsDumped` proves `UartSpec => []ConsoleIsDumped`.
The inductive invariant `UartIInv` adds four facts to the type invariant:
- a vCPU not yet set up has untouched ports and no pass-through UART;
- an enabled COM UART is the selected one, was enabled with no pass-through port, and its vCPU has no pass-through UART;
- no pass-through UART exists without a pass-through port;
- none exists before the first set-up.

The last conjunct is what keeps the setters, allowed before the first set-up, from
breaking the others. TLC checked `UartIInv` on the `domain_uart` run first.

### `ExtensionEntryProofs`
For any set of PPs, `EntryDispatchOnlyAfterInit` proves `EntrySpec => DispatchOnlyAfterInit`.
The invariant `InitedPrefix` has two parts:
- `inited` is the prefix of `InitOrder` before `step`;
- the phase is `waiting` only past the last step.

Every dispatch needs the phase `waiting`, so it sees all six subsystems.

### `BuilderDriverProofs`
For any set of requests, `DriverNoResourceLeak` proves `DriverSpec => []NoResourceLeak`
and `DriverTypeOK` proves `DriverSpec => []TypeOK`.

`NoResourceLeak` is inductive together with `TypeOK` (`DriverIInv`), because one
callback never touches another's state. The argument is local to one callback:
- `CopyLeftEmpty`: `copy_from_user` releases what it acquired on every failing step past the allocation.
- `CopiesLeftEmpty`: whichever copy of `ioctl_create_vm` fails, nothing is left held.

### `DonationProofs`
These theorems hold for any sets of CPUs, borrowers and guest slots, and for any
`NumPages` and `RegionPages`, under the assumptions of `DonationAssumption`.

| Theorem | Statement |
|---|---|
| `DonationTypeCorrect` | `Spec => []DonationTypeOK` |
| `DonationRootIsolation` | `Spec => []RootIsolation` |
| `DonationTrackerMatchesRootEpt` | `Spec => []TrackerMatchesRootEpt`: a tracked page is unmapped from the root, and tracked for one borrower only |
| `DonationLargeEntriesIntact` | `Spec => []LargeEntriesIntact` |
| `DonationGuestMapsOnlyDonatedPages` | `Spec => GuestMapsOnlyDonatedPages` (action property) |

The converse, that an unmapped page is tracked (`UnmappedPagesTracked`), is false: it is
the failed-insert finding. `DonateAddFailsIInv` shows that a failed insert keeps
`DonationIInv`, since it only drops an in-flight page or adds an empty entry.

`DonationAssumption` includes `Guests # {}` and `GuestGpas # {}`. These are needed
because `NoRequest`, the request of an idle CPU, must name a borrower and a slot.

**The inductive invariant** is `DonationIInv`. It starts from the type invariant, the
tracker's own invariant (`KeysCoverRanges`, `NoOverlap`), `TrackerMatchesRootEpt` and
`LargeEntriesIntact`, and adds one fact for each place where a handler carries state
across steps:
- `DonationBeforeUnmap`: between resolving the page and unmapping it, the page is still mapped in the root and `from2m` is still the region's size. This is what lets the split keep `LargeEntriesIntact`.
- `ShootdownOwned`: a CPU waiting for acknowledgements is the shootdown's initiator. So every other CPU is parked when it unmaps.
- `DonationInFlight`: a donation between unmap and add holds a page that is unmapped, recorded for no borrower, and held by no other such donation. This is what makes `AddPage` sound (`NotDonated`) and keeps the records unique.
- `ReclaimInFlight`: a reclaim between remove and remap holds a page of a dead borrower that no other borrower has. After remove it is recorded for nobody, and no donation holds it.
- `LiveMapsDonated`: every page a live borrower maps is recorded for it, and so is the page a pending `map_4k` is about to map.
- `TlbCoherent`: an unparked CPU caches only present pages, but for the initiator's own page between unmap and INVEPT.

`RootIsolation` follows from `DonationIInv` (`LentPageIsolated`):
- a page a live borrower maps is recorded for it (`LiveMapsDonated`), so it is not present;
- a TLB of an unparked CPU holds it only as the page of a donation past unmap, and that page is recorded for nobody;
- two live borrowers mapping it would both have it recorded.

TLC checked `DonationIInv` as an invariant on the `donation` instance before it was
proved.

The step proof has one lemma per action, and under it one step per conjunct. The
tracker edits are handled by lemmas in `DonatedPagesProofs` about the set of pages:
- `AddPagePages`: `PagesOf(AddPage(rs, p)) = PagesOf(rs) \cup {p}` when p is not donated.
- `RemovePagePages`: `PagesOf(RemovePage(rs, p)) = PagesOf(rs) \ {p}` on disjoint ranges.
- `PagesOfEdit`: a helper lemma about editing the ranges' starts, which both of the above use.

### What is only model-checked
- The refinement of `DonationSet`.
- `HandlersReturn`: liveness and ENABLED are beyond TLAPS.

## Not modelled

- **The IOMMU units themselves.** Context tables are one entry per function, with buses abstracted. `flush_tables` is the write-back of every cache line. `snoop_ctl` is recorded but no property reads it.
- **The register and exec-mode accessors.** These are pure data.
- **The EPT map wrappers other than the ones donation uses.**
- **The hypercall header, the KVM shim test and the build script.** They hold declarations, a test program and build-time file generation.
- **The `uart` class and `dump_uart`'s pass-through branch.** The class is not in the repository. So the model cannot say whether the earlier vCPUs still reference the pass-through UART that `setup_vcpu_uarts` destroys when it makes the next one (line 779); the model does reach that state. Note also that `dump_uart` discards `m_pt_uart->dump`'s count and returns 0 (line 787).
- **The microkernel and the `dispatch_*` functions** behind the entry points. They are outside the repository: each dispatch runs a VPS or returns.
- **`builderEvtIoStop`** and short input buffers. Each callback is one step, so there is no state where a request is still owned by a running callback, which is when WDF calls `EvtIoStop`. A short input buffer makes `ioctl_create_vm` read and write past it, and that overrun is not modelled.
- **Allocation failure inside `ept::mmap`.** It is modelled only for the 2M split of a donation and the tracker's insert (`AllocFails`). The rest of `ept::mmap` is outside `src/`.
- **Xen borrowers.** `add_root_page` is taken to behave like `map_4k` here.
