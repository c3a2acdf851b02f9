------------------------ MODULE ExtensionEntryProofs ------------------------
(***************************************************************************)
(* Proof that no entry function dispatches before ext_main_entry has       *)
(* initialised every subsystem.                                            *)
(***************************************************************************)
EXTENDS ExtensionEntry, TLAPS

\* ext_main_entry has initialised exactly the subsystems before its
\* position, and it returns wait only past the last one.
InitedPrefix ==
    /\ step \in 1 .. Len(InitOrder) + 1
    /\ inited = {InitOrder[k] : k \in 1 .. step - 1}
    /\ phase = "main" => step <= Len(InitOrder)
    /\ phase = "waiting" => step = Len(InitOrder) + 1

EntryIInv == TypeOK /\ InitedPrefix

LEMMA EntryInitIInv == EntryInit => EntryIInv
BY DEF EntryInit, EntryIInv, TypeOK, InitedPrefix, InitOrder, Subsystems

LEMMA MainStepIInv ==
    ASSUME EntryIInv, MainStep
    PROVE  EntryIInv'
<1>1. CASE /\ inited' = inited \cup {InitOrder[step]}
           /\ step' = step + 1
           /\ phase' = IF step = Len(InitOrder) THEN "waiting" ELSE "main"
  <2>1. step \in 1 .. Len(InitOrder)
    BY DEF MainStep, EntryIInv, InitedPrefix, InitOrder
  <2>2. inited' = {InitOrder[k] : k \in 1 .. step' - 1}
    BY <1>1, <2>1 DEF EntryIInv, InitedPrefix, InitOrder
  <2>3. QED
    BY <1>1, <2>1, <2>2 DEF MainStep, EntryIInv, TypeOK, InitedPrefix,
       InitOrder, Subsystems
<1>2. CASE phase' = "exited" /\ UNCHANGED <<step, inited>>
  BY <1>2 DEF MainStep, EntryIInv, TypeOK, InitedPrefix
<1>3. QED
  BY <1>1, <1>2 DEF MainStep

LEMMA DispatchIInv ==
    ASSUME EntryIInv, NEW p \in Pps, NEW from \in {"off", "running"},
           Dispatch(p, from)
    PROVE  EntryIInv'
BY DEF Dispatch, EntryIInv, TypeOK, InitedPrefix

LEMMA EntryIInvStep == EntryIInv /\ [EntryNext]_entryVars => EntryIInv'
<1> SUFFICES ASSUME EntryIInv, [EntryNext]_entryVars PROVE EntryIInv'
  OBVIOUS
<1>1. CASE MainStep
  BY <1>1, MainStepIInv
<1>2. CASE \E p \in Pps : BootstrapEntry(p) \/ FailEntry(p) \/ VmexitEntry(p)
  BY <1>2, DispatchIInv DEF BootstrapEntry, FailEntry, VmexitEntry
<1>3. CASE UNCHANGED entryVars
  BY <1>3 DEF entryVars, EntryIInv, TypeOK, InitedPrefix
<1>4. QED
  BY <1>1, <1>2, <1>3 DEF EntryNext

\* A PP is dispatched only in phase "waiting", where every subsystem is
\* initialised.
LEMMA DispatchStepSafe ==
    ASSUME EntryIInv, NEW p \in Pps,
           BootstrapEntry(p) \/ FailEntry(p) \/ VmexitEntry(p)
    PROVE  inited = Subsystems
<1>1. phase = "waiting"
  BY DEF BootstrapEntry, FailEntry, VmexitEntry, Dispatch
<1>2. step = Len(InitOrder) + 1
  BY <1>1 DEF EntryIInv, InitedPrefix
<1>3. QED
  BY <1>2 DEF EntryIInv, InitedPrefix, Subsystems, InitOrder

\* The bootstrap, VM-exit and fast-fail entries of main.cpp dispatch only
\* after all six initialisations of ext_main_entry succeeded.
THEOREM EntryDispatchOnlyAfterInit == EntrySpec => DispatchOnlyAfterInit
<1>1. EntrySpec => []EntryIInv
  BY EntryInitIInv, EntryIInvStep, PTL DEF EntrySpec
<1>2. EntryIInv => [\A p \in Pps : BootstrapEntry(p) \/ FailEntry(p) \/ VmexitEntry(p)
                       => inited = Subsystems]_entryVars
  BY DispatchStepSafe
<1>3. QED
  BY <1>1, <1>2, PTL DEF DispatchOnlyAfterInit
=============================================================================
