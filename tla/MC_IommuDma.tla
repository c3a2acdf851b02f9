---------------------------- MODULE MC_IommuDma ----------------------------
(***************************************************************************)
(* Model-checking instance of IommuDma: two IOMMU units, the first with   *)
(* catch-all scope, no coherent page walk and no PSI; four functions, two  *)
(* per unit, one of each reserved for passthrough.                         *)
(***************************************************************************)
EXTENDS IommuDma, TLC

CONSTANTS dom0, g1, g2, i1, i2, a, b, c, e

MCIommuOf == (a :> i1) @@ (e :> i1) @@ (b :> i2) @@ (c :> i2)

\* The root lists every function it owns.
MCRootDevs == {a, b}

\* The root lists only the function behind the second unit: the devices
\* behind the catch-all unit are mapped by bus, not from m_pci_devs.
MCRootDevsPartial == {b}

=============================================================================
