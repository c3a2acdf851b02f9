-------------------------- MODULE DomainUartProofs --------------------------
(***************************************************************************)
(* Proofs that setup_vcpu_uarts leaves every COM port handled and the one  *)
(* enabled UART the one dump_uart reads, for any vCPUs and any ports.      *)
(***************************************************************************)
EXTENDS DomainUart, TLAPS

\* A vCPU not yet set up has nothing done to its ports.
NotSetUpUntouched ==
    \A v \in Vcpus \ setUp :
        passedTo[v] = 0 /\ \A u \in Com : com[u][v] = "untouched"

\* A COM UART enabled on a vCPU was enabled under the current selection,
\* which had no pass-through port, so the vCPU was given no pass-through UART.
EnabledMatchesSelection ==
    \A v \in setUp, u \in Com :
        com[u][v] = "enabled" => u = uartPort /\ ptPort = NoPort /\ passedTo[v] = 0

\* No pass-through UART is made while no pass-through port is selected.
NoPtUartWithoutPort == ptPort = NoPort => ptUart = 0

\* The first pass-through UART is made by the first set-up.
NoPtUartBeforeSetup == setUp = {} => ptUart = 0

UartIInv ==
    /\ UartTypeOK
    /\ NoPtUartBeforeSetup
    /\ NotSetUpUntouched
    /\ EnabledMatchesSelection
    /\ NoPtUartWithoutPort

LEMMA UartInitIInv == UartInit => UartIInv
BY UartAssumption DEF UartInit, UartIInv, UartTypeOK, NotSetUpUntouched,
   EnabledMatchesSelection, NoPtUartWithoutPort, Ports,
   NoPtUartBeforeSetup,
   PortStates

\* The setters are enabled only before any vCPU is set up, when the
\* conjuncts about set-up vCPUs hold vacuously.
LEMMA SetterIInv ==
    ASSUME UartIInv, NEW port \in Ports, SetUart(port) \/ SetPtUart(port)
    PROVE  UartIInv'
BY DEF UartIInv, SetUart, SetPtUart, UartTypeOK, NotSetUpUntouched,
   EnabledMatchesSelection, NoPtUartWithoutPort,
   NoPtUartBeforeSetup, Ports

LEMMA SetupIInv ==
    ASSUME UartIInv, NEW v \in Vcpus, SetupVcpuUarts(v)
    PROVE  UartIInv'
<1> USE DEF SetupVcpuUarts, EnabledBySwitch
<1>1. CASE ptPort = NoPort
  <2>1. UartTypeOK'
    BY <1>1 DEF UartIInv, UartTypeOK, PortStates
  <2>2. NotSetUpUntouched'
    BY <1>1 DEF UartIInv, UartTypeOK, NotSetUpUntouched
  <2>3. EnabledMatchesSelection'
    <3> SUFFICES ASSUME NEW w \in setUp', NEW u \in Com, com'[u][w] = "enabled"
                 PROVE  u = uartPort' /\ ptPort' = NoPort /\ passedTo'[w] = 0
      BY DEF EnabledMatchesSelection
    <3>1. CASE w = v
      BY <1>1, <3>1 DEF UartIInv, UartTypeOK, NotSetUpUntouched
    <3>2. CASE w # v
      BY <1>1, <3>2 DEF UartIInv, UartTypeOK, EnabledMatchesSelection
    <3>3. QED
      BY <3>1, <3>2
  <2>4. NoPtUartWithoutPort' /\ NoPtUartBeforeSetup'
    BY <1>1 DEF UartIInv, NoPtUartWithoutPort, NoPtUartBeforeSetup
  <2>6. QED
    BY <2>1, <2>2, <2>3, <2>4 DEF UartIInv
<1>2. CASE ptPort # NoPort
  <2>1. UartTypeOK'
    BY <1>2 DEF UartIInv, UartTypeOK, PortStates
  <2>2. NotSetUpUntouched'
    BY <1>2 DEF UartIInv, UartTypeOK, NotSetUpUntouched
  <2>3. EnabledMatchesSelection'
    <3> SUFFICES ASSUME NEW w \in setUp', NEW u \in Com, com'[u][w] = "enabled"
                 PROVE  u = uartPort' /\ ptPort' = NoPort /\ passedTo'[w] = 0
      BY DEF EnabledMatchesSelection
    <3>1. CASE w = v
      BY <1>2, <3>1 DEF UartIInv, UartTypeOK
    <3>2. CASE w # v
      BY <1>2, <3>2 DEF UartIInv, UartTypeOK, EnabledMatchesSelection
    <3>3. QED
      BY <3>1, <3>2
  <2>4. NoPtUartWithoutPort' /\ NoPtUartBeforeSetup'
    BY <1>2 DEF UartIInv, NoPtUartWithoutPort, NoPtUartBeforeSetup
  <2>6. QED
    BY <2>1, <2>2, <2>3, <2>4 DEF UartIInv
<1>3. QED
  BY <1>1, <1>2

LEMMA UartIInvStep == UartIInv /\ [UartNext]_uartVars => UartIInv'
<1> SUFFICES ASSUME UartIInv, [UartNext]_uartVars PROVE UartIInv'
  OBVIOUS
<1>1. CASE \E port \in Ports : SetUart(port) \/ SetPtUart(port)
  BY <1>1, SetterIInv
<1>2. CASE \E v \in Vcpus : SetupVcpuUarts(v)
  BY <1>2, SetupIInv
<1>3. CASE UNCHANGED uartVars
  BY <1>3 DEF uartVars, UartIInv, UartTypeOK, NotSetUpUntouched,
     EnabledMatchesSelection, NoPtUartWithoutPort,
     NoPtUartBeforeSetup
<1>4. QED
  BY <1>1, <1>2, <1>3 DEF UartNext

LEMMA UartIInvariant == UartSpec => []UartIInv
BY UartInitIInv, UartIInvStep, PTL DEF UartSpec

\* The one COM UART enabled on a set-up vCPU is the one dump_uart reads, and
\* a vCPU given a pass-through UART has none enabled.
THEOREM UartConsoleIsDumped == UartSpec => []ConsoleIsDumped
<1>1. UartIInv => ConsoleIsDumped
  BY DEF UartIInv, EnabledMatchesSelection, NoPtUartWithoutPort,
     ConsoleIsDumped, DumpSource, UartTypeOK
<1>2. QED
  BY <1>1, UartIInvariant, PTL
=============================================================================
