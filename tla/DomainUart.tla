----------------------------- MODULE DomainUart -----------------------------
(***************************************************************************)
(* A domain's serial ports (domain.cpp lines 736-805): the emulated and    *)
(* pass-through port the toolstack selects, the set-up of the four COM     *)
(* UARTs on each vCPU, and the UART dump_uart reads.                       *)
(*                                                                         *)
(* The uart class is outside src/: what enable, disable and pass_through   *)
(* do to a vCPU is recorded as the port's state on that vCPU, and a        *)
(* pass-through UART object as the number of the make_unique that made it. *)
(* set_uart and set_pt_uart are called by the domain-creation hypercalls   *)
(* before the domain's vCPUs exist, so they are enabled only until the     *)
(* first vCPU is set up.                                                   *)
(***************************************************************************)
EXTENDS Naturals, Sequences

CONSTANTS
    Vcpus,      \* the domain's vCPUs
    ComOrder,   \* the COM ports 0x3F8, 0x2F8, 0x3E8, 0x2E8 in the switch's order
    OtherPort,  \* a port that is none of them
    NoPort      \* port 0: no UART selected

Com == {ComOrder[k] : k \in 1 .. Len(ComOrder)}

ASSUME UartAssumption ==
    /\ \A i, j \in 1 .. Len(ComOrder) : i # j => ComOrder[i] # ComOrder[j]
    /\ OtherPort \notin Com
    /\ NoPort \notin Com \cup {OtherPort}

Ports == Com \cup {OtherPort, NoPort}

\* A COM port on a vCPU: not yet handled, disabled, emulated, or passed
\* through to the pass-through UART.
PortStates == {"untouched", "disabled", "enabled", "passed"}

VARIABLES
    uartPort,   \* m_uart_port
    ptPort,     \* m_pt_uart_port
    ptUart,     \* m_pt_uart: 0 when null, else the number of its make_unique
    com,        \* com[u][v]: what m_uart_<u> did to vCPU v's port u
    passedTo,   \* passedTo[v]: the m_pt_uart object v passes its port to, or 0
    setUp       \* the vCPUs setup_vcpu_uarts has run on

uartVars == <<uartPort, ptPort, ptUart, com, passedTo, setUp>>

UartTypeOK ==
    /\ uartPort \in Ports /\ ptPort \in Ports
    /\ ptUart \in Nat
    /\ com \in [Com -> [Vcpus -> PortStates]]
    /\ passedTo \in [Vcpus -> Nat]
    /\ setUp \subseteq Vcpus

UartInit ==
    /\ uartPort = NoPort
    /\ ptPort = NoPort
    /\ ptUart = 0
    /\ com = [u \in Com |-> [v \in Vcpus |-> "untouched"]]
    /\ passedTo = [v \in Vcpus |-> 0]
    /\ setUp = {}

\* set_uart (lines 736-739).
SetUart(port) ==
    /\ setUp = {}
    /\ uartPort' = port
    /\ UNCHANGED <<ptPort, ptUart, com, passedTo, setUp>>

\* set_pt_uart (lines 741-744).
SetPtUart(port) ==
    /\ setUp = {}
    /\ ptPort' = port
    /\ UNCHANGED <<uartPort, ptUart, com, passedTo, setUp>>

(***************************************************************************)
(* setup_vcpu_uarts(v) (lines 746-782): the four COM ports are disabled on *)
(* v; then either the one m_uart_port names is enabled, or a new           *)
(* pass-through UART replaces m_pt_uart and takes v's port.  The vCPU's    *)
(* constructor, outside src/, calls it once per vCPU.                      *)
(***************************************************************************)
\* What the switch of lines 761-776 leaves port u in on the vCPU.
\* Seeded fault: a case without its break also enables the next COM port.
EnabledFallThrough(u) ==
    \/ u = uartPort
    \/ \E k \in 1 .. Len(ComOrder) - 1 :
         ComOrder[k] = uartPort /\ ComOrder[k + 1] = u

EnabledBySwitch(u) == u = uartPort

SetupVcpuUarts(v) ==
    /\ v \notin setUp
    /\ setUp' = setUp \cup {v}
    /\ IF ptPort = NoPort
       THEN /\ com' = [u \in Com |-> [com[u] EXCEPT ![v] =
                          IF EnabledBySwitch(u) THEN "enabled" ELSE "disabled"]]
            /\ UNCHANGED <<ptUart, passedTo>>
       ELSE /\ com' = [u \in Com |-> [com[u] EXCEPT ![v] =
                          IF u = ptPort THEN "passed" ELSE "disabled"]]
            /\ ptUart' = ptUart + 1
            /\ passedTo' = [passedTo EXCEPT ![v] = ptUart + 1]
    /\ UNCHANGED <<uartPort, ptPort>>

UartNext ==
    \/ \E port \in Ports : SetUart(port) \/ SetPtUart(port)
    \/ \E v \in Vcpus : SetupVcpuUarts(v)

UartSpec == UartInit /\ [][UartNext]_uartVars

\* The UART dump_uart (lines 784-805) reads: the pass-through one when it
\* exists, else the COM UART m_uart_port names, else none.
DumpSource ==
    IF ptUart # 0 THEN "pt"
    ELSE IF uartPort \in Com THEN uartPort
    ELSE "none"

-----------------------------------------------------------------------------
\* A guest's console is the UART dump_uart reads: on a set-up vCPU at most
\* one COM UART is enabled, and it is the one dump_uart reads; a vCPU whose
\* port is passed through has none enabled.
ConsoleIsDumped ==
    \A v \in setUp, u \in Com :
        com[u][v] = "enabled" => DumpSource = u /\ passedTo[v] = 0

=============================================================================
