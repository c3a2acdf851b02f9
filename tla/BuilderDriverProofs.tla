------------------------- MODULE BuilderDriverProofs -------------------------
(***************************************************************************)
(* Proofs about the builder driver's device-control callback: no kernel    *)
(* resource outlives a callback, for any number of requests.               *)
(*                                                                         *)
(* NoResourceLeak is inductive together with TypeOK.  The argument is      *)
(* local to one callback: what a callback leaves held is empty on every    *)
(* path of copy_from_user and ioctl_create_vm (CopiesLeftEmpty).           *)
(***************************************************************************)
EXTENDS BuilderDriver, TLAPS

DriverIInv == TypeOK /\ NoResourceLeak

\* copy_from_user releases what it acquired on every failing step it can
\* reach once its buffer is allocated (lines 50-78).
LEMMA CopyLeftEmpty ==
    ASSUME NEW s \in FailSteps \ {"alloc"}
    PROVE  CopyLeft(s) = {}
BY DEF FailSteps, CopyLeft, CopyAcquired, CopyReleased

\* Whichever copy of ioctl_create_vm fails, the failed copy_from_user
\* leaves nothing held.
LEMMA CopiesLeftEmpty ==
    ASSUME NEW given \in SUBSET Blobs, NEW fail \in Failures
    PROVE  CopiesLeft(given, fail) = {}
<1>1. CASE FailAt(given, fail) < 4 /\ fail[2] # "alloc"
  <2>1. fail # NoFailure
    BY <1>1 DEF FailAt
  <2>2. fail[2] \in FailSteps \ {"alloc"}
    BY <1>1, <2>1 DEF Failures
  <2>3. QED
    BY <1>1, <2>2, CopyLeftEmpty DEF CopiesLeft
<1>2. CASE ~(FailAt(given, fail) < 4 /\ fail[2] # "alloc")
  BY <1>2 DEF CopiesLeft
<1>3. QED
  BY <1>1, <1>2

LEMMA DriverInitIInv == DriverInit => DriverIInv
BY DEF DriverInit, DriverIInv, TypeOK, NoResourceLeak, NothingCopied, Pointers

LEMMA QueueInitializeIInv == DriverIInv /\ QueueInitialize => DriverIInv'
BY DEF DriverIInv, QueueInitialize, TypeOK, NoResourceLeak

LEMMA EvtIoDeviceControlIInv ==
    ASSUME DriverIInv, NEW r \in Requests, EvtIoDeviceControl(r)
    PROVE  DriverIInv'
<1>1. PICK in \in InStates, out \in OutStates, code \in Codes,
           given \in SUBSET Blobs, fail \in Failures, ok \in BOOLEAN :
        LET retrieved == in # "fail" /\ out # "fail"
            isCreate == retrieved /\ code = CreateVm /\ in = "full"
                        /\ out \in {"short", "full"}
            isDestroy == retrieved /\ code = DestroyVm /\ in = "full"
            created == isCreate /\ CreateSucceeds(given, fail, ok)
            left == (Allocated(given, fail) \ Freed(given, fail))
                    \cup CopiesLeft(given, fail)
        IN  /\ fail # NoFailure => fail[1] \in given
            /\ status' = [status EXCEPT ![r] = IF created \/ (isDestroy /\ ok)
                                               THEN "success" ELSE "denied"]
            /\ held' = held \cup (IF isCreate THEN {r} \X left ELSE {})
            /\ userArgs' = [userArgs EXCEPT ![r] =
                               IF isCreate
                               THEN [ptrs |-> CreateArgs(given, fail, ok),
                                     domid |-> created /\ out = "full"]
                               ELSE NothingCopied]
            /\ vmCreated' = IF created THEN vmCreated \cup {r} ELSE vmCreated
            /\ UNCHANGED queue
  BY DEF EvtIoDeviceControl
<1>2. (Allocated(given, fail) \ Freed(given, fail))
        \cup CopiesLeft(given, fail) = {}
  BY CopiesLeftEmpty DEF Freed
<1>3. NoResourceLeak'
  BY <1>1, <1>2 DEF DriverIInv, NoResourceLeak
<1>4. /\ CreateArgs(given, fail, ok) \in [Blobs -> Pointers]
      /\ NothingCopied \in [ptrs : [Blobs -> Pointers], domid : BOOLEAN]
  BY DEF CreateArgs, NothingCopied, Pointers
<1>5. userArgs' \in [Requests -> [ptrs : [Blobs -> Pointers], domid : BOOLEAN]]
  BY <1>1, <1>4 DEF DriverIInv, TypeOK
<1>6. /\ queue' \in {"none", "ready", "failed"}
      /\ status' \in [Requests -> {"queued", "success", "denied"}]
      /\ vmCreated' \subseteq Requests
  BY <1>1 DEF DriverIInv, TypeOK
<1>7. QED
  BY <1>3, <1>5, <1>6 DEF DriverIInv, TypeOK, NoResourceLeak

LEMMA DriverIInvStep == DriverIInv /\ [DriverNext]_driverVars => DriverIInv'
<1> SUFFICES ASSUME DriverIInv, [DriverNext]_driverVars PROVE DriverIInv'
  OBVIOUS
<1>1. CASE QueueInitialize
  BY <1>1, QueueInitializeIInv
<1>2. CASE \E r \in Requests : EvtIoDeviceControl(r)
  BY <1>2, EvtIoDeviceControlIInv
<1>3. CASE UNCHANGED driverVars
  BY <1>3 DEF DriverIInv, driverVars, TypeOK, NoResourceLeak
<1>4. QED
  BY <1>1, <1>2, <1>3 DEF DriverNext

LEMMA DriverIInvariant == DriverSpec => []DriverIInv
BY DriverInitIInv, DriverIInvStep, PTL DEF DriverSpec

\* Every MDL and kernel buffer the device-control callback acquires, on
\* every failure path of copy_from_user and ioctl_create_vm and on the
\* success path, is released before the callback completes its request.
THEOREM DriverNoResourceLeak == DriverSpec => []NoResourceLeak
BY DriverIInvariant, PTL DEF DriverIInv

\* The callback keeps its state well formed: every status, every held
\* resource and every output buffer the driver writes has its type.
THEOREM DriverTypeOK == DriverSpec => []TypeOK
BY DriverIInvariant, PTL DEF DriverIInv

=============================================================================
