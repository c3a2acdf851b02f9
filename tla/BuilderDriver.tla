---------------------------- MODULE BuilderDriver ----------------------------
(***************************************************************************)
(* The Windows builder driver's I/O queue (src/unnamed/part_000): the      *)
(* device-control callback, which dispatches IOCTL_CREATE_VM and           *)
(* IOCTL_DESTROY_VM, ioctl_create_vm with its copies of the image, initrd  *)
(* and command line from user space, and copy_from_user.                   *)
(*                                                                         *)
(* The queue dispatches in parallel, but two requests share no state in    *)
(* this file: each callback runs to completion on its own thread, so each  *)
(* is one step.  What a step chooses is what the kernel and the caller can *)
(* make happen: which buffers the caller passed, which allocation, probe,  *)
(* lock or mapping fails first, and what common_create_vm and              *)
(* common_destroy_vm (outside src/) return.                                *)
(*                                                                         *)
(* A pointer field of create_vm_args is abstracted to what it points at:   *)
(* nothing, the caller's memory, or a kernel buffer of the driver.         *)
(***************************************************************************)
EXTENDS Naturals, Sequences

CONSTANTS
    Requests,                   \* the WDF requests of a run
    Image, Initrd, Cmdl,        \* the three blobs of create_vm_args
    CreateVm, DestroyVm, OtherCode, \* IoControlCode values
    NoFailure                   \* ioctl_create_vm reaches common_create_vm

\* The blobs in the order ioctl_create_vm copies them.
Order == <<Image, Initrd, Cmdl>>

Blobs == {Image, Initrd, Cmdl}

Codes == {CreateVm, DestroyVm, OtherCode}

\* How a buffer of the request can be retrieved: its length is zero, the
\* retrieval fails, or it succeeds with a buffer that ends before domainid
\* ("short") or holds the whole of create_vm_args ("full").  A short input
\* buffer is left out: ioctl_create_vm would read and write past it.
InStates == {"absent", "fail", "full"}

OutStates == {"absent", "fail", "short", "full"}

\* The step of a blob's copy that fails: its allocation, or a step of
\* copy_from_user.
FailSteps == {"alloc", "probe", "mdl", "lock", "map"}

Failures == (Blobs \X FailSteps) \cup {NoFailure}

VARIABLES
    queue,      \* "none" before builderQueueInitialize, then "ready" or "failed"
    status,     \* status[r]: "queued", or the status r was completed with
    held,       \* the kernel resources left behind by finished callbacks
    userArgs,   \* userArgs[r]: what the driver copied to r's output buffer
    vmCreated   \* the requests whose common_create_vm created a VM

driverVars == <<queue, status, held, userArgs, vmCreated>>

Pointers == {"null", "user", "kernel"}

\* An output buffer the driver has not written: no pointer, no domain ID.
NothingCopied == [ptrs |-> [b \in Blobs |-> "null"], domid |-> FALSE]

-----------------------------------------------------------------------------
(***************************************************************************)
(* copy_from_user(dst, src, num) (lines 37-79), by the step that fails:    *)
(* the resources it acquired and the ones it released on the way out.      *)
(***************************************************************************)
CopyAcquired(step) ==
    CASE step = "probe" -> {}
      [] step = "mdl"   -> {}
      [] step = "lock"  -> {"mdl"}
      [] OTHER          -> {"mdl", "locked"}

\* Seeded fault: the mapping failure frees the MDL without unlocking it.
CopyReleasedNoUnlock(step) ==
    CASE step = "lock" -> {"mdl"}
      [] step = "map"  -> {"mdl"}
      [] step = "ok"   -> {"mdl", "locked"}
      [] OTHER         -> {}

CopyReleased(step) ==
    CASE step = "lock" -> {"mdl"}
      [] step = "map"  -> {"locked", "mdl"}
      [] step = "ok"   -> {"locked", "mdl"}
      [] OTHER         -> {}

\* What copy_from_user leaves held when step fails ("ok": it succeeds).
CopyLeft(step) == CopyAcquired(step) \ CopyReleased(step)

-----------------------------------------------------------------------------
(***************************************************************************)
(* ioctl_create_vm (lines 88-173) for the blobs the caller passed          *)
(* (pointer and size both non-zero), the first failure, and the result of *)
(* common_create_vm.                                                       *)
(***************************************************************************)
\* The position in Order of the blob whose copy fails, 4 when none does.
FailAt(given, fail) ==
    IF fail # NoFailure /\ fail[1] \in given
    THEN CHOOSE k \in 1 .. 3 : Order[k] = fail[1]
    ELSE 4

\* The given blobs among the first n of Order.
Before(given, n) == {Order[k] : k \in {j \in 1 .. 3 : j <= n}} \cap given

\* The blobs whose kernel buffer was allocated: all the given blobs before
\* the failing one, and that one too unless its allocation failed.
Allocated(given, fail) ==
    LET k == FailAt(given, fail)
    IN  IF k < 4 /\ fail[2] = "alloc" THEN Before(given, k - 1)
        ELSE Before(given, k)

\* The blobs whose copy succeeded: args->X now points at the kernel buffer.
Copied(given, fail) == Before(given, FailAt(given, fail) - 1)

\* What copy_from_user left held: only a failing copy can leave anything.
CopiesLeft(given, fail) ==
    IF FailAt(given, fail) < 4 /\ fail[2] # "alloc" THEN CopyLeft(fail[2]) ELSE {}

\* The buffers the exit path frees: image, initrd and cmdl, each NULL
\* unless allocated.
Freed(given, fail) == Allocated(given, fail)

\* The pointer fields after ioctl_create_vm: both exits clear them.
CreateArgs(given, fail, createOk) == [b \in Blobs |-> "null"]

\* common_create_vm runs only when every copy succeeded.
CreateSucceeds(given, fail, createOk) == FailAt(given, fail) = 4 /\ createOk

-----------------------------------------------------------------------------
TypeOK ==
    /\ queue \in {"none", "ready", "failed"}
    /\ status \in [Requests -> {"queued", "success", "denied"}]
    /\ held \subseteq Requests \X (Blobs \cup {"mdl", "locked"})
    /\ userArgs \in [Requests -> [ptrs : [Blobs -> Pointers], domid : BOOLEAN]]
    /\ vmCreated \subseteq Requests

DriverInit ==
    /\ queue = "none"
    /\ status = [r \in Requests |-> "queued"]
    /\ held = {}
    /\ userArgs = [r \in Requests |-> NothingCopied]
    /\ vmCreated = {}

\* builderQueueInitialize (lines 192-217): WdfIoQueueCreate may fail, and
\* then no request is ever dispatched to the callbacks.
QueueInitialize ==
    /\ queue = "none"
    /\ queue' \in {"ready", "failed"}
    /\ UNCHANGED <<status, held, userArgs, vmCreated>>

(***************************************************************************)
(* builderEvtIoDeviceControl (lines 220-298) for request r: the buffers    *)
(* are retrieved, the code dispatched, ioctl_create_vm or ioctl_destroy_vm *)
(* run, the output buffer gets min(out_size, in_size) bytes of the input   *)
(* (create only), and the request is completed once.                       *)
(***************************************************************************)
EvtIoDeviceControl(r) ==
    /\ queue = "ready"
    /\ status[r] = "queued"
    /\ \E in \in InStates, out \in OutStates, code \in Codes,
          given \in SUBSET Blobs, fail \in Failures, ok \in BOOLEAN :
        LET retrieved == in # "fail" /\ out # "fail"
            isCreate == retrieved /\ code = CreateVm /\ in = "full"
                        /\ out \in {"short", "full"}
            isDestroy == retrieved /\ code = DestroyVm /\ in = "full"
            created == isCreate /\ CreateSucceeds(given, fail, ok)
            left == (Allocated(given, fail) \ Freed(given, fail))
                    \cup CopiesLeft(given, fail)
        IN  /\ fail # NoFailure => fail[1] \in given
            /\ status' = [status EXCEPT ![r] = IF created \/ (isDestroy /\ ok)
                                               THEN "success" ELSE "denied"]
            /\ held' = held \cup (IF isCreate THEN {r} \X left ELSE {})
            /\ userArgs' = [userArgs EXCEPT ![r] =
                               IF isCreate
                               THEN [ptrs |-> CreateArgs(given, fail, ok),
                                     domid |-> created /\ out = "full"]
                               ELSE NothingCopied]
            /\ vmCreated' = IF created THEN vmCreated \cup {r} ELSE vmCreated
            /\ UNCHANGED queue

DriverNext ==
    \/ QueueInitialize
    \/ \E r \in Requests : EvtIoDeviceControl(r)

DriverSpec == DriverInit /\ [][DriverNext]_driverVars

-----------------------------------------------------------------------------
\* Every MDL that copy_from_user allocated or locked, and every kernel buffer
\* that ioctl_create_vm allocated, is released when the callback returns,
\* on every failure path of lines 37-173 and on the success path.
NoResourceLeak == held = {}

\* builderinterface.h documents domainid as the out field with the ID of
\* the VM created: a create completed with STATUS_SUCCESS hands the caller
\* the ID of the VM it created, so that it can later destroy it.
CreatedVmIdReturned ==
    \A r \in vmCreated : status[r] = "success" /\ userArgs[r].domid

=============================================================================
