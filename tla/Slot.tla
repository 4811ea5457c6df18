-------------------------------- MODULE Slot ---------------------------------
(***************************************************************************)
(* The latest-value slot of crates/channel/src/slot.rs, one step per       *)
(* critical section.  The caller and the worker thread share the slot's    *)
(* value (a mutex and a condition variable) and the busy flag (a second    *)
(* mutex, only ever held for one read or one write, so each of its         *)
(* critical sections is part of one step).  The worker holds the value     *)
(* mutex in the locations of HoldsLock and gives it up when it sleeps.     *)
(*                                                                         *)
(* The job is the workers' own (crates/pipeline): run the request, then    *)
(* Emitter::send the response, which fails once the receiver is gone.      *)
(***************************************************************************)
CONSTANTS Requests,     \* the values a caller may put
          Empty          \* an empty slot

ASSUME SlotAssumption == Empty \notin Requests

VARIABLES value,        \* Inner.value
          busy,         \* Inner.busy
          caller,       \* where the caller is: idle, or in put, or it dropped the slot
          worker,       \* where the worker loop is
          item,         \* the request the worker took
          listening,    \* the receiver of the responses still exists
          newest        \* history: the last request given to put

slotVars == <<value, busy, caller, worker, item, listening, newest>>

CallerAt == {"idle", "raise", "notify", "dropped"}
WorkerAt ==
    {"top", "check", "lower", "doze", "sleep", "take", "job", "leave", "fail", "done"}

SlotTypeOK ==
    /\ value \in Requests \cup {Empty}
    /\ busy \in BOOLEAN
    /\ caller \in CallerAt
    /\ worker \in WorkerAt
    /\ item \in Requests \cup {Empty}
    /\ worker = "job" <=> item # Empty
    /\ listening \in BOOLEAN
    /\ newest \in Requests \cup {Empty}

\* The locations in which the worker holds the value mutex.
HoldsLock == worker \in {"check", "lower", "doze", "take", "leave"}

SlotInit ==
    /\ value = Empty
    /\ busy = FALSE
    /\ caller = "idle"
    /\ worker = "top"
    /\ item = Empty
    /\ listening = TRUE
    /\ newest = Empty

------------------------------------------------------------------------------
(* The caller: put is three separate critical sections, then drop. *)

\* Mutant: the value is stored without its mutex (an atomic, say).
PutValueUnlocked(r) ==
    /\ caller = "idle"
    /\ value' = r
    /\ newest' = r
    /\ caller' = "raise"
    /\ UNCHANGED <<busy, worker, item, listening>>

PutValue(r) ==
    /\ caller = "idle"
    /\ ~HoldsLock
    /\ value' = r
    /\ newest' = r
    /\ caller' = "raise"
    /\ UNCHANGED <<busy, worker, item, listening>>

PutBusy ==
    /\ caller = "raise"
    /\ busy' = TRUE
    /\ caller' = "notify"
    /\ UNCHANGED <<value, worker, item, listening, newest>>

\* Mutant: put forgets to notify.
PutSilently ==
    /\ caller = "notify"
    /\ caller' = "idle"
    /\ UNCHANGED <<value, busy, worker, item, listening, newest>>

\* notify_one wakes the worker if it sleeps and is lost otherwise.
PutNotify ==
    /\ caller = "notify"
    /\ caller' = "idle"
    /\ worker' = IF worker = "sleep" THEN "top" ELSE worker
    /\ UNCHANGED <<value, busy, item, listening, newest>>

\* Dropping the slot only lowers the reference count: nothing is notified.
DropSlot ==
    /\ caller = "idle"
    /\ caller' = "dropped"
    /\ UNCHANGED <<value, busy, worker, item, listening, newest>>

CloseReceiver ==
    /\ listening
    /\ listening' = FALSE
    /\ UNCHANGED <<value, busy, caller, worker, item, newest>>

------------------------------------------------------------------------------
(* The worker loop. *)

\* Locks the value, at the top of the loop or when wait returns.
Lock ==
    /\ worker = "top"
    /\ worker' = "check"
    /\ UNCHANGED <<value, busy, caller, item, listening, newest>>

\* Mutant: the loop does not look at the reference count.
CheckForever ==
    /\ worker = "check"
    /\ worker' = IF value # Empty THEN "take" ELSE "lower"
    /\ UNCHANGED <<value, busy, caller, item, listening, newest>>

\* While the slot is empty the worker looks whether it is the only owner left.
Check ==
    /\ worker = "check"
    /\ worker' = IF value # Empty THEN "take"
                 ELSE IF caller = "dropped" THEN "leave" ELSE "lower"
    /\ UNCHANGED <<value, busy, caller, item, listening, newest>>

Lower ==
    /\ worker = "lower"
    /\ busy' = FALSE
    /\ worker' = "doze"
    /\ UNCHANGED <<value, caller, item, listening, newest>>

\* Condvar::wait gives up the value mutex and sleeps in one step.
Sleep ==
    /\ worker = "doze"
    /\ worker' = "sleep"
    /\ UNCHANGED <<value, busy, caller, item, listening, newest>>

\* Condvar::wait may return without a notification.
WakeSpuriously ==
    /\ worker = "sleep"
    /\ worker' = "top"
    /\ UNCHANGED <<value, busy, caller, item, listening, newest>>

\* Mutant: the worker copies the request and leaves it in the slot.
TakeByCopy ==
    /\ worker = "take"
    /\ busy' = TRUE
    /\ item' = value
    /\ worker' = "job"
    /\ UNCHANGED <<value, caller, listening, newest>>

\* Raises the flag, takes the value and unlocks.
TakeItem ==
    /\ worker = "take"
    /\ busy' = TRUE
    /\ item' = value
    /\ value' = Empty
    /\ worker' = "job"
    /\ UNCHANGED <<caller, listening, newest>>

\* The job runs and reports whether its response could be sent.
RunJob ==
    /\ worker = "job"
    /\ worker' = IF listening THEN "top" ELSE "fail"
    /\ item' = Empty
    /\ UNCHANGED <<value, busy, caller, listening, newest>>

\* Both exits lower the flag and return.
Exit ==
    /\ worker \in {"leave", "fail"}
    /\ busy' = FALSE
    /\ worker' = "done"
    /\ UNCHANGED <<value, caller, item, listening, newest>>

------------------------------------------------------------------------------
CallerNext == (\E r \in Requests: PutValue(r)) \/ PutBusy \/ PutNotify \/ DropSlot
WorkerStep == Lock \/ Check \/ Lower \/ Sleep \/ TakeItem \/ RunJob \/ Exit

SlotNext == CallerNext \/ CloseReceiver \/ WorkerStep \/ WakeSpuriously

\* Both threads run; nobody is obliged to put, to drop or to hang up, and no
\* spurious wakeup may be counted on.
Fairness == WF_slotVars(WorkerStep) /\ WF_slotVars(PutBusy) /\ WF_slotVars(PutNotify)

SlotSpec == SlotInit /\ [][SlotNext]_slotVars

FairSlot == SlotSpec /\ Fairness

------------------------------------------------------------------------------
(* Properties. *)

\* No lost wakeup: a worker asleep on a waiting request is about to be
\* notified, so put needs no lock around its notify_one.
NoLostWakeup ==
    value # Empty /\ worker = "sleep" => caller \in {"raise", "notify"}

\* is_busy never denies work in progress: from the moment put returns until
\* the job ends, the flag is up, although put raises it outside the value
\* mutex and the worker lowers it on its way to sleep.
BusyWhileWork ==
    /\ worker = "job" => busy
    /\ value # Empty /\ caller # "raise" /\ worker # "done" => busy

\* The newest request wins: whatever the worker takes is the last one put,
\* never an older one that was replaced while it waited.
TakesNewest == [][item' # item /\ item' # Empty => item' = newest]_slotVars

\* A slot dropped while the worker is busy does stop it, after it has run
\* whatever was waiting: the worker finds itself alone on its next check.
DropStopsBusyWorker ==
    caller = "dropped" /\ worker \in {"top", "check", "take", "job"} ~> worker = "done"

\* The slot is a mailbox: put takes effect when the value is stored.
Abstract == INSTANCE Mailbox WITH
    None <- Empty,
    waiting <- value,
    working <- item,
    open <- worker \notin {"fail", "done"}

\* Every step of the two threads is a step of the mailbox or none of it.
ImplementsMailbox == Abstract!MailboxSpec

\* Under the threads' fairness every request is run or replaced by a newer
\* one, whatever put's late notification and the worker's sleep do.
NewestServed == Abstract!Served
==============================================================================
