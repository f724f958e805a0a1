---------------------------- MODULE LinkActivity ----------------------------
(***************************************************************************)
(* What the watchdog sees of the link mutex (src/usbmux/watchdog.rs:       *)
(* LinkActivity, LinkHold; src/usbmux/stream.rs: SharedLink::with).  Every *)
(* thread publishes its hold of the mutex in a few atomics, one store at a *)
(* time, and the watchdog reads them at any moment.  A hold is a           *)
(* number, in the order the mutex was taken; it stands for the stamp, the  *)
(* phase and the port of the hold, which are the things stored, and 0 for  *)
(* none of them.                                                           *)
(*                                                                         *)
(* SharedLink::with declares the LinkHold before the guard of the mutex,   *)
(* so the guard is dropped first: a hold is taken back after the mutex was *)
(* let go.  Loads and stores are taken in program order; the relaxed       *)
(* orderings of the code allow more.                                       *)
(***************************************************************************)
EXTENDS Naturals

CONSTANTS
    Users,     \* threads that take the link
    Nobody,    \* the mutex is free
    MaxHolds   \* bound: holds of a behaviour

VARIABLES
    mutex,         \* the holder of the mutex
    place,         \* where each thread is in SharedLink::with
    hold,          \* the hold of each thread
    holds,         \* holds begun
    heldSince, phase, port, waiters, acquisitions, releases   \* LinkActivity

activity == <<heldSince, phase, port, waiters, acquisitions, releases>>
activityVars == <<mutex, place, hold, holds, activity>>

Places == {"out", "waiting", "locked", "phase", "port", "stamp", "count", "body",
           "unlocked", "cleared", "idled"}

-----------------------------------------------------------------------------
(* A turn on the link.                                                     *)

Goto(t, where) == place' = [place EXCEPT ![t] = where]

\* begin_wait counts the thread before it asks for the mutex.
BeginWait(t) ==
    /\ place[t] = "out" /\ holds < MaxHolds
    /\ waiters' = waiters + 1
    /\ Goto(t, "waiting")
    /\ UNCHANGED <<mutex, hold, holds, heldSince, phase, port, acquisitions, releases>>

Lock(t) ==
    /\ place[t] = "waiting" /\ mutex = Nobody /\ holds < MaxHolds
    /\ mutex' = t
    /\ holds' = holds + 1
    /\ hold' = [hold EXCEPT ![t] = holds + 1]
    /\ Goto(t, "locked")
    /\ UNCHANGED activity

\* acquired: the waiter is no longer one, then phase, port, stamp and, last,
\* the count.
StopWaiting(t) ==
    /\ place[t] = "locked"
    /\ waiters' = waiters - 1
    /\ Goto(t, "phase")
    /\ UNCHANGED <<mutex, hold, holds, heldSince, phase, port, acquisitions, releases>>

StorePhase(t) ==
    /\ place[t] = "phase"
    /\ phase' = hold[t]
    /\ Goto(t, "port")
    /\ UNCHANGED <<mutex, hold, holds, heldSince, port, waiters, acquisitions, releases>>

StorePort(t) ==
    /\ place[t] = "port"
    /\ port' = hold[t]
    /\ Goto(t, "stamp")
    /\ UNCHANGED <<mutex, hold, holds, heldSince, phase, waiters, acquisitions, releases>>

StoreStamp(t) ==
    /\ place[t] = "stamp"
    /\ heldSince' = hold[t]
    /\ Goto(t, "count")
    /\ UNCHANGED <<mutex, hold, holds, phase, port, waiters, acquisitions, releases>>

CountAcquisition(t) ==
    /\ place[t] = "count"
    /\ acquisitions' = acquisitions + 1
    /\ Goto(t, "body")
    /\ UNCHANGED <<mutex, hold, holds, heldSince, phase, port, waiters, releases>>

\* The body returns or panics; either way the guard goes first.
Unlock(t) ==
    /\ place[t] = "body"
    /\ mutex' = Nobody
    /\ Goto(t, "unlocked")
    /\ UNCHANGED <<hold, holds, activity>>

\* LinkHold::drop, in its order: the stamp, the phase, the count.
ClearStamp(t) ==
    /\ place[t] = "unlocked"
    /\ heldSince' = 0
    /\ Goto(t, "cleared")
    /\ UNCHANGED <<mutex, hold, holds, phase, port, waiters, acquisitions, releases>>

ClearPhase(t) ==
    /\ place[t] = "cleared"
    /\ phase' = 0
    /\ Goto(t, "idled")
    /\ UNCHANGED <<mutex, hold, holds, heldSince, port, waiters, acquisitions, releases>>

CountRelease(t) ==
    /\ place[t] = "idled"
    /\ releases' = releases + 1
    /\ Goto(t, "out")
    /\ UNCHANGED <<mutex, hold, holds, heldSince, phase, port, waiters, acquisitions>>

-----------------------------------------------------------------------------
ActivityInit ==
    /\ mutex = Nobody /\ place = [t \in Users |-> "out"]
    /\ hold = [t \in Users |-> 0] /\ holds = 0
    /\ heldSince = 0 /\ phase = 0 /\ port = 0 /\ waiters = 0
    /\ acquisitions = 0 /\ releases = 0

ActivityNext ==
    \E t \in Users :
        \/ BeginWait(t) \/ Lock(t) \/ StopWaiting(t) \/ StorePhase(t) \/ StorePort(t)
        \/ StoreStamp(t) \/ CountAcquisition(t) \/ Unlock(t) \/ ClearStamp(t)
        \/ ClearPhase(t) \/ CountRelease(t)

ActivitySpec == ActivityInit /\ [][ActivityNext]_activityVars

-----------------------------------------------------------------------------
\* A link nobody is on shows no hold and no phase, so the watchdog raises no
\* alarm over a hold that is long gone, in whatever order the late stores of
\* LinkHold::drop came.
NoPhantomHold ==
    (\A t \in Users : place[t] \in {"out", "waiting"}) => heldSince = 0 /\ phase = 0

\* What a hold published stands while its body runs: "a hold is visible with
\* its phase and port while it lasts".
HoldIsVisible ==
    \A t \in Users : place[t] = "body" => heldSince = hold[t] /\ phase = hold[t] /\ port = hold[t]
=============================================================================
