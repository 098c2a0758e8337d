---------------------------- MODULE SyncLifecycle ----------------------------
(***************************************************************************)
(* How the client starts and stops the sync service (sliding_sync.rs): the *)
(* UI only says whether sync is desired, and a task per change reconciles  *)
(* the service with that wish, under SYNC_SERVICE_LIFECYCLE_LOCK.  The     *)
(* lock is a tokio mutex: first come, first served, and held across the    *)
(* awaits of one reconciliation.  A subscriber of the service's state      *)
(* hears of its errors and restarts it.                                    *)
(*                                                                         *)
(* A service is known by the account it syncs.  What the task that holds   *)
(* the lock does to a service that SYNC_SERVICE no longer holds is of no   *)
(* consequence here: only `held.current' remembers it.                     *)
(***************************************************************************)
EXTENDS Naturals, Sequences

CONSTANTS
    Users,     \* the accounts a service can sync
    None,      \* no account, no service, no task at work
    MaxTasks   \* bound: reconciliations that run or wait for the lock

VARIABLES
    desired,   \* SYNC_SERVICE_DESIRED_RUNNING
    assumed,   \* SYNC_SERVICE_ASSUMED_RUNNING
    service,   \* SYNC_SERVICE: the account of the service, or None
    run,       \* the state of that service
    lockQueue, \* who holds the lifecycle lock, then who waits for it
    held,      \* what the lock's holder has under way
    listener,  \* handle_sync_service_state_subscriber of that service
    heard      \* its present error was delivered to the listener

syncVars == <<desired, assumed, service, run, lockQueue, held, listener, heard>>

Callers == {"ui", "main", "listener"}
Work == [want : BOOLEAN, called : BOOLEAN, current : BOOLEAN]

ASSUME SyncAssumption == /\ None \notin Users \union Work
                         /\ MaxTasks \in Nat \ {0}

SyncTypeOK ==
    /\ desired \in BOOLEAN
    /\ assumed \in BOOLEAN
    /\ service \in Users \union {None}
    /\ run \in {"idle", "running", "error"}
    /\ lockQueue \in Seq(Callers)
    /\ held \in Work \union {None}
    /\ listener \in {"watching", "applying", "ended"}
    /\ heard \in BOOLEAN

SyncInit ==
    /\ desired = TRUE
    /\ assumed = FALSE
    /\ service = None
    /\ run = "idle"
    /\ lockQueue = <<>>
    /\ held = None
    /\ listener = "ended"
    /\ heard = FALSE

----------------------------------------------------------------------------
(* The service comes and goes.                                             *)

\* Whoever works on the service that goes, or waits for the lock because of it,
\* goes on, but its listener has no more to hear.
Orphans == [i \in DOMAIN lockQueue |->
               IF lockQueue[i] = "listener" THEN "ui" ELSE lockQueue[i]]
Orphaned == IF held = None THEN None ELSE [held EXCEPT !.current = FALSE]

\* A new service is stored, in the place of the old one if there is one, its
\* state is subscribed to, and the task that built it reconciles it.
InstallService(a) ==
    /\ Len(lockQueue) < MaxTasks
    /\ service' = a
    /\ run' = "idle"
    /\ lockQueue' = Append(Orphans, "main")
    /\ held' = Orphaned
    /\ listener' = "watching"
    /\ heard' = FALSE
    /\ UNCHANGED <<desired, assumed>>

\* SYNC_SERVICE is emptied.
TakeService ==
    /\ service' = None
    /\ run' = "idle"
    /\ lockQueue' = Orphans
    /\ held' = Orphaned
    /\ listener' = "ended"
    /\ heard' = FALSE

DropService == TakeService /\ assumed' = FALSE /\ UNCHANGED desired

----------------------------------------------------------------------------
(* set_sync_service_desired_running: resume, foreground and background.    *)

SetDesired(wish) ==
    /\ Len(lockQueue) < MaxTasks
    /\ desired' = wish
    /\ lockQueue' = IF desired = wish /\ assumed = wish THEN lockQueue
                                                        ELSE Append(lockQueue, "ui")
    /\ UNCHANGED <<assumed, service, run, held, listener, heard>>

----------------------------------------------------------------------------
(* apply_sync_service_desired_state, by the holder of the lock.            *)

\* The loop ends: the lock is released, and the caller that awaited goes on.
Release ==
    /\ lockQueue' = Tail(lockQueue)
    /\ listener' = IF Head(lockQueue) = "listener" THEN "watching" ELSE listener
    /\ UNCHANGED <<desired, assumed, service, run, held, heard>>

ApplyLooks ==
    /\ lockQueue # <<>>
    /\ held = None
    /\ \/ /\ assumed = desired \/ service = None
          /\ Release
       \/ /\ assumed # desired
          /\ service # None
          /\ held' = [want |-> desired, called |-> FALSE, current |-> TRUE]
          /\ UNCHANGED <<desired, assumed, service, run, lockQueue, listener, heard>>

\* start() or stop() has done its work; the send queue is still to be enabled.
ApplyCalls ==
    /\ held # None
    /\ ~held.called
    /\ held' = [held EXCEPT !.called = TRUE]
    /\ run' = IF ~held.current THEN run ELSE IF held.want THEN "running" ELSE "idle"
    /\ heard' = (heard /\ ~held.current)
    /\ UNCHANGED <<desired, assumed, service, lockQueue, listener>>

\* Mutated form of Outcome: the wish of the moment is recorded.
OutcomeReread == desired

Outcome == held.want

\* The outcome is recorded, and the loop looks again.
ApplyRecords ==
    /\ held # None
    /\ held.called
    /\ assumed' = Outcome
    /\ held' = None
    /\ UNCHANGED <<desired, service, run, lockQueue, listener, heard>>

Apply == ApplyLooks \/ ApplyCalls \/ ApplyRecords

----------------------------------------------------------------------------
(* Errors of the service, and the listener.                                *)

ServiceFails ==
    /\ run = "running"
    /\ run' = "error"
    /\ heard' = FALSE
    /\ UNCHANGED <<desired, assumed, service, lockQueue, held, listener>>

ErrorIsNew == listener = "watching" /\ run = "error" /\ ~heard

\* An error other than an invalid token.
ListenerHears ==
    /\ ErrorIsNew
    /\ Len(lockQueue) < MaxTasks
    /\ assumed' = FALSE
    /\ heard' = TRUE
    /\ IF desired
         THEN /\ listener' = "applying"
              /\ lockQueue' = Append(lockQueue, "listener")
         ELSE UNCHANGED <<listener, lockQueue>>
    /\ UNCHANGED <<desired, service, run, held>>

----------------------------------------------------------------------------
(* The lifecycle of one session, that is set up once.                      *)

SetUp(a) == service = None /\ InstallService(a)

SyncNext ==
    \/ \E a \in Users : SetUp(a)
    \/ \E wish \in BOOLEAN : SetDesired(wish)
    \/ Apply
    \/ ServiceFails
    \/ ListenerHears

SyncSpec == SyncInit /\ [][SyncNext]_syncVars

----------------------------------------------------------------------------
(* Properties.                                                             *)

\* No reconciliation runs or waits.
Settled == lockQueue = <<>>

\* Once the reconciliations have settled, a client in the background does not
\* sync, whatever start, stop and error came in between (lifecycle_event's
\* Background, apply_sync_service_desired_state).
BackgroundIsQuiet == (Settled /\ ~desired) => run # "running"

\* A settled client in the foreground syncs, unless its service has failed:
\* no wish is lost to a reconciliation that was under way when it came.
ForegroundSyncs == (Settled /\ desired /\ service # None) => run # "idle"
=============================================================================
